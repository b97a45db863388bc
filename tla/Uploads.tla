------------------------------- MODULE Uploads -------------------------------
(***************************************************************************)
(* A recording or a picture on its way to the Wall: it is stripped of its  *)
(* metadata, stored, entered as PENDING (MediaService.ingest), attached to *)
(* a voice that waits for a moderator, and served.                         *)
(*                                                                         *)
(* Every step may fail, and the process may stop at any of them. One       *)
(* upload a file; bounds: Files uploads, MaxFailures failures and stops.   *)
(* StoreAnyway is a plausible mistake in the definition that follows it;   *)
(* only the mutation runs use it.                                          *)
(***************************************************************************)
EXTENDS Integers

CONSTANTS Files, MaxFailures

VARIABLES upload,    \* the request of each file: its step, and the bytes it holds
          work,      \* the files of its working directory
          stored,    \* the object under its key
          asset,     \* its row
          carried,   \* the voice it is attached to
          failures, stopped

uploads == <<upload, work, stored, asset, carried, failures, stopped>>

Kinds     == {"image", "media", "other"}
Sizes     == {"fits", "too large"}
Bytes     == {"none", "raw", "clean"}
NotSent   == [at |-> "unsent", bytes |-> "none", fails |-> FALSE]

UploadsTypeOK ==
  /\ upload \in [Files -> [at : {"unsent", "stripImage", "mkdtemp", "writeFile", "ffmpeg",
                                 "readFile", "rm", "put", "create", "answered", "refused"},
                           bytes : Bytes, fails : BOOLEAN]]
  /\ work \in [Files -> SUBSET Bytes] /\ stored \in [Files -> Bytes]
  /\ asset \in [Files -> {"none", "PENDING"}]
  /\ carried \in [Files -> {"none", "PENDING", "PUBLISHED"}]
  /\ failures \in 0..MaxFailures /\ stopped \subseteq Files

UploadsInit ==
  /\ upload = [f \in Files |-> NotSent] /\ work = [f \in Files |-> {}]
  /\ stored = [f \in Files |-> "none"] /\ asset = [f \in Files |-> "none"]
  /\ carried = [f \in Files |-> "none"] /\ failures = 0 /\ stopped = {}

At(f, step) == upload[f].at = step
To(f, step) == upload' = [upload EXCEPT ![f].at = step]
Refused(f)  == upload' = [upload EXCEPT ![f] = [NotSent EXCEPT !.at = "refused"]]

\* The interceptor and ingest refuse what is too large or of another type.
Upload(f, kind, size) ==
  /\ At(f, "unsent")
  /\ IF kind = "other" \/ size = "too large" THEN Refused(f)
     ELSE upload' = [upload EXCEPT ![f] =
            [at |-> IF kind = "image" THEN "stripImage" ELSE "mkdtemp",
             bytes |-> "raw", fails |-> FALSE]]
  /\ UNCHANGED <<work, stored, asset, carried, failures, stopped>>

MayFail == failures < MaxFailures /\ failures' = failures + 1

\* stripImage: the picture encoded anew, or a refusal.
StripImage(f) ==
  /\ At(f, "stripImage")
  /\ \/ upload' = [upload EXCEPT ![f].at = "put", ![f].bytes = "clean"] /\ UNCHANGED failures
     \/ MayFail /\ Refused(f)
  /\ UNCHANGED <<work, stored, asset, carried, stopped>>

-----------------------------------------------------------------------------
(* stripMedia                                                                *)

MakeDirectory(f) ==
  /\ At(f, "mkdtemp")
  /\ \/ To(f, "writeFile") /\ UNCHANGED failures
     \/ MayFail /\ Refused(f)
  /\ UNCHANGED <<work, stored, asset, carried, stopped>>

\* Within the try: what is thrown goes by the finally.
ToFinally(f) == upload' = [upload EXCEPT ![f].at = "rm", ![f].fails = TRUE]

\* A write that fails may have written.
WriteFile(f) ==
  /\ At(f, "writeFile")
  /\ \/ work' = [work EXCEPT ![f] = @ \union {"raw"}] /\ To(f, "ffmpeg") /\ UNCHANGED failures
     \/ MayFail /\ ToFinally(f)
        /\ \E left \in {{}, {"raw"}} : work' = [work EXCEPT ![f] = @ \union left]
  /\ UNCHANGED <<stored, asset, carried, stopped>>

\* ffmpeg is not there ('error'), or ends with another code than 0 ('close').
StoreAnyway(f) ==
  /\ At(f, "ffmpeg")
  /\ \/ work' = [work EXCEPT ![f] = @ \union {"clean"}] /\ To(f, "readFile") /\ UNCHANGED failures
     \/ MayFail /\ upload' = [upload EXCEPT ![f].at = "rm"] /\ UNCHANGED work
  /\ UNCHANGED <<stored, asset, carried, stopped>>
Ffmpeg(f) ==
  /\ At(f, "ffmpeg")
  /\ \/ work' = [work EXCEPT ![f] = @ \union {"clean"}] /\ To(f, "readFile") /\ UNCHANGED failures
     \/ MayFail /\ ToFinally(f) /\ UNCHANGED work
  /\ UNCHANGED <<stored, asset, carried, stopped>>

ReadFile(f) ==
  /\ At(f, "readFile")
  /\ \/ upload' = [upload EXCEPT ![f].at = "rm", ![f].bytes = "clean"] /\ UNCHANGED failures
     \/ MayFail /\ ToFinally(f)
  /\ UNCHANGED <<work, stored, asset, carried, stopped>>

\* The finally; an rm that fails throws in its turn, and leaves what it leaves.
RemoveWork(f) ==
  /\ At(f, "rm")
  /\ \/ /\ work' = [work EXCEPT ![f] = {}]
        /\ IF upload[f].fails THEN Refused(f) ELSE To(f, "put")
        /\ UNCHANGED <<failures, stopped>>
     \/ MayFail /\ Refused(f) /\ stopped' = stopped \union {f} /\ UNCHANGED work
  /\ UNCHANGED <<stored, asset, carried>>

-----------------------------------------------------------------------------
(* StorageService.put, the row, and what comes after                         *)

Put(f) ==
  /\ At(f, "put")
  /\ \/ stored' = [stored EXCEPT ![f] = upload[f].bytes] /\ To(f, "create") /\ UNCHANGED failures
     \/ MayFail /\ Refused(f) /\ UNCHANGED stored
  /\ UNCHANGED <<work, asset, carried, stopped>>

CreateAsset(f) ==
  /\ At(f, "create")
  /\ \/ asset' = [asset EXCEPT ![f] = "PENDING"] /\ To(f, "answered") /\ UNCHANGED failures
     \/ MayFail /\ Refused(f) /\ UNCHANGED asset
  /\ UNCHANGED <<work, stored, carried, stopped>>

\* VoiceService.submit: a voice with media waits.
SubmitWith(f) ==
  /\ asset[f] # "none" /\ carried[f] = "none"
  /\ carried' = [carried EXCEPT ![f] = "PENDING"]
  /\ UNCHANGED <<upload, work, stored, asset, failures, stopped>>

\* ModerationService.applyToTarget, APPROVE of a voice.
Approve(f) ==
  /\ carried[f] = "PENDING"
  /\ carried' = [carried EXCEPT ![f] = "PUBLISHED"]
  /\ UNCHANGED <<upload, work, stored, asset, failures, stopped>>

Get(f) == stored[f]

\* streamPublished: the object, if its row says so.
Served(f) == IF asset[f] = "PUBLISHED" THEN Get(f) ELSE "none"

\* The process stops: its requests are gone, their directories are not.
ProcessStops ==
  /\ MayFail
  /\ LET cut == {f \in Files : upload[f].at \notin {"unsent", "answered", "refused"}} IN
     /\ cut # {}
     /\ upload' = [f \in Files |-> IF f \in cut THEN [NotSent EXCEPT !.at = "refused"] ELSE upload[f]]
     /\ stopped' = stopped \union cut
  /\ UNCHANGED <<work, stored, asset, carried>>

UploadsNext ==
  \/ ProcessStops
  \/ \E f \in Files :
       \/ \E kind \in Kinds, size \in Sizes : Upload(f, kind, size)
       \/ StripImage(f) \/ MakeDirectory(f) \/ WriteFile(f) \/ Ffmpeg(f) \/ ReadFile(f)
       \/ RemoveWork(f) \/ Put(f) \/ CreateAsset(f) \/ SubmitWith(f) \/ Approve(f)

UploadsSpec == UploadsInit /\ [][UploadsNext]_uploads

-----------------------------------------------------------------------------
(* Properties                                                                *)

\* S-3, "the service fails closed": whichever of its steps fails, nothing with
\* its metadata is stored, and the working copy that still has it is gone with
\* the request, unless the directory cannot be removed or the process stops.
NothingUnstripped ==
  \A f \in Files :
    /\ stored[f] # "raw"
    /\ "raw" \in work[f] => upload[f].at \in {"ffmpeg", "readFile", "rm"} \/ f \in stopped

\* A-3: what moderation has cleared is on the Wall. Nothing ever publishes the
\* asset of a voice that is approved, so its recording is not served.
ClearedMediaIsServed == \A f \in Files : carried[f] = "PUBLISHED" => Served(f) # "none"
=============================================================================
