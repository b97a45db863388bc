------------------------------ MODULE SiteProofs ------------------------------
(***************************************************************************)
(* Theorems about the small parts of the site that MCSite checks together  *)
(* and that share nothing: the catalogues and their check, consent to      *)
(* publication, uploads, circles and posts, a member's presence, the       *)
(* photographs, the pages that ask the API, the throttle, the Wall as it   *)
(* is read. Each is about the specification of its own part, for any value *)
(* of its constants, and rests on an inductive invariant of that part      *)
(* alone.                                                                  *)
(***************************************************************************)
EXTENDS Throttle, Catalogues, Consent, Uploads, Community, Presence, Photos,
        Pages, WallPages, FiniteSetTheorems, TLAPS

-----------------------------------------------------------------------------
(* Catalogues                                                                *)

(* A catalogue is a file of messages, or no file.                            *)
LEMMA CataloguesTyped == CataloguesSpec => []CataloguesTypeOK
<1> DEFINE Texts == {NoFile} \union [Keys -> Messages]
<1>1. CataloguesInit => CataloguesTypeOK
  BY DEF CataloguesInit, CataloguesTypeOK
<1>2. ASSUME CataloguesTypeOK, [CataloguesNext]_catalogues PROVE CataloguesTypeOK'
  <2>1. file \in [Locales -> [Namespaces -> Texts]]
    BY <1>2 DEF CataloguesTypeOK
  <2>2. ASSUME NEW l \in Locales, NEW n \in Namespaces, NEW k \in Keys,
               NEW message \in Messages, Translate(l, n, k, message)
        PROVE  CataloguesTypeOK'
    <3> DEFINE text == [j \in Keys |-> IF j = k THEN message
                                       ELSE IF file[l][n] = NoFile THEN "none" ELSE file[l][n][j]]
    <3>1. file[l][n] \in Texts /\ "none" \in Messages
      BY <2>1 DEF Messages
    <3>2. text \in Texts
      BY <3>1
    <3>3. file' = [file EXCEPT ![l][n] = text] /\ UNCHANGED calls
      BY <2>2 DEF Translate
    <3> HIDE DEF text, Texts
    <3>4. file' \in [Locales -> [Namespaces -> Texts]]
      BY <2>1, <3>2, <3>3
    <3> QED
      BY <1>2, <3>3, <3>4 DEF CataloguesTypeOK, Texts
  <2>3. ASSUME NEW l \in Locales, NEW n \in Namespaces, RemoveFile(l, n)
        PROVE  CataloguesTypeOK'
    <3>1. NoFile \in Texts
      OBVIOUS
    <3> HIDE DEF Texts
    <3>2. file' \in [Locales -> [Namespaces -> Texts]]
      BY <2>1, <2>3, <3>1 DEF RemoveFile
    <3> QED
      BY <1>2, <2>3, <3>2 DEF CataloguesTypeOK, RemoveFile, Texts
  <2>4. ASSUME NEW c \in Call, CallFor(c) PROVE CataloguesTypeOK'
    BY <1>2, <2>4 DEF CataloguesTypeOK, CallFor
  <2>5. CASE UNCHANGED catalogues
    BY <1>2, <2>5 DEF CataloguesTypeOK, catalogues
  <2> QED
    BY <1>2, <2>2, <2>3, <2>4, <2>5 DEF CataloguesNext
<1> QED
  BY <1>1, <1>2, PTL DEF CataloguesSpec

(* In a tree that check-messages.mjs accepts, whatever was translated,       *)
(* removed and called for, a reader of any language is shown words of that   *)
(* language for every key that is written out beside the translator it is    *)
(* for and that no other namespace bound there has, unless its message is    *)
(* null: then they are the English ones, or none where those are null too.   *)
THEOREM AcceptedTreesSpeak == CataloguesSpec => []AcceptedIsWorded
<1>1. CataloguesTypeOK => AcceptedIsWorded
  <2> SUFFICES ASSUME CataloguesTypeOK, Accepted, NEW l \in Directories, NEW c \in calls, Legible(c)
               PROVE  \/ ShownTo(l, c) = "words"
                      \/ /\ file[l][c.of][c.key] = "null"
                         /\ ShownTo(l, c) = IF file[Reference][c.of][c.key] = "null"
                                            THEN "nothing" ELSE "English"
    BY DEF AcceptedIsWorded
  <2>1. /\ c.of \in c.bound /\ c.of \in Namespaces /\ c.bound \subseteq Namespaces
        /\ c.key \in Keys /\ c.form = "plain" /\ c.taken # "none" /\ l \in Locales
    BY CataloguesAssumption DEF CataloguesTypeOK, Call, Legible, Directories
  <2>2. c.key \in Present(Reference, c.of)
    BY <2>1 DEF Accepted, Found, Legible
  <2>3. file[Reference][c.of][c.key] \in {"null", "empty", "words"}
    BY <2>2 DEF Present
  <2>4. NoFile[c.key] = "absent"
    BY <2>1 DEF NoFile
  <2>5. c.of \in Checked
    BY <2>1, <2>3, <2>4 DEF Checked
  <2>6. /\ file[l][c.of] # NoFile /\ Present(l, c.of) = Present(Reference, c.of)
        /\ file[l][c.of][c.key] # "empty"
    BY <2>1, <2>5 DEF Accepted, NoDrift, NoneEmpty
  <2>7. file[l][c.of][c.key] \in {"null", "words"}
    BY <2>2, <2>6 DEF Present
  <2>8. file[Reference][c.of][c.key] \in {"null", "words"} /\ file[Reference][c.of] # NoFile
    BY <2>1, <2>3, <2>5 DEF Accepted, NoneEmpty, Checked
  <2>9. Message(l, c) = file[l][c.of][c.key] /\ Message(Reference, c) = file[Reference][c.of][c.key]
    BY <2>6, <2>8 DEF Message, LoadNamespace
  <2>10. CASE file[l][c.of][c.key] = "words"
    BY <2>6, <2>9, <2>10 DEF ShownTo
  <2>11. CASE file[l][c.of][c.key] = "null" /\ file[Reference][c.of][c.key] = "words"
    BY <2>9, <2>11 DEF ShownTo
  <2>12. CASE file[l][c.of][c.key] = "null" /\ file[Reference][c.of][c.key] = "null"
    BY <2>9, <2>12 DEF ShownTo
  <2> QED
    BY <2>7, <2>8, <2>10, <2>11, <2>12
<1> QED
  BY <1>1, CataloguesTyped, PTL

-----------------------------------------------------------------------------
(* Consent to publication                                                    *)

\* A request at its write is a party's.
AskedByParty ==
  /\ party \in [Parties -> [publication : BOOLEAN, rating : Ratings \union {NoRating}]]
  /\ answering \in [Answers -> [by : Members \union {"nobody"}, wants : BOOLEAN,
                                at : {"none", "write", "read", "reply"}, both : BOOLEAN]]
  /\ cuts \in Nat
  /\ \A a \in Answers : answering[a].at = "write" => answering[a].by \in Parties

\* Where both consent and neither was told, one of them is about to be.
AboutToBeTold ==
  BothConsent /\ ~told /\ cuts = 0 =>
    \E a \in Answers : \/ answering[a].at = "read"
                       \/ answering[a].at = "reply" /\ answering[a].both

ConsentInv == AskedByParty /\ AboutToBeTold

(* The statements of setPublicationConsent, in their order.                  *)
LEMMA ConsentStatements ==
  /\ ConsentSteps[1] = "write"
  /\ StepAfter("write") = "read" /\ StepAfter("read") = "reply" /\ StepAfter("reply") = "none"
<1>1. /\ ConsentSteps[1] = "write" /\ ConsentSteps[2] = "read" /\ ConsentSteps[3] = "reply"
  BY DEF ConsentSteps
<1> DEFINE Follows(step, next) == \E i \in 1..3 : ConsentSteps[i] = step
                                    /\ next = IF i = 3 THEN "none" ELSE ConsentSteps[i + 1]
<1>2. \A next : /\ Follows("write", next) <=> next = "read"
                /\ Follows("read", next) <=> next = "reply"
                /\ Follows("reply", next) <=> next = "none"
  BY <1>1
<1>3. \A step : StepAfter(step) = CHOOSE next \in {"write", "read", "reply", "none"} : Follows(step, next)
  BY DEF StepAfter
<1> HIDE DEF Follows
<1> QED
  BY <1>1, <1>2, <1>3

(* Whoever writes last reads what the other wrote.                           *)
LEMMA ConsentKept == ConsentSpec => []ConsentInv
<1>1. ConsentInit => ConsentInv
  <2> SUFFICES ASSUME ConsentInit PROVE ConsentInv
    OBVIOUS
  <2>1. Parties # {}
    BY ConsentAssumption, FS_EmptySet
  <2>2. ~BothConsent
    BY <2>1 DEF ConsentInit, BothConsent
  <2> QED
    BY <2>2 DEF ConsentInit, ConsentInv, AskedByParty, AboutToBeTold, Unanswered, NoRating
<1>2. ASSUME ConsentInv, [ConsentNext]_consent PROVE ConsentInv'
  <2> USE <1>2, ConsentStatements, ConsentAssumption DEF ConsentInv
  <2>1. Unanswered.at = "none"
    BY DEF Unanswered
  <2>2. ASSUME NEW a \in Answers, NEW u \in Members, NEW wants \in BOOLEAN, AskToPublish(a, u, wants)
        PROVE  ConsentInv'
    <3>1. AskedByParty'
      BY <2>2 DEF AskToPublish, AskedByParty
    <3>2. \A b \in Answers : b # a => answering'[b] = answering[b]
      BY <2>2 DEF AskToPublish, AskedByParty
    <3> QED
      BY <2>1, <2>2, <3>1, <3>2 DEF AskToPublish, AboutToBeTold, BothConsent
  <2>3. ASSUME NEW a \in Answers, WriteConsent(a) PROVE ConsentInv'
    <3>1. PICK u \in Parties : u = answering[a].by
      BY <2>3 DEF WriteConsent, AskedByParty
    <3>2. PICK w \in BOOLEAN : w = answering[a].wants
      BY DEF AskedByParty
    <3>3. answering' = [answering EXCEPT ![a] = [answering[a] EXCEPT !.at = "read"]]
      BY <2>3 DEF WriteConsent, GoesOn
    <3>4. answering'[a].at = "read" /\ AskedByParty'
      BY <2>3, <3>1, <3>2, <3>3 DEF WriteConsent, AskedByParty
    <3>5. w = FALSE => ~BothConsent'
      BY <2>3, <3>1, <3>2 DEF WriteConsent, AskedByParty, BothConsent
    <3> QED
      BY <2>3, <3>4, <3>5 DEF AboutToBeTold
  <2>4. ASSUME NEW a \in Answers, ReadConsents(a) PROVE ConsentInv'
    <3>1. BothConsent \in BOOLEAN
      BY DEF BothConsent
    <3>2. answering' = [answering EXCEPT ![a] = [answering[a] EXCEPT !.both = BothConsent, !.at = "reply"]]
      BY <2>4 DEF ReadConsents, GoesOn, AskedByParty
    <3>3. /\ answering'[a].at = "reply" /\ answering'[a].both = BothConsent
          /\ \A b \in Answers : b # a => answering'[b] = answering[b]
          /\ AskedByParty'
      BY <2>4, <3>1, <3>2 DEF ReadConsents, AskedByParty
    <3> QED
      BY <2>4, <3>3 DEF ReadConsents, AboutToBeTold, BothConsent
  <2>5. ASSUME NEW a \in Answers, TellConsents(a) PROVE ConsentInv'
    <3>1. answering' = [answering EXCEPT ![a] = Unanswered]
      BY <2>5 DEF TellConsents, GoesOn
    <3>2. AskedByParty' /\ \A b \in Answers : b # a => answering'[b] = answering[b]
      BY <2>5, <3>1 DEF TellConsents, AskedByParty, Unanswered
    <3> QED
      BY <2>5, <3>2 DEF TellConsents, AboutToBeTold, BothConsent
  <2>6. ASSUME NEW a \in Answers, CutShort(a) PROVE ConsentInv'
    <3>1. cuts' > 0
      BY <2>6 DEF CutShort, AskedByParty
    <3> QED
      BY <2>6, <3>1 DEF CutShort, AskedByParty, AboutToBeTold, Unanswered
  <2>7. ASSUME NEW u \in Members, NEW rating \in {-1, 9}, RateFairness(u, rating) PROVE ConsentInv'
    <3>1. Clamped(rating) \in Ratings
      BY DEF Clamped, Ratings
    <3>2. AskedByParty' /\ \A p \in Parties : party'[p].publication = party[p].publication
      BY <2>7, <3>1 DEF RateFairness, AskedByParty
    <3> QED
      BY <2>7, <3>2 DEF RateFairness, AboutToBeTold, BothConsent
  <2>8. CASE UNCHANGED consent
    BY <2>8 DEF consent, AskedByParty, AboutToBeTold, BothConsent
  <2> QED
    BY <2>2, <2>3, <2>4, <2>5, <2>6, <2>7, <2>8 DEF ConsentNext
<1> QED
  BY <1>1, <1>2, PTL DEF ConsentSpec

(* D-6: the later of two parties who consent is told, however their answers  *)
(* and any number of others overlap.                                         *)
THEOREM LaterConsentIsTold == ConsentSpec => []LastToConsentIsTold
<1>1. ConsentInv => LastToConsentIsTold
  <2> SUFFICES ASSUME ConsentInv, BothConsent, \A a \in Answers : answering[a] = Unanswered
               PROVE  told \/ cuts > 0
    BY DEF LastToConsentIsTold
  <2>1. \A a \in Answers : answering[a].at = "none"
    BY DEF Unanswered
  <2>2. told \/ cuts # 0
    BY <2>1 DEF ConsentInv, AboutToBeTold
  <2> QED
    BY <2>2 DEF ConsentInv, AskedByParty
<1> QED
  BY <1>1, ConsentKept, PTL

-----------------------------------------------------------------------------
(* Uploads                                                                   *)

UploadSteps == {"unsent", "stripImage", "mkdtemp", "writeFile", "ffmpeg", "readFile", "rm", "put",
                "create", "answered", "refused"}
UploadState == [at : UploadSteps, bytes : Bytes, fails : BOOLEAN]

\* What is about to be stored has been stripped.
CleanBeforeStored(f) ==
  /\ upload[f].at \in {"put", "create"} => upload[f].bytes = "clean"
  /\ upload[f].at = "rm" /\ ~upload[f].fails => upload[f].bytes = "clean"

UploadsInv ==
  /\ upload \in [Files -> UploadState]
  /\ work \in [Files -> SUBSET Bytes] /\ stored \in [Files -> Bytes] /\ stopped \subseteq Files
  /\ \A f \in Files : CleanBeforeStored(f)
  /\ NothingUnstripped

(* The fields of an upload that its steps overwrite.                         *)
LEMMA UploadFields ==
  ASSUME NEW q \in UploadState, NEW step \in UploadSteps
  PROVE  /\ \E x \in UploadState : x = [q EXCEPT !.at = step] /\ x.at = step /\ x.bytes = q.bytes
         /\ \E x \in UploadState : /\ x = [q EXCEPT !.at = step, !.bytes = "clean"]
                                  /\ x.at = step /\ x.bytes = "clean"
         /\ \E x \in UploadState : /\ x = [q EXCEPT !.at = "rm", !.fails = TRUE]
                                  /\ x.at = "rm" /\ x.fails
<1>1. "clean" \in Bytes /\ "rm" \in UploadSteps
  BY DEF Bytes, UploadSteps
<1>2. [q EXCEPT !.at = step] \in UploadState /\ [q EXCEPT !.at = step].at = step
      /\ [q EXCEPT !.at = step].bytes = q.bytes
  BY DEF UploadState
<1>3. [q EXCEPT !.at = step, !.bytes = "clean"] \in UploadState
      /\ [q EXCEPT !.at = step, !.bytes = "clean"].at = step
      /\ [q EXCEPT !.at = step, !.bytes = "clean"].bytes = "clean"
  BY <1>1 DEF UploadState
<1>4. [q EXCEPT !.at = "rm", !.fails = TRUE] \in UploadState
      /\ [q EXCEPT !.at = "rm", !.fails = TRUE].at = "rm"
      /\ [q EXCEPT !.at = "rm", !.fails = TRUE].fails
  BY <1>1 DEF UploadState
<1> QED
  BY <1>2, <1>3, <1>4

(* A step of one upload leaves the others as they are.                       *)
LEMMA OneUpload ==
  ASSUME UploadsInv, NEW f \in Files, NEW x \in UploadState, upload' = [upload EXCEPT ![f] = x],
         NEW W \in SUBSET Bytes, work' = [work EXCEPT ![f] = W],
         NEW b \in Bytes, stored' = [stored EXCEPT ![f] = b],
         stopped \subseteq stopped', stopped' \subseteq stopped \union {f},
         x.at \in {"put", "create"} => x.bytes = "clean",
         x.at = "rm" /\ ~x.fails => x.bytes = "clean",
         b # "raw", "raw" \in W => x.at \in {"ffmpeg", "readFile", "rm"} \/ f \in stopped'
  PROVE  UploadsInv'
<1>1. /\ upload' \in [Files -> UploadState] /\ upload'[f] = x
      /\ \A g \in Files : g # f => upload'[g] = upload[g]
  BY DEF UploadsInv
<1>2. /\ work' \in [Files -> SUBSET Bytes] /\ work'[f] = W
      /\ \A g \in Files : g # f => work'[g] = work[g]
  BY DEF UploadsInv
<1>3. /\ stored' \in [Files -> Bytes] /\ stored'[f] = b
      /\ \A g \in Files : g # f => stored'[g] = stored[g]
  BY DEF UploadsInv
<1>4. \A g \in Files : CleanBeforeStored(g)'
  BY <1>1 DEF UploadsInv, CleanBeforeStored
<1>5. NothingUnstripped'
  BY <1>1, <1>2, <1>3 DEF UploadsInv, NothingUnstripped
<1>6. stopped' \subseteq Files
  BY DEF UploadsInv
<1> QED
  BY <1>1, <1>2, <1>3, <1>4, <1>5, <1>6 DEF UploadsInv

(* No step of an upload, and none that fails, leaves the invariant.          *)
LEMMA UploadsKept == UploadsSpec => []UploadsInv
<1>1. UploadsInit => UploadsInv
  BY DEF UploadsInit, UploadsInv, CleanBeforeStored, NothingUnstripped, NotSent, UploadState,
         UploadSteps, Bytes
<1>2. ASSUME UploadsInv, [UploadsNext]_uploads PROVE UploadsInv'
  <2> DEFINE refused == [NotSent EXCEPT !.at = "refused"]
  <2>1. /\ refused \in UploadState /\ refused.at = "refused"
    BY DEF UploadState, UploadSteps, Bytes, NotSent
  <2>s. "put" \in UploadSteps /\ "rm" \in UploadSteps
    BY DEF UploadSteps
  <2>2. ASSUME NEW f \in Files
        PROVE  /\ work[f] \in SUBSET Bytes /\ stored[f] \in Bytes /\ stored[f] # "raw"
               /\ work' = work => work' = [work EXCEPT ![f] = work[f]]
               /\ stored' = stored => stored' = [stored EXCEPT ![f] = stored[f]]
               /\ "raw" \in work[f] => upload[f].at \in {"ffmpeg", "readFile", "rm"} \/ f \in stopped
               /\ upload[f] \in UploadState
    BY <1>2 DEF UploadsInv, NothingUnstripped
  <2>3. ASSUME NEW f \in Files, Refused(f), UNCHANGED <<work, stored>>, stopped \subseteq stopped',
               stopped' \subseteq stopped \union {f},
               upload[f].at \notin {"ffmpeg", "readFile", "rm"} \/ f \in stopped'
        PROVE  UploadsInv'
    <3>1. upload' = [upload EXCEPT ![f] = refused]
      BY <2>3 DEF Refused
    <3> HIDE DEF refused
    <3> QED
      BY <1>2, <2>1, <2>2, <2>3, <3>1, OneUpload
  <2>4. ASSUME NEW f \in Files, NEW kind \in Kinds, NEW size \in Sizes, Upload(f, kind, size)
        PROVE  UploadsInv'
    <3>1. CASE kind = "other" \/ size = "too large"
      BY <2>3, <2>4, <3>1 DEF Upload, At
    <3>2. CASE ~(kind = "other" \/ size = "too large")
      <4> DEFINE x == [at |-> IF kind = "image" THEN "stripImage" ELSE "mkdtemp",
                       bytes |-> "raw", fails |-> FALSE]
      <4>1. upload' = [upload EXCEPT ![f] = x] /\ UNCHANGED <<work, stored, stopped>>
            /\ upload[f].at = "unsent"
        BY <2>4, <3>2 DEF Upload, At
      <4>2. x \in UploadState /\ x.at \in {"stripImage", "mkdtemp"}
        BY DEF UploadState, UploadSteps, Bytes
      <4> HIDE DEF x
      <4> QED
        BY <1>2, <2>2, <4>1, <4>2, OneUpload
    <3> QED
      BY <3>1, <3>2
  <2>5. ASSUME NEW f \in Files, StripImage(f) PROVE UploadsInv'
    <3>1. CASE Refused(f)
      BY <2>3, <2>5, <3>1 DEF StripImage, At
    <3>2. CASE upload' = [upload EXCEPT ![f].at = "put", ![f].bytes = "clean"]
      <4> DEFINE x == [upload[f] EXCEPT !.at = "put", !.bytes = "clean"]
      <4>1. x \in UploadState /\ x.at = "put" /\ x.bytes = "clean"
        <5>1. upload[f] \in UploadState
          BY <2>2
        <5> QED
          BY <2>s, <5>1 DEF UploadState, Bytes
      <4>2. upload' = [upload EXCEPT ![f] = x]
        BY <1>2, <3>2 DEF UploadsInv
      <4> HIDE DEF x
      <4>3. UNCHANGED <<work, stored, stopped>> /\ upload[f].at = "stripImage"
        BY <2>5 DEF StripImage, At
      <4> QED
        BY <1>2, <2>2, <4>1, <4>2, <4>3, OneUpload
    <3> QED
      BY <2>5, <3>1, <3>2 DEF StripImage
  <2>6. ASSUME NEW f \in Files, NEW step \in UploadSteps \ {"rm"}, To(f, step), NEW W \in SUBSET Bytes,
               work' = [work EXCEPT ![f] = W], NEW b \in Bytes, stored' = [stored EXCEPT ![f] = b],
               UNCHANGED stopped, step \in {"put", "create"} => upload[f].bytes = "clean",
               b # "raw",
               "raw" \in W => step \in {"ffmpeg", "readFile"} \/ f \in stopped
        PROVE  UploadsInv'
    <3>1. PICK x \in UploadState : x = [upload[f] EXCEPT !.at = step]
                                   /\ x.at = step /\ x.bytes = upload[f].bytes
      BY <2>2, UploadFields
    <3>2. upload' = [upload EXCEPT ![f] = x]
      BY <1>2, <2>6, <3>1 DEF To, UploadsInv
    <3> QED
      BY <1>2, <2>6, <3>1, <3>2, OneUpload
  <2>7. ASSUME NEW f \in Files, ToFinally(f), NEW W \in SUBSET Bytes, work' = [work EXCEPT ![f] = W],
               UNCHANGED <<stored, stopped>>
        PROVE  UploadsInv'
    <3>1. PICK x \in UploadState : x = [upload[f] EXCEPT !.at = "rm", !.fails = TRUE]
                                   /\ x.at = "rm" /\ x.fails
      BY <2>2, <2>s, UploadFields
    <3>2. upload' = [upload EXCEPT ![f] = x]
      BY <1>2, <2>7, <3>1 DEF ToFinally, UploadsInv
    <3> QED
      BY <1>2, <2>2, <2>7, <3>1, <3>2, OneUpload
  <2>8. ASSUME NEW f \in Files, MakeDirectory(f) PROVE UploadsInv'
    <3>1. upload[f].at = "mkdtemp" /\ UNCHANGED <<work, stored, stopped>>
      BY <2>8 DEF MakeDirectory, At
    <3>2. "writeFile" \in UploadSteps \ {"rm"}
      BY DEF UploadSteps
    <3>3. CASE To(f, "writeFile")
      <4>1. /\ work[f] \in SUBSET Bytes /\ work' = [work EXCEPT ![f] = work[f]]
            /\ stored[f] \in Bytes /\ stored' = [stored EXCEPT ![f] = stored[f]]
            /\ stored[f] # "raw" /\ ("raw" \in work[f] => f \in stopped)
        BY <2>2, <3>1
      <4>2. UNCHANGED stopped
        BY <3>1
      <4> QED
        BY <2>6, <3>2, <3>3, <4>1, <4>2
    <3>4. CASE Refused(f)
      BY <2>3, <3>1, <3>4
    <3> QED
      BY <2>8, <3>3, <3>4 DEF MakeDirectory
  <2>9. ASSUME NEW f \in Files, WriteFile(f) PROVE UploadsInv'
    <3>1. upload[f].at = "writeFile" /\ UNCHANGED <<stored, stopped>>
      BY <2>9 DEF WriteFile, At
    <3>2. "ffmpeg" \in UploadSteps /\ \A left \in {{}, {"raw"}} : work[f] \union left \in SUBSET Bytes
      BY <2>2 DEF UploadSteps, Bytes
    <3>3. CASE To(f, "ffmpeg") /\ work' = [work EXCEPT ![f] = work[f] \union {"raw"}]
      <4>1. /\ stored[f] \in Bytes /\ stored' = [stored EXCEPT ![f] = stored[f]]
            /\ stored[f] # "raw"
        BY <2>2, <3>1
      <4> QED
        BY <2>6, <3>1, <3>2, <3>3, <4>1
    <3>4. ASSUME ToFinally(f), NEW left \in {{}, {"raw"}}, work' = [work EXCEPT ![f] = work[f] \union left]
          PROVE  UploadsInv'
      BY <2>7, <3>1, <3>2, <3>4
    <3> QED
      BY <2>9, <3>3, <3>4 DEF WriteFile
  <2>10. ASSUME NEW f \in Files, Ffmpeg(f) PROVE UploadsInv'
    <3>1. upload[f].at = "ffmpeg" /\ UNCHANGED <<stored, stopped>>
      BY <2>10 DEF Ffmpeg, At
    <3>2. "readFile" \in UploadSteps /\ work[f] \union {"clean"} \in SUBSET Bytes
      BY <2>2 DEF UploadSteps, Bytes
    <3>3. CASE To(f, "readFile") /\ work' = [work EXCEPT ![f] = work[f] \union {"clean"}]
      <4>1. /\ stored[f] \in Bytes /\ stored' = [stored EXCEPT ![f] = stored[f]]
            /\ stored[f] # "raw"
        BY <2>2, <3>1
      <4> QED
        BY <2>6, <3>1, <3>2, <3>3, <4>1
    <3>4. CASE ToFinally(f) /\ UNCHANGED work
      BY <2>2, <2>7, <3>1, <3>4
    <3> QED
      BY <2>10, <3>3, <3>4 DEF Ffmpeg
  <2>11. ASSUME NEW f \in Files, ReadFile(f) PROVE UploadsInv'
    <3>1. upload[f].at = "readFile" /\ UNCHANGED <<work, stored, stopped>>
      BY <2>11 DEF ReadFile, At
    <3>2. CASE upload' = [upload EXCEPT ![f].at = "rm", ![f].bytes = "clean"]
      <4> DEFINE x == [upload[f] EXCEPT !.at = "rm", !.bytes = "clean"]
      <4>1. x \in UploadState /\ x.at = "rm" /\ x.bytes = "clean"
        <5>1. upload[f] \in UploadState
          BY <2>2
        <5> QED
          BY <2>s, <5>1 DEF UploadState, Bytes
      <4>2. upload' = [upload EXCEPT ![f] = x]
        BY <1>2, <3>2 DEF UploadsInv
      <4> HIDE DEF x
      <4> QED
        BY <1>2, <2>2, <3>1, <4>1, <4>2, OneUpload
    <3>3. CASE ToFinally(f)
      BY <2>2, <2>7, <3>1, <3>3
    <3> QED
      BY <2>11, <3>2, <3>3 DEF ReadFile
  <2>12. ASSUME NEW f \in Files, RemoveWork(f) PROVE UploadsInv'
    <3>1. upload[f].at = "rm" /\ UNCHANGED stored
      BY <2>12 DEF RemoveWork, At
    <3>2. CASE work' = [work EXCEPT ![f] = {}] /\ Refused(f) /\ UNCHANGED stopped
      <4>1. upload' = [upload EXCEPT ![f] = refused]
        BY <3>2 DEF Refused
      <4>2. /\ stored[f] \in Bytes /\ stored' = [stored EXCEPT ![f] = stored[f]]
            /\ stored[f] # "raw" /\ {} \in SUBSET Bytes
        BY <2>2, <3>1
      <4> HIDE DEF refused
      <4> QED
        BY <1>2, <2>1, <3>2, <4>1, <4>2, OneUpload
    <3>3. CASE work' = [work EXCEPT ![f] = {}] /\ ~upload[f].fails /\ To(f, "put") /\ UNCHANGED stopped
      <4>1. upload[f].bytes = "clean" /\ "put" \in UploadSteps
        BY <1>2, <3>1, <3>3 DEF UploadsInv, CleanBeforeStored, UploadSteps
      <4>2. /\ stored[f] \in Bytes /\ stored' = [stored EXCEPT ![f] = stored[f]]
            /\ stored[f] # "raw" /\ {} \in SUBSET Bytes
        BY <2>2, <3>1
      <4> QED
        BY <2>6, <3>3, <4>1, <4>2
    <3>4. CASE Refused(f) /\ stopped' = stopped \union {f} /\ UNCHANGED work
      BY <2>3, <3>1, <3>4
    <3> QED
      BY <2>12, <3>2, <3>3, <3>4 DEF RemoveWork
  <2>13. ASSUME NEW f \in Files, Put(f) PROVE UploadsInv'
    <3>1. /\ upload[f].at = "put" /\ UNCHANGED <<work, stopped>>
          /\ upload[f].bytes = "clean" /\ "clean" \in Bytes /\ "create" \in UploadSteps
      BY <1>2, <2>13 DEF Put, At, UploadsInv, CleanBeforeStored, UploadSteps, Bytes
    <3>2. CASE stored' = [stored EXCEPT ![f] = "clean"] /\ To(f, "create")
      <4>1. /\ work[f] \in SUBSET Bytes /\ work' = [work EXCEPT ![f] = work[f]]
            /\ ("raw" \in work[f] => f \in stopped)
        BY <2>2, <3>1
      <4> QED
        BY <2>6, <3>1, <3>2, <4>1
    <3>3. CASE Refused(f) /\ UNCHANGED stored
      BY <2>3, <3>1, <3>3
    <3> QED
      BY <2>13, <3>1, <3>2, <3>3 DEF Put
  <2>14. ASSUME NEW f \in Files, CreateAsset(f) PROVE UploadsInv'
    <3>1. /\ upload[f].at = "create" /\ UNCHANGED <<work, stored, stopped>>
          /\ "answered" \in UploadSteps
      BY <2>14 DEF CreateAsset, At, UploadSteps
    <3>2. CASE To(f, "answered")
      BY <2>2, <2>6, <3>1, <3>2
    <3>3. CASE Refused(f)
      BY <2>3, <3>1, <3>3
    <3> QED
      BY <2>14, <3>2, <3>3 DEF CreateAsset
  <2>15. CASE UNCHANGED <<upload, work, stored, stopped>>
    BY <1>2, <2>15 DEF UploadsInv, CleanBeforeStored, NothingUnstripped
  <2>16. CASE ProcessStops
    <3> DEFINE lost == {f \in Files : upload[f].at \notin {"unsent", "answered", "refused"}}
    <3>1. /\ upload' = [f \in Files |-> IF f \in lost THEN refused ELSE upload[f]]
          /\ stopped' = stopped \union lost /\ UNCHANGED <<work, stored>>
      BY <2>16 DEF ProcessStops
    <3> HIDE DEF refused
    <3>2. /\ upload' \in [Files -> UploadState] /\ stopped' \subseteq Files
          /\ \A f \in Files : CleanBeforeStored(f)'
      BY <1>2, <2>1, <3>1 DEF UploadsInv, CleanBeforeStored
    <3>3. NothingUnstripped'
      BY <1>2, <2>2, <3>1 DEF NothingUnstripped
    <3> QED
      BY <1>2, <3>1, <3>2, <3>3 DEF UploadsInv
  <2>17. UNCHANGED uploads \/ (\E f \in Files : SubmitWith(f) \/ Approve(f))
           => UNCHANGED <<upload, work, stored, stopped>>
    BY DEF uploads, SubmitWith, Approve
  <2> QED
    BY <1>2, <2>4, <2>5, <2>8, <2>9, <2>10, <2>11, <2>12, <2>13, <2>14, <2>15, <2>16, <2>17
       DEF UploadsNext
<1> QED
  BY <1>1, <1>2, PTL DEF UploadsSpec

(* S-3: whatever fails, for any number of uploads and of failures, nothing   *)
(* with its metadata is stored or left in a working directory.               *)
THEOREM UploadsFailClosed == UploadsSpec => []NothingUnstripped
<1>1. UploadsInv => NothingUnstripped
  BY DEF UploadsInv
<1> QED
  BY <1>1, UploadsKept, PTL

-----------------------------------------------------------------------------
(* A member's presence                                                       *)

MemberRow == [visibility : Visibilities, presenceHidden : BOOLEAN, status : Statuses]
Look == [what : Ways \union {"none"}, by : Viewers,
         at : {"none", "row", "hidden", "rows", "count", "author", "answer"},
         visibility : Visibilities, shows : BOOLEAN, total : {0, 1}, wasPresent : BOOLEAN,
         admitted : SUBSET Viewers, wasBoth : BOOLEAN, named : BOOLEAN]

IsPresent(m) == m.status = "ACTIVE" /\ ~m.presenceHidden

\* What a request under way has seen of the member m, at each of its statements.
Seen(q, m) ==
  /\ q.what \in Ways
  /\ IsPresent(m) => q.wasPresent
  /\ Admits(m.visibility) \subseteq q.admitted
  /\ q.at \in {"row", "hidden"} => q.what = "profile"
  /\ q.at \in {"rows", "count"} => q.what = "search"
  /\ q.what = "search" => q.by # "visitor"
  /\ q.at = "hidden" => Admits(q.visibility) \subseteq q.admitted
  /\ q.at \in {"count", "answer"} /\ q.what \in {"profile", "search"} /\ q.shows /\ q.by # "self" =>
       q.wasPresent /\ q.by \in q.admitted

PresenceInv ==
  /\ member \in MemberRow /\ look \in [Looks -> Look]
  /\ \A l \in Looks : look[l] # NoLook => Seen(look[l], member)

(* A request keeps what it has seen, and sees the row as it is now.          *)
LEMMA Witnessed ==
  ASSUME NEW q \in Look, NEW m \in MemberRow
  PROVE  /\ Witness(q, m) \in Look
         /\ Witness(q, m).what = q.what /\ Witness(q, m).by = q.by /\ Witness(q, m).at = q.at
         /\ Witness(q, m).visibility = q.visibility /\ Witness(q, m).shows = q.shows
         /\ q.wasPresent \/ IsPresent(m) => Witness(q, m).wasPresent
         /\ Witness(q, m).admitted = q.admitted \union Admits(m.visibility)
<1>1. /\ q.wasPresent \in BOOLEAN /\ q.wasBoth \in BOOLEAN /\ q.named \in BOOLEAN
      /\ q.admitted \in SUBSET Viewers /\ m.visibility \in Visibilities
  BY DEF Look, MemberRow
<1>2. Admits(m.visibility) \in SUBSET Viewers
  BY <1>1 DEF Admits, Viewers, Visibilities
<1> DEFINE a == q.wasPresent \/ (m.status = "ACTIVE" /\ ~m.presenceHidden)
           b == q.admitted \union Admits(m.visibility)
           c == q.wasBoth \/ (m.status = "ACTIVE" /\ ~m.presenceHidden
                              /\ q.by \in Admits(m.visibility))
           d == q.named \/ ~m.presenceHidden
<1>3. a \in BOOLEAN /\ b \in SUBSET Viewers /\ c \in BOOLEAN /\ d \in BOOLEAN
  BY <1>1, <1>2
<1>4. Witness(q, m) = [q EXCEPT !.wasPresent = a, !.admitted = b, !.wasBoth = c, !.named = d]
  BY DEF Witness
<1>5. q.wasPresent \/ IsPresent(m) => a
  BY DEF IsPresent
<1>6. b = q.admitted \union Admits(m.visibility)
  OBVIOUS
<1> HIDE DEF a, b, c, d
<1>7. /\ Witness(q, m) \in Look
      /\ Witness(q, m).what = q.what /\ Witness(q, m).by = q.by /\ Witness(q, m).at = q.at
      /\ Witness(q, m).visibility = q.visibility /\ Witness(q, m).shows = q.shows
      /\ Witness(q, m).wasPresent = a /\ Witness(q, m).admitted = b
  BY <1>3, <1>4 DEF Look
<1> QED
  BY <1>5, <1>6, <1>7

(* A statement of one request leaves the others and the member as they are.  *)
LEMMA OneLook ==
  ASSUME PresenceInv, UNCHANGED member, NEW l \in Looks, NEW x \in Look,
         look' = [look EXCEPT ![l] = x], x # NoLook => Seen(x, member)
  PROVE  PresenceInv'
<1>1. /\ look' \in [Looks -> Look] /\ look'[l] = x
      /\ \A k \in Looks : k # l => look'[k] = look[k]
  BY DEF PresenceInv
<1>2. ASSUME NEW k \in Looks, look'[k] # NoLook PROVE Seen(look'[k], member)
  BY <1>1, <1>2 DEF PresenceInv
<1>3. \A k \in Looks : (look[k] # NoLook => Seen(look[k], member))'
  BY <1>2
<1> QED
  BY <1>1, <1>3 DEF PresenceInv

(* The row changes under the requests.                                       *)
LEMMA RowChanges ==
  ASSUME PresenceInv, NEW m \in MemberRow, Becomes(m)
  PROVE  PresenceInv'
<1>1. /\ member' = m
      /\ look' = [l \in Looks |-> IF look[l] = NoLook THEN NoLook ELSE Witness(look[l], m)]
  BY DEF Becomes
<1>2. \A l \in Looks : look[l] \in Look /\ Witness(look[l], m) \in Look
  BY Witnessed DEF PresenceInv
<1>3. look' \in [Looks -> Look]
  BY <1>1, <1>2
<1>4. ASSUME NEW l \in Looks, look'[l] # NoLook PROVE Seen(look'[l], m)
  <2>1. look'[l] = Witness(look[l], m) /\ look[l] # NoLook /\ look[l] \in Look
    BY <1>1, <1>2, <1>4
  <2>2. PICK q \in Look : q = look[l] /\ Seen(q, member)
    BY <2>1 DEF PresenceInv
  <2>3. PICK w \in Look : w = Witness(q, m)
    BY Witnessed
  <2>4. /\ w.what = q.what /\ w.by = q.by /\ w.at = q.at
        /\ w.visibility = q.visibility /\ w.shows = q.shows
        /\ q.wasPresent \/ IsPresent(m) => w.wasPresent
        /\ w.admitted = q.admitted \union Admits(m.visibility)
    BY <2>3, Witnessed
  <2>5. Seen(w, m)
    BY <2>2, <2>4 DEF Seen
  <2> QED
    BY <2>1, <2>2, <2>3, <2>5
<1>5. \A l \in Looks : (look[l] # NoLook => Seen(look[l], member))'
  BY <1>1, <1>4
<1> QED
  BY <1>1, <1>3, <1>5 DEF PresenceInv

(* What a request under way has found so far, and may show.                  *)
LEMMA Carried ==
  ASSUME NEW q \in Look, NEW x \in Look, NEW m, Seen(q, m), q.at # "none",
         x.what = q.what, x.by = q.by, x.wasPresent = q.wasPresent, x.admitted = q.admitted,
         x.at \in {"count", "answer"}, x.at = "count" => q.what = "search",
         q.what \in {"profile", "search"} /\ x.shows /\ q.by # "self" =>
           q.wasPresent /\ q.by \in q.admitted
  PROVE  Seen(x, m)
BY DEF Seen

(* However the row changes between the statements that read it.              *)
LEMMA PresenceKept == PresenceSpec => []PresenceInv
<1>1. NoLook \in Look /\ NoLook.at = "none"
  BY DEF NoLook, Look, Viewers, Visibilities
<1>2. PresenceInit => PresenceInv
  BY <1>1 DEF PresenceInit, PresenceInv, MemberRow, Visibilities, Statuses
<1>3. ASSUME PresenceInv, [PresenceNext]_presence PROVE PresenceInv'
  <2>1. ASSUME RequestDeletion \/ Suspend PROVE PresenceInv'
    <3>1. /\ [member EXCEPT !.status = "DELETION_PENDING"] \in MemberRow
          /\ [member EXCEPT !.status = "SUSPENDED"] \in MemberRow
      BY <1>3 DEF PresenceInv, MemberRow, Statuses
    <3> QED
      BY <1>3, <2>1, <3>1, RowChanges DEF RequestDeletion, Suspend
  <2>2. ASSUME NEW visibility \in Visibilities, UpdateProfile(visibility) PROVE PresenceInv'
    <3>1. [member EXCEPT !.visibility = visibility] \in MemberRow
      BY <1>3 DEF PresenceInv, MemberRow
    <3> QED
      BY <1>3, <2>2, <3>1, RowChanges DEF UpdateProfile
  <2>3. ASSUME NEW h \in BOOLEAN, SetPresenceHidden(h) PROVE PresenceInv'
    <3> DEFINE s == IF h THEN "HIDDEN" ELSE "ACTIVE"
    <3>1. s \in Statuses
      BY DEF Statuses
    <3>2. Becomes([member EXCEPT !.presenceHidden = h, !.status = s])
      BY <2>3 DEF SetPresenceHidden
    <3> HIDE DEF s
    <3>3. [member EXCEPT !.presenceHidden = h, !.status = s] \in MemberRow
      BY <1>3, <3>1 DEF PresenceInv, MemberRow
    <3> QED
      BY <1>3, <3>2, <3>3, RowChanges
  <2>4. ASSUME NEW l \in Looks, NEW what \in Ways, NEW by \in Viewers, Ask(l, what, by)
        PROVE  PresenceInv'
    <3> DEFINE q == [NoLook EXCEPT !.what = what, !.by = by, !.at = FirstStatement(what)]
    <3>1. /\ q \in Look /\ q.what = what /\ q.by = by /\ q.at = FirstStatement(what)
      <4>1. FirstStatement(what) \in {"row", "rows", "author"}
        BY DEF FirstStatement
      <4> QED
        BY <1>1, <4>1 DEF Look
    <3>2. /\ look' = [look EXCEPT ![l] = Witness(q, member)] /\ UNCHANGED member
          /\ (what = "search" => by # "visitor")
      BY <2>4 DEF Ask
    <3> HIDE DEF q
    <3>3. member \in MemberRow
      BY <1>3 DEF PresenceInv
    <3>4. PICK w \in Look : w = Witness(q, member)
      BY <3>1, <3>3, Witnessed
    <3>5. /\ w.what = what /\ w.by = by /\ w.at = FirstStatement(what)
          /\ IsPresent(member) => w.wasPresent
          /\ Admits(member.visibility) \subseteq w.admitted
      BY <3>1, <3>3, <3>4, Witnessed
    <3>6. Seen(w, member)
      BY <3>2, <3>5 DEF Seen, FirstStatement, Ways
    <3> QED
      BY <1>3, <3>2, <3>4, <3>6, OneLook
  <2>5. ASSUME NEW l \in Looks, look[l].at # "none"
        PROVE  look[l] \in Look /\ Seen(look[l], member)
    BY <1>1, <1>3, <2>5 DEF PresenceInv
  <2>6. ASSUME NEW l \in Looks, ReadMember(l) PROVE PresenceInv'
    <3>1. PICK q \in Look : q = look[l] /\ q.at = "row" /\ Seen(q, member)
      BY <2>5, <2>6 DEF ReadMember
    <3> DEFINE x == [q EXCEPT !.at = "hidden", !.visibility = member.visibility]
    <3>2. /\ x \in Look /\ x.at = "hidden" /\ x.visibility = member.visibility
          /\ x.what = q.what /\ x.by = q.by /\ x.wasPresent = q.wasPresent
          /\ x.admitted = q.admitted
      BY <1>3 DEF Look, PresenceInv, MemberRow
    <3>3. look' = [look EXCEPT ![l] = x] /\ UNCHANGED member
      BY <1>3, <2>6, <3>1 DEF ReadMember, PresenceInv
    <3> HIDE DEF x
    <3>4. Seen(x, member)
      BY <3>1, <3>2 DEF Seen
    <3> QED
      BY <1>3, <3>2, <3>3, <3>4, OneLook
  <2>9. ASSUME NEW l \in Looks, CheckHidden(l) PROVE PresenceInv'
    <3>1. PICK q \in Look : q = look[l] /\ q.at = "hidden" /\ Seen(q, member)
      BY <2>5, <2>9 DEF CheckHidden
    <3> DEFINE s == ~(q.by # "self" /\ (IsHidden(member) \/ q.by \notin Admits(q.visibility)))
    <3>2. look' = [look EXCEPT ![l] = [q EXCEPT !.at = "answer", !.shows = s]] /\ UNCHANGED member
      BY <1>3, <2>9, <3>1 DEF CheckHidden, PresenceInv
    <3>3. s \in BOOLEAN /\ (s /\ q.by # "self" => q.wasPresent /\ q.by \in q.admitted)
      BY <3>1 DEF Seen, IsHidden, IsPresent
    <3> HIDE DEF s
    <3> DEFINE x == [q EXCEPT !.at = "answer", !.shows = s]
    <3>5. /\ x \in Look /\ x.at = "answer" /\ x.shows = s
          /\ x.what = q.what /\ x.by = q.by /\ x.wasPresent = q.wasPresent
          /\ x.admitted = q.admitted
      BY <3>3 DEF Look
    <3>6. look' = [look EXCEPT ![l] = x] /\ UNCHANGED member
      BY <3>2
    <3> HIDE DEF x
    <3>7. Seen(x, member)
      BY <3>1, <3>3, <3>5, Carried
    <3> QED
      BY <1>3, <3>5, <3>6, <3>7, OneLook
  <2>10. Searchable(member) \in BOOLEAN
         /\ (Searchable(member) => IsPresent(member) /\ {"self", "member"} \subseteq Admits(member.visibility))
    BY <1>3 DEF Searchable, IsPresent, Admits, PresenceInv, MemberRow, Visibilities, Viewers
  <2>11. ASSUME NEW l \in Looks, FindRows(l) PROVE PresenceInv'
    <3>1. PICK q \in Look : q = look[l] /\ q.at = "rows" /\ Seen(q, member)
      BY <2>5, <2>11 DEF FindRows
    <3> DEFINE s == Searchable(member)
    <3>2. look' = [look EXCEPT ![l] = [q EXCEPT !.at = "count", !.shows = s]] /\ UNCHANGED member
      BY <1>3, <2>11, <3>1 DEF FindRows, PresenceInv
    <3>3. s \in BOOLEAN
      BY <2>10
    <3>4. q.what = "search" /\ (s /\ q.by # "self" => q.wasPresent /\ q.by \in q.admitted)
      <4>1. q.by \in {"self", "member", "visitor"}
        BY DEF Look, Viewers
      <4> QED
        BY <2>10, <3>1, <4>1 DEF Seen
    <3> HIDE DEF s
    <3> DEFINE x == [q EXCEPT !.at = "count", !.shows = s]
    <3>5. /\ x \in Look /\ x.at = "count" /\ x.shows = s
          /\ x.what = q.what /\ x.by = q.by /\ x.wasPresent = q.wasPresent
          /\ x.admitted = q.admitted
      BY <3>3 DEF Look
    <3>6. look' = [look EXCEPT ![l] = x] /\ UNCHANGED member
      BY <3>2
    <3> HIDE DEF x
    <3>7. Seen(x, member)
      BY <3>1, <3>4, <3>5, Carried
    <3> QED
      BY <1>3, <3>5, <3>6, <3>7, OneLook
  <2>12. ASSUME NEW l \in Looks, CountRows(l) PROVE PresenceInv'
    <3>1. PICK q \in Look : q = look[l] /\ q.at = "count" /\ Seen(q, member)
      BY <2>5, <2>12 DEF CountRows
    <3>2. PICK t \in {0, 1} : look' = [look EXCEPT ![l] = [q EXCEPT !.at = "answer", !.total = t]]
          /\ UNCHANGED member
      BY <1>3, <2>12, <3>1 DEF CountRows, PresenceInv
    <3>4. q.what \in {"profile", "search"} /\ q.shows /\ q.by # "self" =>
            q.wasPresent /\ q.by \in q.admitted
      BY <3>1 DEF Seen
    <3> DEFINE x == [q EXCEPT !.at = "answer", !.total = t]
    <3>5. /\ x \in Look /\ x.at = "answer" /\ x.shows = q.shows
          /\ x.what = q.what /\ x.by = q.by /\ x.wasPresent = q.wasPresent
          /\ x.admitted = q.admitted
      BY DEF Look
    <3>6. look' = [look EXCEPT ![l] = x] /\ UNCHANGED member
      BY <3>2
    <3> HIDE DEF x
    <3>7. Seen(x, member)
      BY <3>1, <3>4, <3>5, Carried
    <3> QED
      BY <1>3, <3>5, <3>6, <3>7, OneLook
  <2>13. ASSUME NEW l \in Looks, ShowPosts(l) \/ ShowReplies(l) PROVE PresenceInv'
    <3>1. PICK q \in Look : /\ q = look[l] /\ q.at = "author" /\ Seen(q, member)
                            /\ q.what \in {"posts", "replies"}
      BY <2>5, <2>13 DEF ShowPosts, ShowReplies
    <3>2. PICK s \in BOOLEAN : look' = [look EXCEPT ![l] = [q EXCEPT !.at = "answer", !.shows = s]]
          /\ UNCHANGED member
      BY <1>3, <2>13, <3>1 DEF ShowPosts, ShowReplies, PresenceInv, MemberRow
    <3> DEFINE x == [q EXCEPT !.at = "answer", !.shows = s]
    <3>5. /\ x \in Look /\ x.at = "answer" /\ x.shows = s
          /\ x.what = q.what /\ x.by = q.by /\ x.wasPresent = q.wasPresent
          /\ x.admitted = q.admitted
      BY DEF Look
    <3>6. look' = [look EXCEPT ![l] = x] /\ UNCHANGED member
      BY <3>2
    <3> HIDE DEF x
    <3>7. Seen(x, member)
      BY <3>1, <3>5, Carried
    <3> QED
      BY <1>3, <3>5, <3>6, <3>7, OneLook
  <2>14. ASSUME NEW l \in Looks, AnswerLook(l) PROVE PresenceInv'
    BY <1>1, <1>3, <2>14, OneLook DEF AnswerLook
  <2>15. CASE UNCHANGED presence
    BY <1>3, <2>15 DEF PresenceInv, presence
  <2> QED
    BY <1>3, <2>1, <2>2, <2>3, <2>4, <2>6, <2>9, <2>11, <2>12, <2>13, <2>14, <2>15 DEF PresenceNext
<1> QED
  BY <1>2, <1>3, PTL DEF PresenceSpec

(* S-10 and B-5: nobody else is shown a member who was hidden, or did not    *)
(* admit them, all through their request; for any number of requests.        *)
THEOREM HiddenMembersStayHidden == PresenceSpec => []HiddenIsNotShown
<1>1. PresenceInv => HiddenIsNotShown
  <2> SUFFICES ASSUME PresenceInv, NEW q \in Showing, q.what \in {"profile", "search"},
                      q.at = "answer", q.shows, q.by # "self"
               PROVE  q.wasPresent /\ q.by \in q.admitted
    BY DEF HiddenIsNotShown
  <2>1. NoLook.at = "none"
    BY DEF NoLook
  <2> QED
    BY <2>1 DEF Showing, PresenceInv, Seen
<1> QED
  BY <1>1, PresenceKept, PTL

-----------------------------------------------------------------------------
(* The pages that ask the API                                                *)

Tab == [name : Names, filter : Filters, timer : BOOLEAN,
        list : [what : {"nothing", "signin", "some"}, for : Filters],
        status : {"idle", "working", "done", "error"}, attempted : BOOLEAN,
        verify : {"waiting", "failed"},
        gate : {"checking", "allowed", "anonymous", "forbidden"}, voices : SUBSET Wall,
        loaded : BOOLEAN, busy : Wall \union {"none"}, removed : SUBSET Wall]
Request == [of : {"none", "members", "form", "verify", "me", "voices", "hide"},
            filter : Filters, voice : Wall \union {"none"}, at : {"none", "sent", "served"},
            answer : {"none", "ok", "refused", "failed"}, items : SUBSET Wall, live : BOOLEAN]

\* A request under way is one that the page t still means, or one that is
\* nobody's any more.
Fits(q, t) ==
  /\ q.of = "none" => q.at = "none"
  /\ q.at = "served" => q.live \/ q.of = "verify"
  /\ q.of = "members" => q.live /\ t.name = "members" /\ q.filter = t.filter /\ ~t.timer
  /\ q.of = "verify" /\ q.live => t.name = "verify"
  /\ q.of = "voices" => ~t.loaded
  /\ q.of = "hide" => q.voice \in Wall /\ (q.live => t.loaded)

PagesInv ==
  /\ tab \in Tab /\ ask \in [Slots -> Request]
  /\ \A s \in Slots : Fits(ask[s], tab)
  /\ \A r, s \in Slots : ask[r].of = "voices" /\ ask[s].of = "voices" => r = s
  /\ ~tab.loaded => tab.voices = {} /\ tab.removed = {}
  /\ AnswersFitThePage

LEMMA PagesBegun ==
  ASSUME PagesAssumption
  PROVE  /\ NoAsk \in Request /\ NoAsk.of = "none" /\ NoAsk.at = "none" /\ ~NoAsk.live
         /\ \A t : Fits(NoAsk, t)
         /\ \A name \in Names :
              /\ Mounted(name) \in Tab /\ [Mounted(name) EXCEPT !.verify = "failed"] \in Tab
              /\ Mounted(name).name = name /\ Mounted(name).list.what = "nothing"
              /\ Mounted(name).voices = {} /\ Mounted(name).removed = {}
<1>1. /\ NoAsk \in Request /\ NoAsk.of = "none" /\ NoAsk.at = "none" /\ ~NoAsk.live
  BY DEF NoAsk, Request, PagesAssumption
<1>2. \A t : Fits(NoAsk, t)
  BY <1>1 DEF Fits
<1>3. ASSUME NEW name \in Names
      PROVE  /\ Mounted(name) \in Tab /\ [Mounted(name) EXCEPT !.verify = "failed"] \in Tab
             /\ Mounted(name).name = name /\ Mounted(name).list.what = "nothing"
             /\ Mounted(name).voices = {} /\ Mounted(name).removed = {}
  BY DEF Mounted, Tab, Nothing, PagesAssumption
<1> QED
  BY <1>1, <1>2, <1>3

(* One request changes, and perhaps the page it is of.                       *)
LEMMA OneAsk ==
  ASSUME PagesInv, NEW t \in Tab, NEW s \in Slots, NEW q \in Request,
         tab' = t, ask' = [ask EXCEPT ![s] = q], Fits(q, t),
         \A r \in Slots \ {s} : Fits(ask[r], t) /\ (q.of = "voices" => ask[r].of # "voices"),
         ~t.loaded => t.voices = {} /\ t.removed = {},
         t.voices \intersect t.removed = {},
         (t.name = "members" /\ ~t.timer /\ t.list.what # "nothing" /\ q.of # "members"
           /\ \A r \in Slots \ {s} : ask[r].of # "members")
           => t.list.for = t.filter
  PROVE  PagesInv'
<1>1. /\ ask' \in [Slots -> Request] /\ ask'[s] = q
      /\ \A r \in Slots \ {s} : ask'[r] = ask[r]
  BY DEF PagesInv
<1>2. \A r \in Slots : Fits(ask'[r], t)
  BY <1>1
<1>3. ASSUME NEW r \in Slots, NEW p \in Slots, ask'[r].of = "voices", ask'[p].of = "voices"
      PROVE  r = p
  BY <1>1, <1>3 DEF PagesInv
<1>4. DirectoryShowsItsFilter'
  <2> SUFFICES ASSUME t.name = "members", ~t.timer, t.list.what # "nothing",
                      \A r \in Slots : ask'[r].of # "members"
               PROVE  t.list.for = t.filter
    BY DEF DirectoryShowsItsFilter, Under
  <2> QED
    BY <1>1
<1>5. TakenDownStaysAway'
  BY DEF TakenDownStaysAway
<1>6. (\A r \in Slots : Fits(ask[r], tab))'
  BY <1>2
<1>7. (\A r, p \in Slots : ask[r].of = "voices" /\ ask[p].of = "voices" => r = p)'
  BY <1>3
<1>8. (~tab.loaded => tab.voices = {} /\ tab.removed = {})'
  OBVIOUS
<1>9. (tab \in Tab)' /\ (ask \in [Slots -> Request])'
  BY <1>1
<1> QED
  BY <1>4, <1>5, <1>6, <1>7, <1>8, <1>9 DEF PagesInv, AnswersFitThePage

(* The page is left, and its requests with it.                               *)
LEMMA Leaving ==
  ASSUME PagesInv, PagesAssumption, NEW t \in Tab, t.voices = {}, t.removed = {}, t.list.what = "nothing",
         tab' = t, DOMAIN ask' = Slots, ask' = [s \in Slots |-> ask'[s]],
         \A s \in Slots : ask'[s] \in {NoAsk, Dropped(ask[s])}
  PROVE  PagesInv'
<1>1. ASSUME NEW s \in Slots
      PROVE  /\ ask'[s] \in Request /\ Fits(ask'[s], t)
             /\ ask'[s].of # "voices" /\ ask'[s].of # "members"
  <2>1. PICK q \in Request : q = ask[s] /\ Fits(q, tab)
    BY DEF PagesInv
  <2>2. CASE q.of = "verify" \/ (q.of = "hide" /\ q.at = "sent")
    <3>1. Dropped(q) = [q EXCEPT !.live = FALSE]
      BY <2>2 DEF Dropped
    <3>2. PICK p \in Request : p = Dropped(q) /\ p.of = q.of /\ p.at = q.at /\ ~p.live /\ p.voice = q.voice
      BY <3>1 DEF Request
    <3>3. Fits(p, t)
      BY <2>1, <2>2, <3>2 DEF Fits
    <3> QED
      BY <2>1, <2>2, <3>2, <3>3, PagesBegun
  <2>3. CASE ~(q.of = "verify" \/ (q.of = "hide" /\ q.at = "sent"))
    <3>1. Dropped(q) = NoAsk
      BY <2>3 DEF Dropped
    <3> QED
      BY <2>1, <3>1, PagesBegun
  <2> QED
    BY <2>2, <2>3
<1>2. ask' \in [Slots -> Request]
  BY <1>1
<1>3. (\A s \in Slots : Fits(ask[s], tab))'
  BY <1>1
<1>4. (\A r, s \in Slots : ask[r].of = "voices" /\ ask[s].of = "voices" => r = s)'
  BY <1>1
<1>5. AnswersFitThePage'
  BY DEF AnswersFitThePage, DirectoryShowsItsFilter, TakenDownStaysAway
<1> QED
  BY <1>2, <1>3, <1>4, <1>5 DEF PagesInv

(* The server has done what was asked, and its answer is on its way.         *)
LEMMA Replied ==
  ASSUME PagesInv, PagesAssumption, NEW s \in Slots, NEW answer \in {"ok", "refused", "failed"},
         NEW items \in SUBSET Wall, Reply(s, answer, items), ask[s].at = "sent", UNCHANGED tab
  PROVE  PagesInv'
<1>1. PICK q \in Request : q = ask[s] /\ Fits(q, tab) /\ q.at = "sent"
  BY DEF PagesInv
<1>2. PICK t \in Tab : t = tab
  BY DEF PagesInv
<1>3. \A r \in Slots \ {s} : Fits(ask[r], t) /\ (q.of = "voices" => ask[r].of # "voices")
  BY <1>1, <1>2 DEF PagesInv
<1>4. /\ ~t.loaded => t.voices = {} /\ t.removed = {}
      /\ t.voices \intersect t.removed = {}
  BY <1>2 DEF PagesInv, AnswersFitThePage, TakenDownStaysAway
<1>5. t.name = "members" /\ ~t.timer /\ t.list.what # "nothing" /\ q.of # "members"
      /\ (\A r \in Slots \ {s} : ask[r].of # "members")
        => t.list.for = t.filter
  <2> SUFFICES ASSUME t.name = "members", ~t.timer, t.list.what # "nothing", q.of # "members",
                      \A r \in Slots \ {s} : ask[r].of # "members"
               PROVE  t.list.for = t.filter
    OBVIOUS
  <2>1. Under("members") = {}
    BY <1>1 DEF Under
  <2> QED
    BY <1>2, <2>1 DEF PagesInv, AnswersFitThePage, DirectoryShowsItsFilter
<1>6. tab' = t
  BY <1>2
<1>7. CASE q.live \/ q.of = "verify"
  <2> DEFINE p == [q EXCEPT !.at = "served", !.answer = answer, !.items = items]
  <2>1. p \in Request /\ p.of = q.of /\ p.filter = q.filter /\ p.voice = q.voice
        /\ p.live = q.live
        /\ p.at = "served"
    BY <1>7 DEF Request
  <2>2. ask' = [ask EXCEPT ![s] = p]
    BY <1>1, <1>7 DEF Reply
  <2> HIDE DEF p
  <2>3. Fits(p, t)
    <3>1. q.of # "none" /\ (q.of = "members" => t.name = "members" /\ q.filter = t.filter /\ ~t.timer)
      BY <1>1, <1>2 DEF Fits
    <3>2. /\ q.of = "verify" /\ q.live => t.name = "verify"
          /\ q.of = "voices" => ~t.loaded
          /\ q.of = "hide" => q.voice \in Wall /\ (q.live => t.loaded)
          /\ q.of = "members" => q.live
      BY <1>1, <1>2 DEF Fits
    <3> QED
      BY <1>7, <2>1, <3>1, <3>2 DEF Fits
  <2>4. \A r \in Slots \ {s} : Fits(ask[r], t) /\ (p.of = "voices" => ask[r].of # "voices")
    BY <1>3, <2>1
  <2>5. (t.name = "members" /\ ~t.timer /\ t.list.what # "nothing" /\ p.of # "members"
         /\ \A r \in Slots \ {s} : ask[r].of # "members")
          => t.list.for = t.filter
    BY <1>5, <2>1
  <2> QED
    BY <1>4, <1>6, <2>1, <2>2, <2>3, <2>4, <2>5, OneAsk
<1>8. CASE ~(q.live \/ q.of = "verify")
  <2>1. ask' = [ask EXCEPT ![s] = NoAsk]
    BY <1>1, <1>8 DEF Reply
  <2>2. q.of # "members"
    BY <1>1, <1>8 DEF Fits
  <2>3. NoAsk \in Request /\ Fits(NoAsk, t) /\ NoAsk.of = "none"
    BY PagesBegun
  <2> QED
    BY <1>3, <1>4, <1>5, <1>6, <2>1, <2>2, <2>3, OneAsk
<1> QED
  BY <1>7, <1>8

(* The page asks, with a slot that was free.                                 *)
LEMMA Sent ==
  ASSUME PagesInv, PagesAssumption, NEW t \in Tab, NEW s \in Slots, NEW q \in Request,
         tab' = t, Send(s, q), Fits(q, t), \A r \in Slots : Fits(ask[r], t),
         q.of = "voices" => Under("voices") = {},
         t.loaded = tab.loaded, t.voices = tab.voices, t.removed = tab.removed,
         q.of # "members" => t.name = tab.name /\ t.timer = tab.timer /\ t.list = tab.list
                             /\ t.filter = tab.filter
  PROVE  PagesInv'
<1>1. ask' = [ask EXCEPT ![s] = q] /\ ask[s].of = "none"
  BY PagesBegun DEF Send
<1>2. \A r \in Slots \ {s} : Fits(ask[r], t) /\ (q.of = "voices" => ask[r].of # "voices")
  BY DEF Under
<1>3. /\ ~t.loaded => t.voices = {} /\ t.removed = {}
      /\ t.voices \intersect t.removed = {}
  BY DEF PagesInv, AnswersFitThePage, TakenDownStaysAway
<1>4. (t.name = "members" /\ ~t.timer /\ t.list.what # "nothing" /\ q.of # "members"
       /\ \A r \in Slots \ {s} : ask[r].of # "members")
        => t.list.for = t.filter
  <2> SUFFICES ASSUME t.name = "members", ~t.timer, t.list.what # "nothing", q.of # "members",
                      \A r \in Slots \ {s} : ask[r].of # "members"
               PROVE  t.list.for = t.filter
    OBVIOUS
  <2>1. Under("members") = {}
    BY <1>1 DEF Under
  <2> QED
    BY <2>1 DEF PagesInv, AnswersFitThePage, DirectoryShowsItsFilter
<1> QED
  BY <1>1, <1>2, <1>3, <1>4, OneAsk

(* The page hears the answer to one request and stays.                       *)
LEMMA Heard ==
  ASSUME PagesInv, PagesAssumption, NEW t \in Tab, NEW s \in Slots,
         tab' = t, ask' = [ask EXCEPT ![s] = NoAsk],
         t.name = tab.name, t.filter = tab.filter, t.timer = tab.timer,
         t.loaded = tab.loaded \/ (t.loaded /\ ask[s].of = "voices"),
         ~t.loaded => t.voices = {} /\ t.removed = {},
         t.voices \intersect t.removed = {},
         IF ask[s].of = "members" THEN t.list.for = t.filter ELSE t.list = tab.list
  PROVE  PagesInv'
<1>1. NoAsk \in Request /\ Fits(NoAsk, t) /\ NoAsk.of = "none"
  BY PagesBegun
<1>2. ASSUME NEW r \in Slots \ {s} PROVE Fits(ask[r], t)
  <2>1. PICK q \in Request : q = ask[r] /\ Fits(q, tab)
    BY DEF PagesInv
  <2>2. q.of = "voices" => t.loaded = tab.loaded
    BY <2>1 DEF PagesInv
  <2>3. tab.loaded => t.loaded
    OBVIOUS
  <2> QED
    BY <2>1, <2>2, <2>3 DEF Fits
<1>3. (t.name = "members" /\ ~t.timer /\ t.list.what # "nothing"
       /\ \A r \in Slots \ {s} : ask[r].of # "members")
        => t.list.for = t.filter
  <2> SUFFICES ASSUME t.name = "members", ~t.timer, t.list.what # "nothing",
                      \A r \in Slots \ {s} : ask[r].of # "members", ask[s].of # "members"
               PROVE  t.list.for = t.filter
    OBVIOUS
  <2>1. Under("members") = {}
    BY DEF Under
  <2> QED
    BY <2>1 DEF PagesInv, AnswersFitThePage, DirectoryShowsItsFilter
<1> QED
  BY <1>1, <1>2, <1>3, OneAsk

LEMMA AnsweredKept ==
  ASSUME PagesInv, PagesAssumption, NEW s \in Slots, Answered(s)
  PROVE  PagesInv'
<1>1. PICK q \in Request : /\ q = ask[s] /\ Fits(q, tab) /\ q.at = "served"
                           /\ q.live \/ q.of = "verify"
  <2>1. ask[s] \in Request /\ Fits(ask[s], tab) /\ ask[s].at = "served"
    BY DEF PagesInv, Answered
  <2> QED
    BY <2>1 DEF Fits
<1>2. PICK p \in Tab : p = tab
  BY DEF PagesInv
<1>0. ASSUME p.name # "home", tab' = Mounted("home"), ask' = [Orphaned EXCEPT ![s] = NoAsk]
      PROVE  PagesInv'
  <2>1. /\ Mounted("home") \in Tab /\ Mounted("home").list.what = "nothing"
        /\ Mounted("home").voices = {} /\ Mounted("home").removed = {}
    BY PagesBegun DEF Names
  <2>2. /\ DOMAIN ask' = Slots /\ ask' = [r \in Slots |-> ask'[r]]
        /\ \A r \in Slots : ask'[r] \in {NoAsk, Dropped(ask[r])}
    BY <1>0 DEF Orphaned
  <2> QED
    BY <1>0, <2>1, <2>2, Leaving
<1>m. Mounted("home").name = "home"
  BY PagesBegun DEF Names
<1>13. CASE ~q.live
  <2>1. CASE AfterLeft(p, q) = p
    <3>1. tab' = p /\ ask' = [ask EXCEPT ![s] = NoAsk]
      BY <1>1, <1>2, <1>13, <2>1 DEF Answered
    <3>2. q.of = "verify"
      BY <1>1, <1>13
    <3>3. /\ ~p.loaded => p.voices = {} /\ p.removed = {}
          /\ p.voices \intersect p.removed = {}
      BY <1>2 DEF PagesInv, AnswersFitThePage, TakenDownStaysAway
    <3> QED
      BY <1>1, <1>2, <3>1, <3>2, <3>3, Heard
  <2>2. CASE AfterLeft(p, q) # p
    <3>1. p.name # "home" /\ AfterLeft(p, q) = Mounted("home")
      BY <2>2 DEF AfterLeft
    <3>2. tab' = Mounted("home") /\ ask' = [Orphaned EXCEPT ![s] = NoAsk]
      BY <1>1, <1>2, <1>13, <1>m, <3>1 DEF Answered
    <3> QED
      BY <1>0, <3>1, <3>2
  <2> QED
    BY <2>1, <2>2
<1> SUFFICES ASSUME q.live PROVE PagesInv'
  BY <1>13
<1>3. /\ tab' = After(p, q)
      /\ ask' = [(IF After(p, q).name = p.name THEN ask ELSE Orphaned) EXCEPT ![s] = NoAsk]
  BY <1>1, <1>2 DEF Answered
<1>4. /\ ~p.loaded => p.voices = {} /\ p.removed = {}
      /\ p.voices \intersect p.removed = {}
  BY <1>2 DEF PagesInv, AnswersFitThePage, TakenDownStaysAway
<1>5. q.of \in {"members", "form", "verify", "me", "voices", "hide"}
  BY <1>1 DEF Fits, Request
<1>6. CASE q.of = "members"
  <2> DEFINE t == [p EXCEPT !.list = Listed(q)]
  <2>1. Listed(q) \in [what : {"nothing", "signin", "some"}, for : Filters] /\ Listed(q).for = q.filter
    BY DEF Listed, Request
  <2>2. /\ t \in Tab /\ t.name = p.name /\ t.filter = p.filter /\ t.timer = p.timer
        /\ t.loaded = p.loaded /\ t.voices = p.voices /\ t.removed = p.removed
        /\ t.list = Listed(q)
    BY <2>1 DEF Tab
  <2>3. After(p, q) = t
    BY <1>6 DEF After
  <2> HIDE DEF t
  <2>4. ask' = [ask EXCEPT ![s] = NoAsk] /\ tab' = t
    BY <1>3, <2>2, <2>3
  <2>5. t.list.for = t.filter
    BY <1>1, <1>2, <1>6, <2>1, <2>2 DEF Fits
  <2> QED
    BY <1>1, <1>2, <1>4, <1>6, <2>2, <2>4, <2>5, Heard
<1>7. CASE q.of = "form"
  <2> DEFINE t == [p EXCEPT !.status = StatusAfter(q.answer)]
  <2>1. /\ t \in Tab /\ t.name = p.name /\ t.filter = p.filter /\ t.timer = p.timer
        /\ t.loaded = p.loaded /\ t.voices = p.voices /\ t.removed = p.removed
        /\ t.list = p.list
    BY DEF Tab, StatusAfter
  <2>2. After(p, q) = t
    BY <1>7 DEF After
  <2> HIDE DEF t
  <2>3. ask' = [ask EXCEPT ![s] = NoAsk] /\ tab' = t
    BY <1>3, <2>1, <2>2
  <2> QED
    BY <1>1, <1>2, <1>4, <1>7, <2>1, <2>3, Heard
<1>8. CASE q.of = "verify" /\ q.answer = "ok"
  <2>1. After(p, q) = Mounted("home")
    BY <1>8 DEF After
  <2>2. p.name = "verify"
    BY <1>1, <1>2, <1>8 DEF Fits
  <2>3. tab' = Mounted("home") /\ ask' = [Orphaned EXCEPT ![s] = NoAsk]
    BY <1>3, <1>m, <2>1, <2>2
  <2> QED
    BY <1>0, <2>2, <2>3
<1>9. CASE q.of = "verify" /\ q.answer # "ok"
  <2> DEFINE t == [p EXCEPT !.verify = "failed"]
  <2>1. /\ t \in Tab /\ t.name = p.name /\ t.filter = p.filter /\ t.timer = p.timer
        /\ t.loaded = p.loaded /\ t.voices = p.voices /\ t.removed = p.removed
        /\ t.list = p.list
    BY DEF Tab
  <2>2. After(p, q) = t
    BY <1>9 DEF After
  <2> HIDE DEF t
  <2>3. ask' = [ask EXCEPT ![s] = NoAsk] /\ tab' = t
    BY <1>3, <2>1, <2>2
  <2> QED
    BY <1>1, <1>2, <1>4, <1>9, <2>1, <2>3, Heard
<1>10. CASE q.of = "me"
  <2> DEFINE t == [p EXCEPT !.gate = Admitted(q.answer)]
  <2>1. /\ t \in Tab /\ t.name = p.name /\ t.filter = p.filter /\ t.timer = p.timer
        /\ t.loaded = p.loaded /\ t.voices = p.voices /\ t.removed = p.removed
        /\ t.list = p.list
    BY DEF Tab, Admitted
  <2>2. After(p, q) = t
    BY <1>10 DEF After
  <2> HIDE DEF t
  <2>3. ask' = [ask EXCEPT ![s] = NoAsk] /\ tab' = t
    BY <1>3, <2>1, <2>2
  <2> QED
    BY <1>1, <1>2, <1>4, <1>10, <2>1, <2>3, Heard
<1>11. CASE q.of = "voices"
  <2> DEFINE v == IF q.answer = "ok" THEN q.items ELSE {}
             t == [p EXCEPT !.loaded = TRUE, !.voices = v]
  <2>1. v \in SUBSET Wall
    BY DEF Request
  <2>2. After(p, q) = t
    BY <1>11 DEF After
  <2> HIDE DEF v
  <2>3. /\ t \in Tab /\ t.name = p.name /\ t.filter = p.filter /\ t.timer = p.timer
        /\ t.loaded /\ t.voices = v /\ t.removed = p.removed
        /\ t.list = p.list
    BY <2>1 DEF Tab
  <2> HIDE DEF t
  <2>4. ask' = [ask EXCEPT ![s] = NoAsk] /\ tab' = t
    BY <1>3, <2>2, <2>3
  <2>5. t.removed = {}
    BY <1>1, <1>2, <1>4, <1>11, <2>3 DEF Fits
  <2> QED
    BY <1>1, <1>2, <1>11, <2>3, <2>4, <2>5, Heard
<1>12. CASE q.of = "hide"
  <2> DEFINE v == IF q.answer = "ok" THEN p.voices \ {q.voice} ELSE p.voices
             g == IF q.answer = "ok" THEN p.removed \union {q.voice} ELSE p.removed
             t == [p EXCEPT !.voices = v, !.removed = g, !.busy = "none"]
  <2>1. q.voice \in Wall /\ p.loaded
    BY <1>1, <1>2, <1>12 DEF Fits
  <2>2. v \in SUBSET Wall /\ g \in SUBSET Wall /\ v \intersect g = {}
    <3>1. p.voices \in SUBSET Wall /\ p.removed \in SUBSET Wall
      BY DEF Tab
    <3> QED
      BY <1>4, <2>1, <3>1
  <2>3. After(p, q) = t
    <3>1. CASE q.answer = "ok"
      <4>1. After(p, q) = [p EXCEPT !.voices = p.voices \ {q.voice}, !.busy = "none",
                                    !.removed = p.removed \union {q.voice}]
        BY <1>12, <3>1 DEF After, Without
      <4> QED
        BY <3>1, <4>1 DEF Tab
    <3>2. CASE q.answer # "ok"
      <4>1. After(p, q) = [p EXCEPT !.busy = "none"]
        BY <1>12, <3>2 DEF After
      <4> QED
        BY <3>2, <4>1 DEF Tab
    <3> QED
      BY <3>1, <3>2
  <2> HIDE DEF v, g
  <2>4. /\ t \in Tab /\ t.name = p.name /\ t.filter = p.filter /\ t.timer = p.timer
        /\ t.loaded = p.loaded /\ t.voices = v /\ t.removed = g
        /\ t.list = p.list
    BY <2>2 DEF Tab
  <2> HIDE DEF t
  <2>5. ask' = [ask EXCEPT ![s] = NoAsk] /\ tab' = t
    BY <1>3, <2>3, <2>4
  <2> QED
    BY <1>1, <1>2, <1>12, <2>1, <2>2, <2>4, <2>5, Heard
<1> QED
  BY <1>5, <1>6, <1>7, <1>8, <1>9, <1>10, <1>11, <1>12

(* Whatever is asked, left and answered, and in whatever order.              *)
LEMMA PagesKept == PagesSpec => []PagesInv
<1>1. PagesInit => PagesInv
  <2> SUFFICES ASSUME PagesInit PROVE PagesInv
    OBVIOUS
  <2>1. /\ Mounted("home") \in Tab /\ Mounted("home").name = "home"
        /\ Mounted("home").voices = {} /\ Mounted("home").removed = {}
    BY PagesBegun, PagesAssumption DEF Names
  <2>2. \A s \in Slots : ask[s] = NoAsk
    BY DEF PagesInit
  <2>3. /\ tab \in Tab /\ tab.name = "home" /\ tab.voices = {} /\ tab.removed = {}
        /\ ask \in [Slots -> Request]
    BY <2>1, PagesBegun, PagesAssumption DEF PagesInit
  <2>4. \A s \in Slots : Fits(ask[s], tab) /\ ask[s].of = "none"
    BY <2>2, PagesBegun, PagesAssumption
  <2>5. AnswersFitThePage
    BY <2>3 DEF AnswersFitThePage, DirectoryShowsItsFilter, TakenDownStaysAway
  <2> QED
    BY <2>3, <2>4, <2>5 DEF PagesInv
<1>2. ASSUME PagesInv, [PagesNext]_pages PROVE PagesInv'
  <2>1. ASSUME NEW t \in Tab, t.voices = {}, t.removed = {}, t.list.what = "nothing", tab' = t,
               ask' = Orphaned
        PROVE  PagesInv'
    <3>1. /\ DOMAIN ask' = Slots /\ ask' = [r \in Slots |-> ask'[r]]
          /\ \A r \in Slots : ask'[r] \in {NoAsk, Dropped(ask[r])}
      BY <2>1 DEF Orphaned
    <3> QED
      BY <1>2, <2>1, <3>1, Leaving, PagesAssumption
  <2>2. ASSUME NEW name \in Names, Open(name) PROVE PagesInv'
    BY <2>1, <2>2, PagesBegun, PagesAssumption DEF Open
  <2>3. ASSUME OpenWithoutToken PROVE PagesInv'
    <3> DEFINE m == Mounted("verify")
               t == [m EXCEPT !.verify = "failed"]
    <3>1. tab' = t /\ ask' = Orphaned
      BY <2>3 DEF OpenWithoutToken
    <3>2. /\ m \in Tab /\ m.list.what = "nothing" /\ m.voices = {} /\ m.removed = {} /\ t \in Tab
      BY PagesBegun, PagesAssumption DEF Names
    <3> HIDE DEF m
    <3>3. t.list = m.list /\ t.voices = m.voices /\ t.removed = m.removed
      BY <3>2 DEF Tab
    <3> HIDE DEF t
    <3> QED
      BY <2>1, <3>1, <3>2, <3>3
  <2>4. ASSUME LinkLapses PROVE PagesInv'
    BY <1>2, <2>4 DEF LinkLapses, PagesInv, AnswersFitThePage, DirectoryShowsItsFilter,
                      TakenDownStaysAway, Under
  <2>5. ASSUME NEW f \in Filters, Type(f) PROVE PagesInv'
    <3>1. PICK p \in Tab : p = tab /\ p.name = "members"
      BY <1>2, <2>5 DEF PagesInv, Type
    <3> DEFINE m == [p EXCEPT !.filter = f, !.timer = TRUE]
               n == IF Under("members") = {} THEN p.list ELSE Nothing
               t == [m EXCEPT !.list = n]
    <3>2. n \in [what : {"nothing", "signin", "some"}, for : Filters]
      BY PagesAssumption DEF Tab, Nothing
    <3>3. /\ tab' = IF Under("members") = {} THEN m ELSE [m EXCEPT !.list = Nothing]
          /\ ask' = [s \in Slots |-> IF s \in Under("members") THEN NoAsk ELSE ask[s]]
      BY <2>5, <3>1 DEF Type, Abort
    <3>4. tab' = t
      BY <3>3 DEF Tab
    <3> HIDE DEF n
    <3>5. /\ t \in Tab /\ t.name = p.name /\ t.timer /\ t.loaded = p.loaded
          /\ t.voices = p.voices /\ t.removed = p.removed
      BY <3>2 DEF Tab
    <3> HIDE DEF m, t
    <3>6. ASSUME NEW s \in Slots
          PROVE  /\ ask'[s] \in Request /\ Fits(ask'[s], t) /\ ask'[s].of # "members"
                 /\ ask'[s].of = "voices" => ask[s].of = "voices"
      <4>1. PICK q \in Request : q = ask[s] /\ Fits(q, p)
        BY <1>2, <3>1 DEF PagesInv
      <4>2. CASE q.of = "members"
        <5>1. ask'[s] = NoAsk
          BY <3>3, <4>1, <4>2 DEF Under
        <5> QED
          BY <5>1, PagesBegun, PagesAssumption
      <4>3. CASE q.of # "members"
        <5>1. ask'[s] = q
          BY <3>3, <4>1, <4>3 DEF Under
        <5>2. Fits(q, t)
          BY <3>1, <3>5, <4>1, <4>3 DEF Fits
        <5> QED
          BY <4>1, <4>3, <5>1, <5>2
      <4> QED
        BY <4>2, <4>3
    <3>7. ask' \in [Slots -> Request]
      BY <3>3, <3>6
    <3>8. AnswersFitThePage'
      BY <1>2, <3>1, <3>4, <3>5 DEF PagesInv, AnswersFitThePage, DirectoryShowsItsFilter,
                                    TakenDownStaysAway
    <3>9. (\A s \in Slots : Fits(ask[s], tab))'
      BY <3>4, <3>6
    <3>10. (\A r, s \in Slots : ask[r].of = "voices" /\ ask[s].of = "voices" => r = s)'
      BY <1>2, <3>6 DEF PagesInv
    <3>11. (~tab.loaded => tab.voices = {} /\ tab.removed = {})'
      BY <1>2, <3>1, <3>4, <3>5 DEF PagesInv
    <3> QED
      BY <3>4, <3>5, <3>7, <3>8, <3>9, <3>10, <3>11 DEF PagesInv
  <2>6. PICK p \in Tab : p = tab
    BY <1>2 DEF PagesInv
  <2>7. ASSUME NEW of \in {"members", "form", "verify", "me", "voices", "hide"}
        PROVE  /\ Asking(of) \in Request /\ Asking(of).of = of /\ Asking(of).at = "sent"
               /\ Asking(of).live
    BY PagesBegun, PagesAssumption DEF Asking, Request
  <2>8. ASSUME NEW s \in Slots, TimerFires(s) PROVE PagesInv'
    <3> DEFINE a == Asking("members")
               q == [a EXCEPT !.filter = p.filter]
               t == [p EXCEPT !.timer = FALSE]
    <3>1. a \in Request /\ a.of = "members" /\ a.at = "sent" /\ a.live
      BY <2>7
    <3>2. Send(s, q) /\ tab' = t /\ p.name = "members" /\ p.timer
      BY <2>6, <2>8 DEF TimerFires
    <3> HIDE DEF a
    <3>3. q \in Request /\ q.of = "members" /\ q.live /\ q.filter = p.filter
      BY <3>1 DEF Request, Tab
    <3>4. /\ t \in Tab /\ t.name = p.name /\ t.filter = p.filter /\ ~t.timer
          /\ t.loaded = p.loaded /\ t.voices = p.voices /\ t.removed = p.removed
      BY DEF Tab
    <3> HIDE DEF q, t
    <3>5. Fits(q, t)
      BY <3>2, <3>3, <3>4 DEF Fits
    <3>6. \A r \in Slots : Fits(ask[r], t)
      BY <1>2, <2>6, <3>2, <3>4 DEF PagesInv, Fits
    <3> QED
      BY <1>2, <2>6, <3>2, <3>3, <3>4, <3>5, <3>6, Sent, PagesAssumption
  <2>9. ASSUME NEW s \in Slots, Submit(s) PROVE PagesInv'
    <3> DEFINE t == [p EXCEPT !.status = "working"]
    <3>1. Send(s, Asking("form")) /\ tab' = t
      BY <2>6, <2>9 DEF Submit
    <3>2. /\ t \in Tab /\ t.name = p.name /\ t.filter = p.filter /\ t.timer = p.timer
          /\ t.list = p.list
          /\ t.loaded = p.loaded /\ t.voices = p.voices /\ t.removed = p.removed
      BY DEF Tab
    <3> HIDE DEF t
    <3>3. Asking("form") \in Request /\ Asking("form").of = "form" /\ Fits(Asking("form"), t)
      BY <2>7 DEF Fits
    <3>4. \A r \in Slots : Fits(ask[r], t)
      BY <1>2, <2>6, <3>2 DEF PagesInv, Fits
    <3> QED
      BY <1>2, <2>6, <3>1, <3>2, <3>3, <3>4, Sent, PagesAssumption
  <2>10. ASSUME NEW s \in Slots, Verify(s) PROVE PagesInv'
    <3> DEFINE t == [p EXCEPT !.attempted = TRUE]
    <3>1. Send(s, Asking("verify")) /\ tab' = t /\ p.name = "verify"
      BY <2>6, <2>10 DEF Verify
    <3>2. /\ t \in Tab /\ t.name = p.name /\ t.filter = p.filter /\ t.timer = p.timer
          /\ t.list = p.list
          /\ t.loaded = p.loaded /\ t.voices = p.voices /\ t.removed = p.removed
      BY DEF Tab
    <3> HIDE DEF t
    <3>3. Asking("verify") \in Request /\ Asking("verify").of = "verify" /\ Fits(Asking("verify"), t)
      BY <2>7, <3>1, <3>2 DEF Fits
    <3>4. \A r \in Slots : Fits(ask[r], t)
      BY <1>2, <2>6, <3>2 DEF PagesInv, Fits
    <3> QED
      BY <1>2, <2>6, <3>1, <3>2, <3>3, <3>4, Sent, PagesAssumption
  <2>11. ASSUME NEW s \in Slots, AskGate(s) \/ Load(s) PROVE PagesInv'
    <3>1. PICK of \in {"me", "voices"} :
            /\ Send(s, Asking(of)) /\ tab' = p
            /\ of = "voices" => ~p.loaded /\ Under("voices") = {}
      BY <2>6, <2>11 DEF AskGate, Load
    <3>2. Asking(of) \in Request /\ Asking(of).of = of /\ Fits(Asking(of), p)
      BY <2>7, <3>1 DEF Fits
    <3>3. \A r \in Slots : Fits(ask[r], p)
      BY <1>2, <2>6 DEF PagesInv
    <3> QED
      BY <1>2, <2>6, <3>1, <3>2, <3>3, Sent, PagesAssumption
  <2>12. ASSUME NEW s \in Slots, NEW v \in Wall, TakeDown(s, v) PROVE PagesInv'
    <3> DEFINE a == Asking("hide")
               q == [a EXCEPT !.voice = v]
               t == [p EXCEPT !.busy = v]
    <3>1. a \in Request /\ a.of = "hide" /\ a.at = "sent" /\ a.live
      BY <2>7
    <3>2. Send(s, q) /\ tab' = t /\ v \in p.voices
      BY <2>6, <2>12 DEF TakeDown
    <3> HIDE DEF a
    <3>3. q \in Request /\ q.of = "hide" /\ q.live /\ q.at = "sent" /\ q.voice = v
      BY <3>1 DEF Request
    <3>4. /\ t \in Tab /\ t.name = p.name /\ t.filter = p.filter /\ t.timer = p.timer
          /\ t.list = p.list
          /\ t.loaded = p.loaded /\ t.voices = p.voices /\ t.removed = p.removed
      BY DEF Tab
    <3> HIDE DEF q, t
    <3>5. p.loaded
      BY <1>2, <2>6, <3>2 DEF PagesInv
    <3>6. Fits(q, t)
      BY <3>3, <3>4, <3>5 DEF Fits
    <3>7. \A r \in Slots : Fits(ask[r], t)
      BY <1>2, <2>6, <3>4 DEF PagesInv, Fits
    <3> QED
      BY <1>2, <2>6, <3>2, <3>3, <3>4, <3>6, <3>7, Sent, PagesAssumption
  <2>13. ASSUME NEW s \in Slots, Serve(s) PROVE PagesInv'
    <3>1. PICK answer \in {"ok", "refused", "failed"}, items \in SUBSET Wall : Reply(s, answer, items)
      BY <2>13 DEF Serve, PublishedVoices
    <3>2. ask[s].at = "sent" /\ UNCHANGED tab
      BY <2>13 DEF Serve
    <3> QED
      BY <1>2, <3>1, <3>2, Replied, PagesAssumption
  <2>14. ASSUME NEW s \in Slots, Answered(s) PROVE PagesInv'
    BY <1>2, <2>14, AnsweredKept, PagesAssumption
  <2>15. CASE UNCHANGED pages
    BY <1>2, <2>15 DEF PagesInv, AnswersFitThePage, DirectoryShowsItsFilter, TakenDownStaysAway,
                       Under, pages
  <2> QED
    BY <1>2, <2>2, <2>3, <2>4, <2>5, <2>8, <2>9, <2>10, <2>11, <2>12, <2>13, <2>14, <2>15
       DEF PagesNext, Effect, Settle
<1> QED
  BY <1>1, <1>2, PTL DEF PagesSpec

(* The directory shows members for the filter that is typed, and a voice     *)
(* that was taken down does not come back to the moderators' list; for any   *)
(* number of requests that overlap and are answered in any order.            *)
THEOREM AnswersFit == PagesSpec => []AnswersFitThePage
<1>1. PagesInv => AnswersFitThePage
  BY DEF PagesInv
<1> QED
  BY <1>1, PagesKept, PTL

-----------------------------------------------------------------------------
(* Circles and posts                                                         *)

PostRecord == [author : Users \union {"none"}, circle : Circles \union {"none"}, at : 0..Now,
               shown : BOOLEAN]
PostRequest == [who : Users \union {"none"}, post : Posts \union {"none"},
                circle : Circles \union {"none"}]

\* A circle is its creator's: only who created it is ever its steward.
CirclesInv ==
  /\ role \in [Circles -> [Users -> {"none", "MEMBER", "STEWARD"}]]
  /\ founder \in [Circles -> Users \union {"none"}] /\ usurped = {}
  /\ \A c \in Circles, u \in Users :
       /\ role[c][u] # "none" => founder[c] # "none" /\ <<c, u>> \in joined
       /\ role[c][u] = "STEWARD" => founder[c] = u

\* A post is written once, by who asked to and was a member.
PostsInv ==
  /\ post \in [Posts -> PostRecord] /\ writing \in [Writers -> PostRequest] /\ clock \in 0..Now
  /\ \A p \in Posts : /\ post[p] = Unwritten \/ post[p].author \in Users
                      /\ post[p].circle # "none" => <<post[p].circle, post[p].author>> \in joined
  /\ \A w \in Writers : writing[w] # NoRequest =>
       /\ writing[w].who \in Users /\ writing[w].post \in Posts \ {"none"}
       /\ writing[w].circle # "none" => <<writing[w].circle, writing[w].who>> \in joined
       /\ post[writing[w].post] = Unwritten
       /\ \A x \in Writers : writing[x].post = writing[w].post => x = w

\* The reader was given the post, or another of its millisecond.
Covered(p) == p \in Given \/ \E q \in Posts \ {p} : q \in Given /\ post[q].at = post[p].at

\* The reader has got as far as the cursor.
ReadInv ==
  /\ read \in Seq(Posts) /\ cursor \in [phase : {"start", "more", "end"}, before : 0..Now + 1]
  /\ standing \subseteq Shown /\ \A p \in Given : post[p].author \in Users
  /\ \A j, k \in DOMAIN read : j < k => read[j] # read[k] /\ post[read[j]].at >= post[read[k]].at
  /\ cursor.phase = "start" => read = <<>> /\ cursor.before = Now + 1
  /\ cursor.phase = "more" => \A p \in Given : post[p].at >= cursor.before
  /\ \A p \in standing : cursor.phase = "end" \/ (cursor.phase = "more" /\ post[p].at >= cursor.before)
                           => Covered(p)

CommunityInv == CirclesInv /\ PostsInv /\ ReadInv

LEMMA NothingWritten ==
  /\ Unwritten \in PostRecord /\ Unwritten.author = "none" /\ Unwritten.circle = "none" /\ ~Unwritten.shown
  /\ NoRequest \in PostRequest /\ NoRequest.who = "none" /\ NoRequest.post = "none"
  /\ "none" \notin Users
BY CommunityAssumption DEF Unwritten, NoRequest, PostRecord, PostRequest

LEMMA SamePosts ==
  ASSUME PostsInv, UNCHANGED <<post, writing>>, clock' \in 0..Now, joined \subseteq joined'
  PROVE  PostsInv'
<1>1. post' = post /\ writing' = writing
  OBVIOUS
<1>2. (\A p \in Posts : /\ post[p] = Unwritten \/ post[p].author \in Users
                        /\ post[p].circle # "none" => <<post[p].circle, post[p].author>> \in joined)'
  BY <1>1 DEF PostsInv
<1>3. (\A w \in Writers : writing[w] # NoRequest =>
         /\ writing[w].who \in Users /\ writing[w].post \in Posts \ {"none"}
         /\ writing[w].circle # "none" => <<writing[w].circle, writing[w].who>> \in joined
         /\ post[writing[w].post] = Unwritten
         /\ \A x \in Writers : writing[x].post = writing[w].post => x = w)'
  BY <1>1 DEF PostsInv
<1> QED
  BY <1>1, <1>2, <1>3 DEF PostsInv

LEMMA SameReading ==
  ASSUME ReadInv, UNCHANGED <<post, cursor, read, standing>>
  PROVE  ReadInv'
BY DEF ReadInv, Covered, Given, Shown

LEMMA SameCircles ==
  ASSUME CirclesInv, UNCHANGED <<role, founder, joined, usurped>>
  PROVE  CirclesInv'
BY DEF CirclesInv

(* Members come and go.                                                      *)
LEMMA CirclesKept ==
  ASSUME CirclesInv, NEW u \in Users, NEW c \in Circles,
         CreateCircle(u, c) \/ Join(u, c) \/ Leave(u, c) \/ UpdateCircle(u, c)
  PROVE  CirclesInv'
<1> USE NothingWritten
<1>1. CASE CreateCircle(u, c)
  <2>1. /\ \A v \in Users : role[c][v] = "none"
        /\ role' = [role EXCEPT ![c][u] = "STEWARD"] /\ founder' = [founder EXCEPT ![c] = u]
        /\ joined' = joined \union {<<c, u>>} /\ usurped' = {}
    BY <1>1 DEF CreateCircle, CirclesInv, Exists
  <2>2. /\ role' \in [Circles -> [Users -> {"none", "MEMBER", "STEWARD"}]]
        /\ founder' \in [Circles -> Users \union {"none"}]
    BY <2>1 DEF CirclesInv
  <2>3. ASSUME NEW d \in Circles, NEW v \in Users
        PROVE  /\ role'[d][v] # "none" => founder'[d] # "none" /\ <<d, v>> \in joined'
               /\ role'[d][v] = "STEWARD" => founder'[d] = v
    <3>1. CASE d = c
      BY <2>1, <3>1 DEF CirclesInv
    <3>2. CASE d # c
      BY <2>1, <3>2 DEF CirclesInv
    <3> QED
      BY <3>1, <3>2
  <2> QED
    BY <2>1, <2>2, <2>3 DEF CirclesInv
<1>2. CASE Join(u, c) \/ Leave(u, c)
  <2>1. PICK r \in {"none", "MEMBER", "STEWARD"} :
          /\ role' = [role EXCEPT ![c][u] = r] /\ (r = "STEWARD" => role[c][u] = r)
          /\ founder' = founder /\ usurped' = {} /\ joined \subseteq joined'
          /\ r # "none" => founder[c] # "none" /\ <<c, u>> \in joined'
    <3>1. role[c][u] \in {"none", "MEMBER", "STEWARD"}
      BY DEF CirclesInv
    <3>2. CASE Leave(u, c)
      BY <3>2 DEF Leave, CirclesInv, circles
    <3>3. CASE Join(u, c) /\ role[c][u] = "none"
      BY <3>3 DEF Join, CirclesInv, circles, Exists
    <3>4. CASE Join(u, c) /\ role[c][u] # "none"
      BY <3>1, <3>4 DEF Join, CirclesInv, circles, Exists
    <3> QED
      BY <1>2, <3>2, <3>3, <3>4
  <2>2. role' \in [Circles -> [Users -> {"none", "MEMBER", "STEWARD"}]]
    BY <2>1 DEF CirclesInv
  <2>3. ASSUME NEW d \in Circles, NEW v \in Users
        PROVE  /\ role'[d][v] # "none" => founder'[d] # "none" /\ <<d, v>> \in joined'
               /\ role'[d][v] = "STEWARD" => founder'[d] = v
    <3>1. CASE d = c /\ v = u
      BY <2>1, <3>1 DEF CirclesInv
    <3>2. CASE ~(d = c /\ v = u)
      <4>1. role'[d][v] = role[d][v]
        BY <2>1, <3>2 DEF CirclesInv
      <4> QED
        BY <2>1, <4>1 DEF CirclesInv
    <3> QED
      BY <3>1, <3>2
  <2> QED
    BY <2>1, <2>2, <2>3 DEF CirclesInv
<1>3. CASE UpdateCircle(u, c)
  BY <1>3 DEF UpdateCircle, AssertSteward, CirclesInv
<1> QED
  BY <1>1, <1>2, <1>3

(* The membership is checked, and the post is written later.                 *)
LEMMA CheckPostKept ==
  ASSUME PostsInv, CirclesInv, NEW w \in Writers, NEW u \in Users, NEW p \in Posts,
         NEW c \in Circles \union {"none"}, CheckPost(w, u, p, c)
  PROVE  PostsInv'
<1> DEFINE q == [who |-> u, post |-> p, circle |-> c]
<1>1. /\ writing' = [writing EXCEPT ![w] = q] /\ post' = post /\ joined' = joined /\ clock' = clock
      /\ post[p] = Unwritten /\ \A x \in Writers : writing[x].post # p
      /\ c # "none" => IsMember(u, c)
      /\ p # "none"
  BY NothingWritten DEF CheckPost
<1>2. q \in PostRequest /\ q.who = u /\ q.post = p /\ q.circle = c
  BY DEF PostRequest
<1>3. c # "none" => <<c, u>> \in joined
  BY <1>1 DEF IsMember, CirclesInv
<1> HIDE DEF q
<1>4. /\ writing' \in [Writers -> PostRequest] /\ writing'[w] = q
      /\ \A x \in Writers : x # w => writing'[x] = writing[x]
  BY <1>1, <1>2 DEF PostsInv
<1>5. ASSUME NEW x \in Writers, writing'[x] # NoRequest
      PROVE  /\ writing'[x].who \in Users /\ writing'[x].post \in Posts \ {"none"}
             /\ writing'[x].circle # "none" => <<writing'[x].circle, writing'[x].who>> \in joined
             /\ post[writing'[x].post] = Unwritten
             /\ \A y \in Writers : writing'[y].post = writing'[x].post => y = x
  <2>1. CASE x = w
    BY <1>1, <1>2, <1>3, <1>4, <2>1
  <2>2. CASE x # w
    <3>1. writing'[x] = writing[x] /\ writing[x].post # p
      BY <1>1, <1>4, <2>2
    <3>2. /\ writing[x].who \in Users /\ writing[x].post \in Posts \ {"none"}
          /\ writing[x].circle # "none" => <<writing[x].circle, writing[x].who>> \in joined
          /\ post[writing[x].post] = Unwritten
          /\ \A y \in Writers : writing[y].post = writing[x].post => y = x
      BY <1>5, <3>1 DEF PostsInv
    <3> QED
      BY <1>2, <1>4, <3>1, <3>2
  <2> QED
    BY <2>1, <2>2
<1>6. (\A x \in Writers : writing[x] # NoRequest =>
         /\ writing[x].who \in Users /\ writing[x].post \in Posts \ {"none"}
         /\ writing[x].circle # "none" => <<writing[x].circle, writing[x].who>> \in joined
         /\ post[writing[x].post] = Unwritten
         /\ \A y \in Writers : writing[y].post = writing[x].post => y = x)'
  BY <1>1, <1>5
<1>7. (\A x \in Posts : /\ post[x] = Unwritten \/ post[x].author \in Users
                        /\ post[x].circle # "none" => <<post[x].circle, post[x].author>> \in joined)'
  BY <1>1 DEF PostsInv
<1> QED
  BY <1>1, <1>4, <1>6, <1>7 DEF PostsInv

(* A post is written where there was none: no reader was given it.           *)
LEMMA CreatePostKept ==
  ASSUME PostsInv, ReadInv, NEW w \in Writers, CreatePost(w)
  PROVE  PostsInv' /\ ReadInv'
<1>1. PICK q \in PostRequest : q = writing[w] /\ q # NoRequest
  BY DEF PostsInv, CreatePost
<1>2. /\ q.who \in Users /\ q.post \in Posts
      /\ q.circle # "none" => <<q.circle, q.who>> \in joined
      /\ post[q.post] = Unwritten
      /\ \A x \in Writers : writing[x].post = q.post => x = w
  BY <1>1 DEF PostsInv
<1> DEFINE r == [author |-> q.who, circle |-> q.circle, at |-> clock, shown |-> q.post \notin Stories]
<1>3. /\ post' = [post EXCEPT ![q.post] = r] /\ writing' = [writing EXCEPT ![w] = NoRequest]
      /\ joined' = joined /\ clock' = clock /\ cursor' = cursor /\ read' = read /\ standing' = standing
  BY <1>1 DEF CreatePost
<1>4. r \in PostRecord /\ r.author = q.who /\ r.circle = q.circle
  BY <1>2 DEF PostRecord, PostRequest, PostsInv
<1> HIDE DEF r
<1>5. /\ post' \in [Posts -> PostRecord] /\ post'[q.post] = r
      /\ \A p \in Posts : p # q.post => post'[p] = post[p]
  BY <1>2, <1>3, <1>4 DEF PostsInv
<1>6. /\ writing' \in [Writers -> PostRequest] /\ writing'[w] = NoRequest
      /\ \A x \in Writers : x # w => writing'[x] = writing[x]
  BY <1>3, NothingWritten DEF PostsInv
<1>7. PostsInv'
  <2>1. (\A p \in Posts : /\ post[p] = Unwritten \/ post[p].author \in Users
                          /\ post[p].circle # "none" => <<post[p].circle, post[p].author>> \in joined)'
    BY <1>2, <1>3, <1>4, <1>5 DEF PostsInv
  <2>2. ASSUME NEW x \in Writers, writing'[x] # NoRequest
        PROVE  /\ writing'[x].who \in Users /\ writing'[x].post \in Posts \ {"none"}
               /\ writing'[x].circle # "none" => <<writing'[x].circle, writing'[x].who>> \in joined
               /\ post'[writing'[x].post] = Unwritten
               /\ \A y \in Writers : writing'[y].post = writing'[x].post => y = x
    <3>1. x # w /\ writing'[x] = writing[x]
      BY <1>6, <2>2
    <3>2. /\ writing[x].who \in Users /\ writing[x].post \in Posts \ {"none"}
          /\ writing[x].circle # "none" => <<writing[x].circle, writing[x].who>> \in joined
          /\ post[writing[x].post] = Unwritten
          /\ \A y \in Writers : writing[y].post = writing[x].post => y = x
      BY <2>2, <3>1 DEF PostsInv
    <3>3. writing[x].post # q.post
      BY <1>2, <3>1
    <3>4. ASSUME NEW y \in Writers, writing'[y].post = writing[x].post PROVE y = x
      <4>1. CASE y = w
        BY <1>6, <3>2, <3>4, <4>1, NothingWritten
      <4>2. CASE y # w
        BY <1>6, <3>2, <3>4, <4>2
      <4> QED
        BY <4>1, <4>2
    <3> QED
      BY <1>5, <3>1, <3>2, <3>3, <3>4
  <2>3. (\A x \in Writers : writing[x] # NoRequest =>
           /\ writing[x].who \in Users /\ writing[x].post \in Posts \ {"none"}
           /\ writing[x].circle # "none" => <<writing[x].circle, writing[x].who>> \in joined
           /\ post[writing[x].post] = Unwritten
           /\ \A y \in Writers : writing[y].post = writing[x].post => y = x)'
    BY <1>3, <2>2
  <2> QED
    BY <1>3, <1>5, <1>6, <2>1, <2>3 DEF PostsInv
<1>8. ReadInv'
  <2>1. ~post[q.post].shown /\ post[q.post].author \notin Users
    BY <1>2, NothingWritten
  <2>2. /\ q.post \notin Given /\ q.post \notin standing /\ standing \subseteq Posts /\ Given \subseteq Posts
    <3>1. Given \subseteq Posts
      BY DEF ReadInv, Given
    <3> QED
      BY <2>1, <3>1 DEF ReadInv, Shown
  <2>3. Given' = Given
    BY <1>3 DEF Given
  <2>4. \A p \in Given : post'[p] = post[p]
    BY <1>5, <2>2
  <2>5. \A p \in standing : post'[p] = post[p]
    BY <1>5, <2>2
  <2>6. (standing \subseteq Shown)' /\ (\A p \in Given : post[p].author \in Users)'
    BY <1>3, <2>2, <2>3, <2>4, <2>5 DEF ReadInv, Shown
  <2>7. (\A j, k \in DOMAIN read : j < k => read[j] # read[k] /\ post[read[j]].at >= post[read[k]].at)'
    <3>1. \A k \in DOMAIN read : post'[read[k]] = post[read[k]]
      BY <2>4 DEF Given
    <3> QED
      BY <1>3, <3>1 DEF ReadInv
  <2>8. (cursor.phase = "more" => \A p \in Given : post[p].at >= cursor.before)'
    BY <1>3, <2>3, <2>4 DEF ReadInv
  <2>9. \A p \in standing : Covered(p) => Covered(p)'
    BY <2>3, <2>4, <2>5 DEF Covered
  <2>10. (\A p \in standing : cursor.phase = "end" \/ (cursor.phase = "more" /\ post[p].at >= cursor.before)
                                => Covered(p))'
    BY <1>3, <2>5, <2>9 DEF ReadInv
  <2> QED
    BY <1>3, <2>6, <2>7, <2>8, <2>10 DEF ReadInv
<1> QED
  BY <1>7, <1>8

(* What a page gives, of the posts that are on the site and earlier than the *)
(* cursor: all of them, or a full page of the newest.                        *)
LEMMA OnePage ==
  ASSUME PostsInv, NEW page \in Pages, NEW b \in 0..Now + 1, IsPage(page, b)
  PROVE  /\ page \in Seq(Posts) /\ Len(page) \in 0..PageSize
         /\ \A k \in 1..Len(page) : page[k] \in Posts /\ post[page[k]].shown /\ post[page[k]].at < b
         /\ \A j, k \in 1..Len(page) : j < k => page[j] # page[k] /\ post[page[j]].at >= post[page[k]].at
         /\ \A p \in Posts : post[p].shown /\ post[p].at < b =>
              \/ \E k \in 1..Len(page) : page[k] = p
              \/ Len(page) = PageSize /\ \A k \in 1..Len(page) : post[p].at <= post[page[k]].at
<1>1. PICK n \in 0..PageSize : page \in [1..n -> Posts]
  BY DEF Pages
<1>2. page \in Seq(Posts) /\ Len(page) = n /\ DOMAIN page = 1..Len(page)
  BY <1>1, CommunityAssumption
<1>3. \A k \in 1..Len(page) : page[k] \in Posts /\ post[page[k]].shown /\ post[page[k]].at < b
  BY <1>1, <1>2 DEF IsPage, Earlier, Shown
<1>4. \A j, k \in 1..Len(page) : j < k => page[j] # page[k] /\ post[page[j]].at >= post[page[k]].at
  BY <1>2 DEF IsPage
<1>5. ASSUME NEW p \in Posts, post[p].shown, post[p].at < b, ~\E k \in 1..Len(page) : page[k] = p
      PROVE  Len(page) = PageSize /\ \A k \in 1..Len(page) : post[p].at <= post[page[k]].at
  <2> DEFINE rest == {r \in Shown : Earlier(r, b)} \ {page[k] : k \in DOMAIN page}
  <2>1. p \in rest
    BY <1>2, <1>5 DEF Shown, Earlier
  <2>2. (\A k \in DOMAIN page, r \in rest : post[r].at <= post[page[k]].at)
        /\ (Len(page) < PageSize => rest = {})
    BY DEF IsPage
  <2> HIDE DEF rest
  <2> QED
    BY <1>1, <1>2, <2>1, <2>2, CommunityAssumption
<1> QED
  BY <1>1, <1>2, <1>3, <1>4, <1>5

(* The reader goes on where the last page ended, whatever was written since. *)
LEMMA ListKept ==
  ASSUME PostsInv, ReadInv, NEW page \in Pages, List(page)
  PROVE  ReadInv'
<1>1. PICK b \in 0..Now + 1 : b = cursor.before
  BY DEF ReadInv
<1>2. /\ cursor.phase \in {"start", "more"} /\ IsPage(page, b) /\ read' = read \o page /\ post' = post
      /\ cursor' = IF Len(page) = PageSize THEN [phase |-> "more", before |-> post[page[PageSize]].at]
                   ELSE [cursor EXCEPT !.phase = "end"]
      /\ standing' = IF cursor.phase = "start" THEN Shown ELSE standing
  BY <1>1 DEF List, ReadInv
<1>3. /\ page \in Seq(Posts) /\ Len(page) \in 0..PageSize
      /\ \A k \in 1..Len(page) : page[k] \in Posts /\ post[page[k]].shown /\ post[page[k]].at < b
      /\ \A j, k \in 1..Len(page) : j < k => page[j] # page[k] /\ post[page[j]].at >= post[page[k]].at
  BY <1>2, OnePage
<1>4. \A p \in Posts : post[p].shown /\ post[p].at < b =>
        \/ \E k \in 1..Len(page) : page[k] = p
        \/ Len(page) = PageSize /\ \A k \in 1..Len(page) : post[p].at <= post[page[k]].at
  BY <1>2, OnePage
<1>5. \A p \in Posts : post[p].at \in 0..Now
  BY DEF PostsInv, PostRecord
<1>6. Now \in Nat /\ PageSize \in Nat \ {0}
  BY CommunityAssumption
<1>7. read \in Seq(Posts) /\ \A k \in 1..Len(read) : read[k] \in Given /\ read[k] \in Posts
  BY DEF ReadInv, Given
<1>8. /\ read' \in Seq(Posts) /\ Len(read') = Len(read) + Len(page)
      /\ \A k \in 1..Len(read') : read'[k] = IF k <= Len(read) THEN read[k] ELSE page[k - Len(read)]
  BY <1>2, <1>3, <1>7
<1>9. Given' = Given \union {page[k] : k \in 1..Len(page)}
  <2>1. Given' = {read'[k] : k \in 1..Len(read')}
    <3>1. read' \in Seq(Posts)
      BY <1>8
    <3>2. DOMAIN read' = 1..Len(read')
      BY <3>1
    <3> QED
      BY <3>2, Zenon DEF Given
  <2>2. Given = {read[k] : k \in 1..Len(read)}
    <3>1. DOMAIN read = 1..Len(read)
      BY <1>7
    <3> QED
      BY <3>1, Zenon DEF Given
  <2>3. \A k \in 1..Len(read) : k \in 1..Len(read') /\ read'[k] = read[k]
    BY <1>3, <1>7, <1>8
  <2>4. ASSUME NEW k \in 1..Len(page) PROVE \E i \in 1..Len(read') : read'[i] = page[k]
    <3>1. PICK n \in Nat, m \in Nat : n = Len(read) /\ m = Len(page)
      BY <1>3, <1>7
    <3>2. PICK i \in Nat : i = k + n /\ i - n = k /\ i \in 1..(n + m) /\ ~(i <= n)
      BY <3>1
    <3>3. read'[i] = page[i - n] /\ i \in 1..Len(read')
      BY <1>8, <3>1, <3>2
    <3> QED
      BY <3>2, <3>3
  <2>5. \A k \in 1..Len(read') : (k \in 1..Len(read) /\ read'[k] = read[k])
                                 \/ (k - Len(read) \in 1..Len(page) /\ read'[k] = page[k - Len(read)])
    BY <1>3, <1>7, <1>8
  <2>6. \A p : p \in Given' => p \in Given \/ \E k \in 1..Len(page) : p = page[k]
    BY <2>1, <2>2, <2>5
  <2>7. \A p : p \in Given \/ (\E k \in 1..Len(page) : p = page[k]) => p \in Given'
    BY <2>1, <2>2, <2>3, <2>4
  <2> QED
    BY <2>6, <2>7
<1>10. /\ \A p \in Given : p \in Posts /\ post[p].at >= b
       /\ cursor.phase = "start" => b = Now + 1
  <2>1. cursor.phase = "start" => Given = {}
    BY DEF ReadInv, Given
  <2>2. Given \subseteq Posts
    BY <1>7 DEF Given
  <2> QED
    BY <1>1, <1>2, <2>1, <2>2 DEF ReadInv
<1>11. ASSUME NEW j \in 1..Len(read'), NEW k \in 1..Len(read'), j < k
       PROVE  read'[j] # read'[k] /\ post[read'[j]].at >= post[read'[k]].at
  <2>1. CASE k <= Len(read)
    <3>1. read'[j] = read[j] /\ read'[k] = read[k] /\ j \in 1..Len(read) /\ k \in 1..Len(read)
      BY <1>7, <1>8, <1>11, <2>1
    <3> QED
      BY <1>7, <1>11, <3>1 DEF ReadInv
  <2>2. CASE j <= Len(read) /\ k > Len(read)
    <3>1. /\ read'[j] = read[j] /\ j \in 1..Len(read)
          /\ read'[k] = page[k - Len(read)] /\ k - Len(read) \in 1..Len(page)
      BY <1>3, <1>7, <1>8, <2>2
    <3>2. /\ read'[j] \in Posts /\ post[read'[j]].at >= b
          /\ read'[k] \in Posts /\ post[read'[k]].at < b
      BY <1>3, <1>7, <1>10, <3>1
    <3> QED
      BY <1>5, <3>2
  <2>3. CASE j > Len(read)
    <3>1. /\ read'[j] = page[j - Len(read)] /\ j - Len(read) \in 1..Len(page)
          /\ read'[k] = page[k - Len(read)] /\ k - Len(read) \in 1..Len(page)
          /\ j - Len(read) < k - Len(read)
      BY <1>3, <1>7, <1>8, <1>11, <2>3
    <3> QED
      BY <1>3, <3>1
  <2> QED
    BY <1>7, <1>11, <2>1, <2>2, <2>3
<1>12. (\A j, k \in DOMAIN read : j < k => read[j] # read[k] /\ post[read[j]].at >= post[read[k]].at)'
  BY <1>2, <1>8, <1>11
<1>13. standing' \subseteq Shown /\ standing' \subseteq Posts
  BY <1>2 DEF ReadInv, Shown
<1>14. \A p \in Given' : p \in Posts /\ post[p].author \in Users
  <2>1. \A k \in 1..Len(page) : post[page[k]].author \in Users
    BY <1>3, NothingWritten DEF PostsInv
  <2> QED
    BY <1>3, <1>9, <1>10, <2>1 DEF ReadInv
\* What is not earlier than the cursor was covered by the pages before.
<1>15. ASSUME NEW p \in standing', post[p].at >= b
       PROVE  p \in Given' \/ \E q \in Posts \ {p} : q \in Given' /\ post[q].at = post[p].at
  <2>1. cursor.phase = "more" /\ p \in standing
    <3>1. post[p].at <= Now
      BY <1>5, <1>6, <1>13
    <3> QED
      BY <1>2, <1>5, <1>6, <1>10, <1>13, <1>15, <3>1
  <2>2. Covered(p)
    BY <1>1, <1>15, <2>1 DEF ReadInv
  <2> QED
    BY <1>9, <2>2 DEF Covered
<1>16. CASE Len(page) = PageSize
  <2> DEFINE e == post[page[PageSize]].at
  <2>1. /\ PageSize \in 1..Len(page) /\ page[PageSize] \in Posts /\ e \in 0..Now /\ e < b
        /\ page[PageSize] \in Given'
    BY <1>3, <1>5, <1>6, <1>9, <1>16
  <2>2. cursor' = [phase |-> "more", before |-> e]
    BY <1>2, <1>16
  <2>3. \A k \in 1..Len(page) : post[page[k]].at >= e
    BY <1>3, <1>5, <1>6, <1>16, <2>1
  <2>4. ASSUME NEW p \in standing', post[p].at >= e
        PROVE  p \in Given' \/ \E q \in Posts \ {p} : q \in Given' /\ post[q].at = post[p].at
    <3>1. p \in Posts /\ post[p].shown /\ post[p].at \in 0..Now
      BY <1>5, <1>13 DEF Shown
    <3>2. CASE post[p].at >= b
      BY <1>15, <3>2
    <3>3. CASE \E k \in 1..Len(page) : page[k] = p
      BY <1>9, <3>3
    <3>4. CASE ~(post[p].at >= b) /\ ~\E k \in 1..Len(page) : page[k] = p
      <4>1. post[p].at < b
        BY <1>1, <3>1, <3>4
      <4>2. post[p].at <= e /\ page[PageSize] # p
        BY <1>4, <2>1, <3>1, <3>4, <4>1
      <4>3. post[p].at = e
        BY <2>1, <2>4, <3>1, <4>2
      <4> QED
        BY <2>1, <4>2, <4>3
    <3> QED
      BY <3>2, <3>3, <3>4
  <2> HIDE DEF e
  <2>5. \A p \in Given' : post[p].at >= e
    BY <1>5, <1>9, <1>10, <2>1, <2>3
  <2>6. cursor' \in [phase : {"start", "more", "end"}, before : 0..Now + 1]
        /\ cursor'.phase = "more" /\ cursor'.before = e
    BY <1>6, <2>1, <2>2
  <2>7. (\A p \in standing : cursor.phase = "end" \/ (cursor.phase = "more" /\ post[p].at >= cursor.before)
                               => Covered(p))'
    BY <1>2, <2>4, <2>6 DEF Covered
  <2>8. (cursor.phase = "more" => \A p \in Given : post[p].at >= cursor.before)'
    BY <1>2, <2>5, <2>6
  <2>9. (standing \subseteq Shown)' /\ (\A p \in Given : post[p].author \in Users)'
    BY <1>2, <1>13, <1>14 DEF Shown
  <2> QED
    BY <1>8, <1>12, <2>6, <2>7, <2>8, <2>9 DEF ReadInv
<1>17. CASE Len(page) # PageSize
  <2>1. ASSUME NEW p \in standing'
        PROVE  p \in Given' \/ \E q \in Posts \ {p} : q \in Given' /\ post[q].at = post[p].at
    <3>1. p \in Posts /\ post[p].shown /\ post[p].at \in 0..Now
      BY <1>5, <1>13 DEF Shown
    <3>2. CASE post[p].at >= b
      BY <1>15, <3>2
    <3>3. CASE ~(post[p].at >= b)
      <4>1. post[p].at < b
        BY <1>1, <3>1, <3>3
      <4> QED
        BY <1>4, <1>9, <1>17, <3>1, <4>1
    <3> QED
      BY <3>2, <3>3
  <2>2. cursor' \in [phase : {"start", "more", "end"}, before : 0..Now + 1] /\ cursor'.phase = "end"
    BY <1>2, <1>17 DEF ReadInv
  <2>3. (\A p \in standing : cursor.phase = "end" \/ (cursor.phase = "more" /\ post[p].at >= cursor.before)
                               => Covered(p))'
    BY <1>2, <2>1 DEF Covered
  <2>4. (standing \subseteq Shown)' /\ (\A p \in Given : post[p].author \in Users)'
    BY <1>2, <1>13, <1>14 DEF Shown
  <2> QED
    BY <1>8, <1>12, <2>2, <2>3, <2>4 DEF ReadInv
<1> QED
  BY <1>16, <1>17

LEMMA CommunityKept == CommunitySpec => []CommunityInv
<1>1. CommunityInit => CommunityInv
  <2> SUFFICES ASSUME CommunityInit PROVE CommunityInv
    OBVIOUS
  <2>1. CirclesInv
    BY DEF CommunityInit, CirclesInv
  <2>2. PostsInv
    BY NothingWritten, CommunityAssumption DEF CommunityInit, PostsInv
  <2>3. ReadInv
    BY CommunityAssumption DEF CommunityInit, ReadInv, Given, Start, Shown
  <2> QED
    BY <2>1, <2>2, <2>3 DEF CommunityInv
<1>2. ASSUME CommunityInv, [CommunityNext]_community PROVE CommunityInv'
  <2>1. CirclesInv /\ PostsInv /\ ReadInv
    BY <1>2 DEF CommunityInv
  <2>2. clock \in 0..Now /\ Now \in Nat
    BY <2>1, CommunityAssumption DEF PostsInv
  <2>3. ASSUME NEW u \in Users, NEW c \in Circles,
               CreateCircle(u, c) \/ Join(u, c) \/ Leave(u, c) \/ UpdateCircle(u, c)
        PROVE  CommunityInv'
    <3>1. /\ UNCHANGED <<post, writing, clock, cursor, read, standing>> /\ joined \subseteq joined'
      BY <2>3 DEF CreateCircle, Join, Leave, UpdateCircle
    <3>2. PostsInv' /\ ReadInv'
      BY <2>1, <2>2, <3>1, SamePosts, SameReading
    <3>3. CirclesInv'
      BY <2>1, <2>3, CirclesKept
    <3> QED
      BY <3>2, <3>3 DEF CommunityInv
  <2>4. ASSUME NEW w \in Writers, CreatePost(w) PROVE CommunityInv'
    <3>1. UNCHANGED <<role, founder, joined, usurped>>
      BY <2>4 DEF CreatePost, circles
    <3>2. CirclesInv' /\ PostsInv' /\ ReadInv'
      BY <2>1, <2>4, <3>1, SameCircles, CreatePostKept
    <3> QED
      BY <3>2 DEF CommunityInv
  <2>5. ASSUME NEW w \in Writers, NEW u \in Users, NEW p \in Posts, NEW c \in Circles \union {"none"},
               CheckPost(w, u, p, c)
        PROVE  CommunityInv'
    <3>1. UNCHANGED <<role, founder, joined, usurped, post, cursor, read, standing>>
      BY <2>5 DEF CheckPost, circles
    <3>2. CirclesInv' /\ ReadInv' /\ PostsInv'
      BY <2>1, <2>5, <3>1, SameCircles, SameReading, CheckPostKept
    <3> QED
      BY <3>2 DEF CommunityInv
  <2>6. ASSUME NEW p \in Posts, Decided(p) PROVE CommunityInv'
    <3>1. PICK r \in PostRecord : r = post[p] /\ r # Unwritten
      BY <2>1, <2>6 DEF PostsInv, Decided
    <3> DEFINE x == [r EXCEPT !.shown = ~r.shown]
    <3>2. /\ post' = [post EXCEPT ![p] = x] /\ standing' = standing \ {p}
          /\ writing' = writing /\ cursor' = cursor /\ read' = read /\ joined' = joined /\ clock' = clock
          /\ UNCHANGED <<role, founder, joined, usurped>>
      BY <2>1, <2>6, <3>1 DEF Decided, circles, PostsInv
    <3>3. x \in PostRecord /\ x.author = r.author /\ x.circle = r.circle /\ x.at = r.at
      BY DEF PostRecord
    <3> HIDE DEF x
    <3>4. /\ post' \in [Posts -> PostRecord] /\ post'[p] = x
          /\ \A q \in Posts : q # p => post'[q] = post[q]
      BY <2>1, <3>2, <3>3 DEF PostsInv
    <3>5. \A q \in Posts : /\ post'[q].author = post[q].author /\ post'[q].circle = post[q].circle
                           /\ post'[q].at = post[q].at
      BY <3>1, <3>3, <3>4
    <3>6. r.author \in Users
      BY <2>1, <3>1 DEF PostsInv
    <3>7. PostsInv'
      <4>1. (\A q \in Posts : /\ post[q] = Unwritten \/ post[q].author \in Users
                              /\ post[q].circle # "none" => <<post[q].circle, post[q].author>> \in joined)'
        BY <2>1, <3>2, <3>3, <3>4, <3>5, <3>6 DEF PostsInv
      <4>2. ASSUME NEW w \in Writers, writing[w] # NoRequest
            PROVE  post'[writing[w].post] = Unwritten
        BY <2>1, <3>1, <3>4, <4>2 DEF PostsInv
      <4>3. (\A w \in Writers : writing[w] # NoRequest =>
               /\ writing[w].who \in Users /\ writing[w].post \in Posts \ {"none"}
               /\ writing[w].circle # "none" => <<writing[w].circle, writing[w].who>> \in joined
               /\ post[writing[w].post] = Unwritten
               /\ \A y \in Writers : writing[y].post = writing[w].post => y = w)'
        BY <2>1, <3>2, <4>2 DEF PostsInv
      <4> QED
        BY <2>1, <3>2, <3>4, <4>1, <4>3 DEF PostsInv
    <3>8. ReadInv'
      <4>1. Given' = Given /\ Given \subseteq Posts /\ standing \subseteq Posts
        BY <2>1, <3>2 DEF Given, ReadInv, Shown
      <4>2. (standing \subseteq Shown)' /\ (\A q \in Given : post[q].author \in Users)'
        BY <2>1, <3>2, <3>4, <3>5, <4>1 DEF ReadInv, Shown
      <4>3. (\A j, k \in DOMAIN read : j < k => read[j] # read[k] /\ post[read[j]].at >= post[read[k]].at)'
        <5>1. \A k \in DOMAIN read : read[k] \in Posts
          BY <4>1 DEF Given
        <5> QED
          BY <2>1, <3>2, <3>5, <5>1 DEF ReadInv
      <4>4. (cursor.phase = "more" => \A q \in Given : post[q].at >= cursor.before)'
        BY <2>1, <3>2, <3>5, <4>1 DEF ReadInv
      <4>5. \A q \in Posts : Covered(q) => Covered(q)'
        BY <3>5, <4>1 DEF Covered
      <4>6. (\A q \in standing : cursor.phase = "end" \/ (cursor.phase = "more" /\ post[q].at >= cursor.before)
                                   => Covered(q))'
        BY <2>1, <3>2, <3>5, <4>1, <4>5 DEF ReadInv
      <4> QED
        BY <2>1, <3>2, <4>2, <4>3, <4>4, <4>6 DEF ReadInv
    <3>9. CirclesInv'
      BY <2>1, <3>2, SameCircles
    <3> QED
      BY <3>7, <3>8, <3>9 DEF CommunityInv
  <2>7. ASSUME NEW page \in Pages, List(page) PROVE CommunityInv'
    <3>1. UNCHANGED <<role, founder, joined, usurped, post, writing, clock>>
      BY <2>7 DEF List, circles
    <3>2. CirclesInv' /\ PostsInv' /\ ReadInv'
      BY <2>1, <2>2, <2>7, <3>1, SameCircles, SamePosts, ListKept
    <3> QED
      BY <3>2 DEF CommunityInv
  <2>8. CASE BeginReading
    <3>1. /\ UNCHANGED <<role, founder, joined, usurped, post, writing, clock>>
          /\ cursor' = Start /\ read' = <<>> /\ standing' = {}
      BY <2>8 DEF BeginReading, circles
    <3>2. CirclesInv' /\ PostsInv'
      BY <2>1, <2>2, <3>1, SameCircles, SamePosts
    <3>3. ReadInv'
      BY <2>2, <3>1 DEF ReadInv, Given, Start, Shown
    <3> QED
      BY <3>2, <3>3 DEF CommunityInv
  <2>9. CASE TimePasses \/ UNCHANGED community
    <3>1. /\ UNCHANGED <<role, founder, joined, usurped, post, writing, cursor, read, standing>>
          /\ clock' \in 0..Now
      BY <2>2, <2>9 DEF TimePasses, circles, community
    <3>2. CirclesInv' /\ PostsInv' /\ ReadInv'
      BY <2>1, <3>1, SameCircles, SamePosts, SameReading
    <3> QED
      BY <3>2 DEF CommunityInv
  <2> QED
    BY <1>2, <2>3, <2>4, <2>5, <2>6, <2>7, <2>8, <2>9 DEF CommunityNext
<1> QED
  BY <1>1, <1>2, PTL DEF CommunitySpec

(* Whoever wrote in a circle has been a member of it, although the check is  *)
(* made before the post is written; and nobody but its creator has changed a *)
(* circle; for any number of members, circles and writers.                   *)
THEOREM MembersWrite == CommunitySpec => []WrittenByMembers
<1>1. CommunityInv => WrittenByMembers
  BY DEF CommunityInv, CirclesInv, PostsInv, WrittenByMembers
<1> QED
  BY <1>1, CommunityKept, PTL

(* Paging by the time of the last post gives a reader every post that stayed *)
(* on the site, none twice and in order, but for posts of one millisecond;   *)
(* for pages of any size, whatever is written and decided between them.      *)
THEOREM ReadersMissNothing == CommunitySpec => []ListIsWhole
<1>1. CommunityInv => ListIsWhole
  BY DEF CommunityInv, ReadInv, Covered, ListIsWhole
<1> QED
  BY <1>1, CommunityKept, PTL

-----------------------------------------------------------------------------
(* The photographs                                                           *)

Source   == [there : BOOLEAN, time : 0..Seconds, wide : Spans]
Image    == [there : BOOLEAN, time : 0..Seconds, current : BOOLEAN]
Promise  == [promised : BOOLEAN, widths : SUBSET Widths, blur : BOOLEAN]
Pipeline == [at : {"idle", "next", "rendering"}, todo : SUBSET Photos, photo : SUBSET Photos,
             wide : Spans, written : SUBSET Widths, draft : [Photos -> Promise], done : SUBSET Photos]

\* Of one photograph p: s its original, m its images, f what the manifest says
\* of it, u what has happened to it behind the check's back, and k the pipeline.

\* The images m at these widths are of the original as it is.
Shows(m, widths) == \A w \in widths : m[w].there /\ m[w].current

\* The check sees by the time that the original was replaced.
Outdated(s, m) == m[Least].there /\ s.time > m[Least].time + 1 /\ ~m[Least].current

\* All that the site shows of the original is of it as it is.
UpToDate(s, m, f) == f.widths = Scaled(s.wide) /\ f.blur /\ Shows(m, f.widths)

\* Where a run of the pipeline is with it.
RunStands(p, k, s, m, u) ==
  /\ p \in k.todo => ~k.draft[p].promised
  /\ p \in k.done => k.photo = {p} \/ k.draft[p].promised
  /\ k.photo = {p} /\ p \notin k.done => u # {}
  /\ k.photo = {p} /\ p \in k.done /\ s.there => k.wide = s.wide /\ Shows(m, k.written)
  /\ p \in k.done /\ k.draft[p].promised /\ s.there => UpToDate(s, m, k.draft[p])

\* What the check can tell of it, if nothing happened behind its back.
Telling(p, k, s, m, f, u) ==
  u = {} /\ s.there /\ k.photo # {p} /\ p \notin k.done =>
    /\ f.promised /\ ~k.draft[p].promised => UpToDate(s, m, f) \/ Outdated(s, m)
    /\ k.draft[p].promised => Outdated(s, m)

Stands(p, k, s, m, f, u) ==
  /\ RunStands(p, k, s, m, u)
  /\ Telling(p, k, s, m, f, u)

PhotosInv ==
  /\ source \in [Photos -> Source] /\ rendition \in [Photos -> [Widths -> Image]]
  /\ manifest \in [Photos -> Promise] /\ pipeline \in Pipeline /\ second \in 0..Seconds
  /\ unseen \in [Photos -> SUBSET Reasons] /\ listed \subseteq Photos
  /\ pipeline.at = "idle" => pipeline = NoBuild
  /\ pipeline.at = "next" => pipeline.photo = {}
  /\ \A p \in Photos : Stands(p, pipeline, source[p], rendition[p], manifest[p], unseen[p])

LEMMA PipelineBegun ==
  /\ NoBuild \in Pipeline /\ NoBuild.at = "idle" /\ NoBuild.photo = {} /\ NoBuild.done = {}
  /\ NoBuild.todo = {} /\ \A p \in Photos : ~NoBuild.draft[p].promised
  /\ Left \in Promise /\ ~Left.promised /\ NoPhoto \in Source /\ ~NoPhoto.there
  /\ Missing \in Image /\ ~Missing.there
  /\ Least \in Nat /\ Narrow \in Spans /\ \A wide \in Spans : Scaled(wide) \in SUBSET Widths
<1>1. Left \in Promise /\ ~Left.promised
  BY DEF Left, Promise
<1> QED
  BY <1>1, PhotosAssumption DEF NoBuild, Pipeline, NoPhoto, Source, Missing, Image, Scaled, Spans

(* What happens in the pipeline to other photographs leaves q as it is.      *)
LEMMA Elsewhere ==
  ASSUME NEW q, NEW k, NEW l, NEW s, NEW m, NEW f, NEW u, Stands(q, k, s, m, f, u),
         (l.photo = {q}) = (k.photo = {q}),
         k.photo = {q} => l.wide = k.wide /\ l.written = k.written,
         (q \in l.done) = (q \in k.done), q \in l.todo => ~l.draft[q].promised,
         l.draft[q] = k.draft[q]
  PROVE  Stands(q, l, s, m, f, u)
<1>1. RunStands(q, l, s, m, u)
  BY DEF Stands, RunStands
<1>2. Telling(q, l, s, m, f, u)
  BY DEF Stands, Telling
<1> QED
  BY <1>1, <1>2 DEF Stands

\* From k to l the pipeline leaves the photographs that are not p.
OtherPhotos(p, k, l) ==
  \A q \in Photos \ {p} :
    /\ (l.photo = {q}) = (k.photo = {q})
    /\ k.photo = {q} => l.wide = k.wide /\ l.written = k.written
    /\ (q \in l.done) = (q \in k.done)
    /\ q \in l.todo => q \in k.todo
    /\ l.draft[q] = k.draft[q]

(* A step that is about one photograph.                                      *)
LEMMA OnePhoto ==
  ASSUME PhotosInv, NEW p \in Photos, NEW l \in Pipeline, NEW s \in Source, NEW m \in [Widths -> Image],
         NEW f \in Promise, NEW u \in SUBSET Reasons,
         source' = [source EXCEPT ![p] = s], rendition' = [rendition EXCEPT ![p] = m],
         unseen' = [unseen EXCEPT ![p] = u], manifest' = [manifest EXCEPT ![p] = f],
         pipeline' = l, second' = second, listed' = listed,
         l.at = "idle" => l = NoBuild, l.at = "next" => l.photo = {},
         Stands(p, l, s, m, f, u),
         OtherPhotos(p, pipeline, l)
  PROVE  PhotosInv'
<1>1. /\ source' \in [Photos -> Source] /\ rendition' \in [Photos -> [Widths -> Image]]
      /\ unseen' \in [Photos -> SUBSET Reasons] /\ manifest' \in [Photos -> Promise]
      /\ source'[p] = s /\ rendition'[p] = m /\ unseen'[p] = u /\ manifest'[p] = f
      /\ \A q \in Photos \ {p} : source'[q] = source[q] /\ rendition'[q] = rendition[q]
                                 /\ unseen'[q] = unseen[q] /\ manifest'[q] = manifest[q]
  BY DEF PhotosInv
<1>2. ASSUME NEW q \in Photos
      PROVE  Stands(q, l, source'[q], rendition'[q], manifest'[q], unseen'[q])
  <2>1. CASE q = p
    BY <1>1, <2>1
  <2>2. CASE q # p
    <3>1. Stands(q, pipeline, source[q], rendition[q], manifest[q], unseen[q])
      BY DEF PhotosInv
    <3>2. q \in l.todo => ~l.draft[q].promised
      BY <2>2, <3>1 DEF Stands, RunStands, OtherPhotos
    <3>3. Stands(q, l, source[q], rendition[q], manifest[q], unseen[q])
      BY <2>2, <3>1, <3>2, Elsewhere DEF OtherPhotos
    <3> QED
      BY <1>1, <2>2, <3>3
  <2> QED
    BY <2>1, <2>2
<1>3. (\A q \in Photos : Stands(q, pipeline, source[q], rendition[q], manifest[q], unseen[q]))'
  BY <1>2
<1> QED
  BY <1>1, <1>3 DEF PhotosInv

(* A replacement tells by its time, or is noted in unseen.                   *)
LEMMA ReplaceKept ==
  ASSUME PhotosInv, NEW p \in Photos, NEW wide \in Spans, NEW time \in 0..second, Replace(p, wide, time)
  PROVE  PhotosInv'
<1>1. PICK k \in Pipeline : k = pipeline
  BY DEF PhotosInv
<1>2. PICK i \in [Widths -> Image], f \in Promise, d \in Promise :
        i = rendition[p] /\ f = manifest[p] /\ d = k.draft[p]
  BY DEF PhotosInv, Pipeline
<1>3. Stands(p, k, source[p], i, f, unseen[p]) /\ unseen[p] \in SUBSET Reasons
      /\ second \in 0..Seconds /\ Seconds \in Nat /\ Least \in Widths
  BY <1>1, <1>2, PhotosAssumption DEF PhotosInv
<1> DEFINE s == [there |-> TRUE, time |-> time, wide |-> wide]
           m == [w \in Widths |-> [i[w] EXCEPT !.current = FALSE]]
           late == time < second \/ k.photo = {p} \/ (i[Least].there /\ second <= i[Least].time + 1)
           blind == ~i[Least].there /\ (f.promised \/ k.draft[p].promised)
           u == unseen[p] \union (IF late THEN {"time"} ELSE {})
                          \union (IF blind THEN {"narrow"} ELSE {})
           g == [f EXCEPT !.blur = FALSE]
           h == [d EXCEPT !.blur = FALSE]
           l == [k EXCEPT !.done = k.done \ {p}, !.draft = [k.draft EXCEPT ![p] = h]]
<1>4. /\ source' = [source EXCEPT ![p] = s] /\ rendition' = [rendition EXCEPT ![p] = m]
      /\ unseen' = [unseen EXCEPT ![p] = u] /\ pipeline' = l
      /\ manifest' = [manifest EXCEPT ![p] = g] /\ second' = second /\ listed' = listed
  <2>1. /\ source' = [source EXCEPT ![p] = s] /\ manifest' = [manifest EXCEPT ![p] = g]
        /\ second' = second /\ listed' = listed
    BY <1>2 DEF Replace, PhotosInv
  <2>2. rendition' = [rendition EXCEPT ![p] = m]
    BY <1>2 DEF Replace, PhotosInv
  <2>3. unseen' = [unseen EXCEPT ![p] = u]
    BY <1>1, <1>2 DEF Replace, PhotosInv
  <2>4. pipeline' = l
    BY <1>1, <1>2 DEF Replace, Pipeline
  <2> QED
    BY <2>1, <2>2, <2>3, <2>4
<1>5. s \in Source /\ s.there /\ s.time = time
  BY <1>3 DEF Source
<1>6. m \in [Widths -> Image] /\ \A w \in Widths : m[w].there = i[w].there /\ m[w].time = i[w].time
                                                   /\ ~m[w].current
  BY DEF Image
<1>7. u \in SUBSET Reasons /\ (late \/ blind => u # {})
  BY <1>3 DEF Reasons
<1>8. /\ l \in Pipeline /\ l.at = k.at /\ l.photo = k.photo /\ l.wide = k.wide /\ l.written = k.written
      /\ l.done = k.done \ {p} /\ l.todo = k.todo /\ l.draft[p].promised = k.draft[p].promised
      /\ \A q \in Photos \ {p} : l.draft[q] = k.draft[q]
      /\ g \in Promise /\ g.promised = f.promised
  BY <1>2 DEF Pipeline, Promise
<1>9. /\ l.at = "idle" => l = NoBuild
      /\ l.at = "next" => l.photo = {}
  <2>1. k.at = "idle" => l = k
    <3> SUFFICES ASSUME k = NoBuild PROVE l = k
      BY <1>1 DEF PhotosInv
    <3>1. k.done = {} /\ k.draft = [x \in Photos |-> Left]
      BY DEF NoBuild
    <3>2. h = Left
      <4>1. d = Left
        BY <1>2, <3>1
      <4> QED
        BY <4>1 DEF Left, Promise
    <3>3. k.done \ {p} = k.done /\ [k.draft EXCEPT ![p] = Left] = k.draft
      BY <3>1
    <3> QED
      BY <3>2, <3>3 DEF Pipeline
  <2> QED
    BY <1>1, <1>8, <2>1 DEF PhotosInv
<1>10. ~late => time = second /\ k.photo # {p} /\ (i[Least].there => second > i[Least].time + 1)
  BY <1>3, <1>2 DEF Image
<1> HIDE DEF s, m, u, l, g, h, late
<1>11. RunStands(p, l, s, m, u)
  BY <1>3, <1>7, <1>8, <1>10 DEF Stands, RunStands
<1>12. Telling(p, l, s, m, g, u)
  <2>1. i[Least] \in Image /\ time \in Int /\ Least \in Widths
    BY <1>3
  <2>2. u = {} /\ (g.promised \/ l.draft[p].promised) => i[Least].there /\ ~late
    BY <1>7, <1>8
  <2>3. u = {} /\ (g.promised \/ l.draft[p].promised) => Outdated(s, m)
    BY <1>5, <1>6, <1>10, <2>1, <2>2 DEF Outdated
  <2> QED
    BY <2>3 DEF Telling
<1>13. Stands(p, l, s, m, g, u)
  BY <1>11, <1>12 DEF Stands
<1>14. OtherPhotos(p, pipeline, l)
  BY <1>1, <1>8 DEF OtherPhotos
<1> QED
  BY <1>4, <1>5, <1>6, <1>7, <1>8, <1>9, <1>13, <1>14, OnePhoto

LEMMA RemoveOriginalKept ==
  ASSUME PhotosInv, NEW p \in Photos, RemoveOriginal(p)
  PROVE  PhotosInv'
<1>1. Stands(p, pipeline, source[p], rendition[p], manifest[p], unseen[p])
  BY DEF PhotosInv
<1>2. Stands(p, pipeline, NoPhoto, rendition[p], manifest[p], unseen[p])
  BY <1>1, PipelineBegun DEF Stands, RunStands, Telling
<1>3. /\ source' = [source EXCEPT ![p] = NoPhoto]
      /\ rendition' = [rendition EXCEPT ![p] = rendition[p]]
      /\ unseen' = [unseen EXCEPT ![p] = unseen[p]]
      /\ manifest' = [manifest EXCEPT ![p] = manifest[p]] /\ manifest[p] \in Promise
      /\ rendition[p] \in [Widths -> Image] /\ unseen[p] \in SUBSET Reasons
  BY DEF RemoveOriginal, PhotosInv
<1>4. /\ pipeline' = pipeline /\ second' = second /\ listed' = listed
      /\ pipeline \in Pipeline /\ NoPhoto \in Source
      /\ pipeline.at = "idle" => pipeline = NoBuild
      /\ pipeline.at = "next" => pipeline.photo = {}
      /\ OtherPhotos(p, pipeline, pipeline)
  BY PipelineBegun DEF RemoveOriginal, PhotosInv, OtherPhotos
<1> QED
  BY <1>2, <1>3, <1>4, OnePhoto

(* The three steps of the pipeline at a photograph.                          *)
LEMMA PhotoRendered ==
  ASSUME PhotosInv, NEW p \in Photos, NEW l \in Pipeline, NEW m \in [Widths -> Image],
         source' = [source EXCEPT ![p] = source[p]], unseen' = [unseen EXCEPT ![p] = unseen[p]],
         listed' = listed, manifest' = manifest, second' = second,
         rendition' = [rendition EXCEPT ![p] = m], pipeline' = l,
         l.at # "idle", l.at = "next" => l.photo = {},
         pipeline.photo \subseteq {p}, l.photo \subseteq {p},
         \A q \in Photos \ {p} : /\ (q \in l.done) = (q \in pipeline.done)
                                 /\ q \in l.todo => q \in pipeline.todo
                                 /\ l.draft[q] = pipeline.draft[q],
         Stands(p, l, source[p], m, manifest[p], unseen[p])
  PROVE  PhotosInv'
<1>1. /\ source[p] \in Source /\ unseen[p] \in SUBSET Reasons
      /\ manifest[p] \in Promise /\ manifest' = [manifest EXCEPT ![p] = manifest[p]]
  BY DEF PhotosInv
<1>2. \A q \in Photos \ {p} : l.photo # {q} /\ pipeline.photo # {q}
  OBVIOUS
<1>3. OtherPhotos(p, pipeline, l)
  BY <1>2 DEF OtherPhotos
<1>4. PICK s \in Source, f \in Promise, u \in SUBSET Reasons :
        s = source[p] /\ f = manifest[p] /\ u = unseen[p]
  BY <1>1
<1>5. /\ source' = [source EXCEPT ![p] = s] /\ unseen' = [unseen EXCEPT ![p] = u]
      /\ manifest' = [manifest EXCEPT ![p] = f] /\ Stands(p, l, s, m, f, u)
      /\ l.at = "idle" => l = NoBuild
  BY <1>1, <1>4
<1> QED
  BY <1>1, <1>3, <1>5, OnePhoto

LEMMA ReadOriginalKept ==
  ASSUME PhotosInv, NEW p \in Photos, ReadOriginal(p)
  PROVE  PhotosInv'
<1>1. PICK k \in Pipeline : k = pipeline /\ k.at = "next" /\ k.photo = {} /\ p \in k.todo
  BY DEF PhotosInv, ReadOriginal
<1>2. PICK s \in Source : s = source[p] /\ s.there
  BY DEF PhotosInv, ReadOriginal
<1>3. Stands(p, k, s, rendition[p], manifest[p], unseen[p])
  BY <1>1, <1>2 DEF PhotosInv
<1> DEFINE l == [k EXCEPT !.at = "rendering", !.photo = {p}, !.wide = s.wide,
                          !.written = {}, !.done = k.done \union {p}]
<1>4. pipeline' = l /\ source' = [source EXCEPT ![p] = source[p]]
      /\ unseen' = [unseen EXCEPT ![p] = unseen[p]]
      /\ listed' = listed /\ manifest' = manifest /\ second' = second
  BY <1>1, <1>2 DEF ReadOriginal, Pipeline, PhotosInv
<1>5. /\ l \in Pipeline /\ l.at = "rendering" /\ l.photo = {p} /\ l.wide = s.wide /\ l.written = {}
      /\ l.done = k.done \union {p} /\ l.todo = k.todo /\ l.draft = k.draft
  BY DEF Pipeline, Source
<1>6. rendition' = [rendition EXCEPT ![p] = rendition[p]] /\ rendition[p] \in [Widths -> Image]
  BY DEF ReadOriginal, PhotosInv
<1> HIDE DEF l
<1>7. ~l.draft[p].promised
  BY <1>1, <1>3, <1>5 DEF Stands, RunStands
<1>8. RunStands(p, l, s, rendition[p], unseen[p])
  BY <1>5, <1>7 DEF RunStands, Shows
<1>9. Telling(p, l, s, rendition[p], manifest[p], unseen[p])
  BY <1>5 DEF Telling
<1>10. Stands(p, l, source[p], rendition[p], manifest[p], unseen[p])
  BY <1>2, <1>3, <1>8, <1>9 DEF Stands
<1>11. \A q \in Photos \ {p} : /\ (q \in l.done) = (q \in pipeline.done)
                               /\ q \in l.todo => q \in pipeline.todo
                               /\ l.draft[q] = pipeline.draft[q]
  BY <1>1, <1>5
<1>12. pipeline.photo \subseteq {p} /\ l.photo \subseteq {p} /\ l.at # "idle" /\ (l.at = "next" => l.photo = {})
  BY <1>1, <1>5
<1> QED
  BY <1>4, <1>5, <1>6, <1>10, <1>11, <1>12, PhotoRendered

LEMMA WriteRenditionKept ==
  ASSUME PhotosInv, NEW p \in Photos, NEW w \in Widths, WriteRendition(p, w)
  PROVE  PhotosInv'
<1>1. PICK k \in Pipeline : k = pipeline /\ k.photo = {p} /\ k.at = "rendering"
  <2>1. pipeline \in Pipeline /\ pipeline.photo = {p}
    BY DEF PhotosInv, WriteRendition
  <2>2. pipeline.at # "idle" /\ pipeline.at # "next"
    BY <2>1, PipelineBegun DEF PhotosInv
  <2> QED
    BY <2>1, <2>2 DEF Pipeline
<1>2. PICK i \in [Widths -> Image] : i = rendition[p]
  BY DEF PhotosInv
<1>3. Stands(p, k, source[p], i, manifest[p], unseen[p]) /\ Dated(w) \in 0..Seconds
  BY <1>1, <1>2, PhotosAssumption DEF PhotosInv, Dated
<1> DEFINE c == p \in k.done
           r == [there |-> TRUE, time |-> Dated(w), current |-> c]
           m == [i EXCEPT ![w] = r]
           l == [k EXCEPT !.written = k.written \union {w}]
<1>4. pipeline' = l /\ source' = [source EXCEPT ![p] = source[p]]
      /\ unseen' = [unseen EXCEPT ![p] = unseen[p]]
      /\ listed' = listed /\ manifest' = manifest /\ second' = second
  BY <1>1 DEF WriteRendition, Pipeline, PhotosInv
<1>5. rendition' = [rendition EXCEPT ![p] = m]
  BY <1>1, <1>2 DEF WriteRendition, PhotosInv
<1>5a. c \in BOOLEAN /\ (c <=> p \in k.done)
  OBVIOUS
<1> HIDE DEF c
<1>6. r \in Image /\ r.there /\ r.current = c
  BY <1>3, <1>5a DEF Image
<1>7. /\ l \in Pipeline /\ l.at = k.at /\ l.photo = k.photo /\ l.wide = k.wide
      /\ l.written = k.written \union {w}
      /\ l.done = k.done /\ l.todo = k.todo /\ l.draft = k.draft
  BY DEF Pipeline
<1> HIDE DEF r
<1>8. m \in [Widths -> Image] /\ m[w] = r /\ \A v \in Widths : v # w => m[v] = i[v]
  BY <1>6
<1>9. k.written \subseteq Widths /\ k.draft[p].widths \subseteq Widths
  BY DEF Pipeline, Promise
<1> HIDE DEF m, l
<1>10. p \in k.done => \A v \in Widths : (i[v].there /\ i[v].current) \/ v = w
                                           => m[v].there /\ m[v].current
  BY <1>6, <1>8, <1>5a
<1>11. RunStands(p, l, source[p], m, unseen[p])
  <2>1. p \in k.done /\ Shows(i, k.written) => Shows(m, l.written)
    BY <1>7, <1>9, <1>10 DEF Shows
  <2>2. p \in k.done /\ Shows(i, k.draft[p].widths) => Shows(m, k.draft[p].widths)
    BY <1>9, <1>10 DEF Shows
  <2> QED
    BY <1>3, <1>7, <2>1, <2>2 DEF Stands, RunStands, UpToDate
<1>12. Telling(p, l, source[p], m, manifest[p], unseen[p])
  BY <1>1, <1>7 DEF Telling
<1>13. Stands(p, l, source[p], m, manifest[p], unseen[p])
  BY <1>3, <1>11, <1>12 DEF Stands
<1>14. \A q \in Photos \ {p} : /\ (q \in l.done) = (q \in pipeline.done)
                               /\ q \in l.todo => q \in pipeline.todo
                               /\ l.draft[q] = pipeline.draft[q]
  BY <1>1, <1>7
<1>15. pipeline.photo \subseteq {p} /\ l.photo \subseteq {p} /\ l.at # "idle" /\ (l.at = "next" => l.photo = {})
  BY <1>1, <1>7
<1> QED
  BY <1>4, <1>5, <1>7, <1>8, <1>13, <1>14, <1>15, PhotoRendered

LEMMA EnterInDraftKept ==
  ASSUME PhotosInv, NEW p \in Photos, EnterInDraft(p)
  PROVE  PhotosInv'
<1>1. PICK k \in Pipeline : k = pipeline /\ k.photo = {p} /\ k.written = Scaled(k.wide) /\ k.wide \in Spans
  BY DEF PhotosInv, EnterInDraft, Pipeline
<1>2. Stands(p, k, source[p], rendition[p], manifest[p], unseen[p])
  BY <1>1 DEF PhotosInv
<1> DEFINE c == p \in k.done
           g == [promised |-> TRUE, widths |-> Scaled(k.wide), blur |-> c]
           d == [k.draft EXCEPT ![p] = g]
           l == [k EXCEPT !.at = "next", !.photo = {}, !.todo = k.todo \ {p}, !.written = {},
                          !.wide = Narrow, !.draft = d]
<1>3. pipeline' = l /\ source' = [source EXCEPT ![p] = source[p]]
      /\ unseen' = [unseen EXCEPT ![p] = unseen[p]]
      /\ listed' = listed /\ manifest' = manifest /\ second' = second
  BY <1>1 DEF EnterInDraft, Pipeline, PhotosInv
<1>3a. c \in BOOLEAN /\ (p \in k.done => c)
  OBVIOUS
<1> HIDE DEF c
<1>4. g \in Promise /\ g.promised /\ g.widths = Scaled(k.wide) /\ (p \in k.done => g.blur)
  BY <1>1, <1>3a, PipelineBegun DEF Promise
<1> HIDE DEF g
<1>5. d \in [Photos -> Promise] /\ d[p] = g /\ \A q \in Photos \ {p} : d[q] = k.draft[q]
  BY <1>4 DEF Pipeline
<1> HIDE DEF d
<1>6. /\ l \in Pipeline /\ l.at = "next" /\ l.photo = {} /\ l.todo = k.todo \ {p}
      /\ l.done = k.done /\ l.draft = d
  BY <1>5, PipelineBegun DEF Pipeline
<1>7. rendition' = [rendition EXCEPT ![p] = rendition[p]] /\ rendition[p] \in [Widths -> Image]
  BY DEF EnterInDraft, PhotosInv
<1> HIDE DEF l
<1>8. RunStands(p, l, source[p], rendition[p], unseen[p])
  BY <1>1, <1>2, <1>4, <1>5, <1>6 DEF Stands, RunStands, UpToDate
<1>9. Telling(p, l, source[p], rendition[p], manifest[p], unseen[p])
  BY <1>1, <1>2, <1>4, <1>5, <1>6 DEF Stands, RunStands, Telling
<1>10. Stands(p, l, source[p], rendition[p], manifest[p], unseen[p])
  BY <1>2, <1>8, <1>9 DEF Stands
<1>11. \A q \in Photos \ {p} : /\ (q \in l.done) = (q \in pipeline.done)
                               /\ q \in l.todo => q \in pipeline.todo
                               /\ l.draft[q] = pipeline.draft[q]
  BY <1>1, <1>5, <1>6
<1>12. pipeline.photo \subseteq {p} /\ l.photo \subseteq {p} /\ l.at # "idle" /\ (l.at = "next" => l.photo = {})
  BY <1>1, <1>6
<1> QED
  BY <1>3, <1>6, <1>7, <1>10, <1>11, <1>12, PhotoRendered

(* The steps that are about every photograph.                                *)
LEMMA CheckOutKept ==
  ASSUME PhotosInv, CheckOut
  PROVE  PhotosInv'
<1>1. PICK n \in 0..Seconds : n = second
  BY DEF PhotosInv
<1>2. /\ pipeline = NoBuild /\ pipeline' = pipeline /\ manifest' = manifest
      /\ listed' = listed /\ second' = second
      /\ source' = [p \in Photos |-> IF source[p].there THEN [source[p] EXCEPT !.time = n] ELSE source[p]]
      /\ rendition' = [p \in Photos |-> [w \in Widths |-> IF rendition[p][w].there
                         THEN [rendition[p][w] EXCEPT !.time = Dated(w)] ELSE Missing]]
      /\ unseen' = [p \in Photos |-> unseen[p] \union
                      (IF source[p].there /\ manifest[p].promised /\ ~Current(p)
                       THEN {"checkout"} ELSE {})]
  BY <1>1 DEF CheckOut
<1>3. ASSUME NEW p \in Photos
      PROVE  /\ source'[p] \in Source /\ rendition'[p] \in [Widths -> Image]
             /\ unseen'[p] \in SUBSET Reasons
             /\ Stands(p, NoBuild, source'[p], rendition'[p], manifest[p], unseen'[p])
  <2>1. PICK s \in Source : s = source[p]
    BY DEF PhotosInv
  <2>2. PICK i \in [Widths -> Image] : i = rendition[p]
    BY DEF PhotosInv
  <2>3. Stands(p, NoBuild, s, i, manifest[p], unseen[p]) /\ unseen[p] \in SUBSET Reasons
    BY <1>2, <2>1, <2>2 DEF PhotosInv
  <2>4. /\ source'[p] = IF s.there THEN [s EXCEPT !.time = n] ELSE s
        /\ rendition'[p] = [w \in Widths |-> IF i[w].there THEN [i[w] EXCEPT !.time = Dated(w)] ELSE Missing]
        /\ unseen'[p] = unseen[p] \union (IF s.there /\ manifest[p].promised /\ ~Current(p)
                                          THEN {"checkout"} ELSE {})
    BY <1>2, <2>1, <2>2
  <2>5. PICK t \in Source : t = source'[p] /\ t.there = s.there /\ t.wide = s.wide
    BY <2>4 DEF Source
  <2>6. PICK m \in [Widths -> Image] :
          m = rendition'[p] /\ \A w \in Widths : /\ m[w].there = i[w].there
                                                 /\ i[w].there => m[w].current = i[w].current
    <3>1. \A w \in Widths : /\ rendition'[p][w] \in Image /\ rendition'[p][w].there = i[w].there
                            /\ i[w].there => rendition'[p][w].current = i[w].current
      <4> SUFFICES ASSUME NEW w \in Widths
                   PROVE  /\ rendition'[p][w] \in Image /\ rendition'[p][w].there = i[w].there
                          /\ i[w].there => rendition'[p][w].current = i[w].current
        OBVIOUS
      <4>1. rendition'[p][w] = IF i[w].there THEN [i[w] EXCEPT !.time = Dated(w)] ELSE Missing
        BY <2>4
      <4>2. PICK j \in Image, d \in 0..Seconds : j = i[w] /\ d = Dated(w)
        BY PhotosAssumption DEF Dated, PhotosInv
      <4>3. PICK k : k = rendition'[p][w] /\ k = IF j.there THEN [j EXCEPT !.time = d] ELSE Missing
        BY <4>1, <4>2
      <4>4. Missing \in Image /\ ~ Missing.there
        BY PipelineBegun DEF Missing, Image
      <4>5. k \in Image /\ k.there = j.there /\ (j.there => k.current = j.current)
        BY <4>3, <4>4 DEF Image
      <4> QED
        BY <4>2, <4>3, <4>5
    <3>2. rendition'[p] \in [Widths -> Image]
      BY <2>4, <3>1
    <3> QED
      BY <3>1, <3>2
  <2>7. PICK u \in SUBSET Reasons :
          u = unseen'[p] /\ (u = {} /\ s.there /\ manifest[p].promised => Current(p))
    BY <2>3, <2>4 DEF Reasons
  <2>8. RunStands(p, NoBuild, t, m, u)
    BY PipelineBegun DEF RunStands
  <2>9. Telling(p, NoBuild, t, m, manifest[p], u)
    <3> SUFFICES ASSUME u = {}, t.there, manifest[p].promised
                 PROVE  UpToDate(t, m, manifest[p])
      BY PipelineBegun DEF Telling
    <3>1. Current(p)
      BY <2>5, <2>7
    <3>2. /\ manifest[p].widths = Scaled(s.wide) /\ manifest[p].blur
          /\ \A w \in manifest[p].widths : i[w].there /\ i[w].current
      BY <2>1, <2>2, <3>1 DEF Current
    <3>3. manifest[p].widths \subseteq Widths
      BY <3>2 DEF Scaled
    <3> QED
      BY <2>5, <2>6, <3>2, <3>3 DEF UpToDate, Shows
  <2>10. Stands(p, NoBuild, t, m, manifest[p], u)
    BY <2>3, <2>8, <2>9 DEF Stands
  <2> QED
    BY <2>5, <2>6, <2>7, <2>10
<1>4. /\ source' \in [Photos -> Source] /\ rendition' \in [Photos -> [Widths -> Image]]
      /\ unseen' \in [Photos -> SUBSET Reasons]
  BY <1>2, <1>3
<1>5. (\A p \in Photos : Stands(p, pipeline, source[p], rendition[p], manifest[p], unseen[p]))'
  BY <1>2, <1>3
<1> QED
  BY <1>2, <1>4, <1>5 DEF PhotosInv

LEMMA StartBuildKept ==
  ASSUME PhotosInv, StartBuild
  PROVE  PhotosInv'
<1> DEFINE l == [NoBuild EXCEPT !.at = "next", !.todo = listed]
<1>1. /\ pipeline = NoBuild /\ pipeline' = l
      /\ UNCHANGED <<source, listed, rendition, manifest, second, unseen>>
  BY DEF StartBuild
<1>2. /\ l \in Pipeline /\ l.at = "next" /\ l.photo = {} /\ l.done = {} /\ l.draft = NoBuild.draft
  BY PipelineBegun DEF PhotosInv, Pipeline
<1> HIDE DEF l
<1>3. ASSUME NEW p \in Photos
      PROVE  Stands(p, l, source[p], rendition[p], manifest[p], unseen[p])
  <2>1. Stands(p, NoBuild, source[p], rendition[p], manifest[p], unseen[p])
    BY <1>1 DEF PhotosInv
  <2> QED
    BY <1>2, <2>1, PipelineBegun, Elsewhere
<1>4. (\A p \in Photos : Stands(p, pipeline, source[p], rendition[p], manifest[p], unseen[p]))'
  BY <1>1, <1>3
<1> QED
  BY <1>1, <1>2, <1>4 DEF PhotosInv

LEMMA WriteManifestKept ==
  ASSUME PhotosInv, WriteManifest
  PROVE  PhotosInv'
<1>1. PICK k \in Pipeline : k = pipeline /\ k.photo = {}
  BY DEF PhotosInv, WriteManifest
<1>2. /\ manifest' = k.draft /\ pipeline' = NoBuild
      /\ unseen' = [p \in Photos |-> IF p \in k.done THEN {} ELSE unseen[p]]
      /\ UNCHANGED <<source, listed, rendition, second>>
  BY <1>1 DEF WriteManifest
<1>3. ASSUME NEW p \in Photos
      PROVE  Stands(p, NoBuild, source[p], rendition[p], k.draft[p], unseen'[p])
  <2>1. Stands(p, k, source[p], rendition[p], manifest[p], unseen[p])
    BY <1>1 DEF PhotosInv
  <2>2. RunStands(p, NoBuild, source[p], rendition[p], unseen'[p])
    BY PipelineBegun DEF RunStands
  <2>3. Telling(p, NoBuild, source[p], rendition[p], k.draft[p], unseen'[p])
    <3>1. CASE p \in k.done
      BY <1>1, <2>1, <3>1, PipelineBegun DEF Stands, RunStands, Telling
    <3>2. CASE p \notin k.done
      <4>1. unseen'[p] = unseen[p]
        BY <1>2, <3>2
      <4> QED
        BY <1>1, <2>1, <3>2, <4>1, PipelineBegun DEF Stands, Telling
    <3> QED
      BY <3>1, <3>2
  <2> QED
    BY <2>1, <2>2, <2>3 DEF Stands, RunStands
<1>4. (\A p \in Photos : Stands(p, pipeline, source[p], rendition[p], manifest[p], unseen[p]))'
  BY <1>2, <1>3
<1>5. unseen' \in [Photos -> SUBSET Reasons] /\ manifest' \in [Photos -> Promise]
  BY <1>2 DEF PhotosInv, Pipeline
<1> QED
  BY <1>2, <1>4, <1>5, PipelineBegun DEF PhotosInv

LEMMA BuildStopsKept ==
  ASSUME PhotosInv, BuildStops
  PROVE  PhotosInv'
<1>1. PICK k \in Pipeline : k = pipeline
  BY DEF PhotosInv
<1>2. /\ pipeline' = NoBuild /\ UNCHANGED <<source, listed, rendition, manifest, second>>
      /\ unseen' = [p \in Photos |-> unseen[p] \union
                      (IF k.photo = {p} \/ k.draft[p].promised THEN {"cut"} ELSE {})]
  BY <1>1 DEF BuildStops
<1>3. ASSUME NEW p \in Photos
      PROVE  Stands(p, NoBuild, source[p], rendition[p], manifest[p], unseen'[p])
  <2>1. Stands(p, k, source[p], rendition[p], manifest[p], unseen[p])
    BY <1>1 DEF PhotosInv
  <2>2. RunStands(p, NoBuild, source[p], rendition[p], unseen'[p])
    BY PipelineBegun DEF RunStands
  <2>3. unseen'[p] = {} => unseen[p] = {} /\ k.photo # {p} /\ ~k.draft[p].promised
    BY <1>2
  <2>4. unseen'[p] = {} => p \notin k.done
    BY <2>1, <2>3 DEF Stands, RunStands
  <2>5. Telling(p, NoBuild, source[p], rendition[p], manifest[p], unseen'[p])
    BY <2>1, <2>3, <2>4, PipelineBegun DEF Stands, Telling
  <2> QED
    BY <2>1, <2>2, <2>5 DEF Stands
<1>4. (\A p \in Photos : Stands(p, pipeline, source[p], rendition[p], manifest[p], unseen[p]))'
  BY <1>2, <1>3
<1>5. unseen' \in [Photos -> SUBSET Reasons]
  BY <1>2 DEF PhotosInv, Reasons
<1> QED
  BY <1>2, <1>4, <1>5, PipelineBegun DEF PhotosInv

LEMMA PhotosKept == PhotosSpec => []PhotosInv
<1>1. PhotosInit => PhotosInv
  <2> SUFFICES ASSUME PhotosInit PROVE PhotosInv
    OBVIOUS
  <2>1. ASSUME NEW p \in Photos
        PROVE  Stands(p, pipeline, source[p], rendition[p], manifest[p], unseen[p])
    <3>1. pipeline = NoBuild /\ source[p] = NoPhoto /\ manifest[p] = Left
      BY DEF PhotosInit
    <3> QED
      BY <3>1, PipelineBegun DEF Stands, RunStands, Telling
  <2>2. /\ source \in [Photos -> Source] /\ manifest \in [Photos -> Promise] /\ listed \subseteq Photos
        /\ second \in 0..Seconds /\ unseen \in [Photos -> SUBSET Reasons]
    BY PipelineBegun, PhotosAssumption DEF PhotosInit
  <2>3. rendition \in [Photos -> [Widths -> Image]]
    <3>1. [w \in Widths |-> Missing] \in [Widths -> Image]
      BY PipelineBegun
    <3> QED
      BY <3>1 DEF PhotosInit
  <2>4. pipeline = NoBuild
    BY DEF PhotosInit
  <2> QED
    BY <2>1, <2>2, <2>3, <2>4, PipelineBegun DEF PhotosInv
<1>2. ASSUME PhotosInv, [PhotosNext]_photos PROVE PhotosInv'
  <2>1. ASSUME NEW p \in Photos, EditList(p) PROVE PhotosInv'
    <3>1. UNCHANGED <<source, rendition, manifest, pipeline, second, unseen>> /\ listed' \subseteq Photos
      BY <1>2, <2>1 DEF EditList, PhotosInv
    <3> QED
      BY <1>2, <3>1 DEF PhotosInv
  <2>2. ASSUME SecondPasses \/ UNCHANGED photos PROVE PhotosInv'
    <3>1. UNCHANGED <<source, rendition, manifest, pipeline, listed, unseen>> /\ second' \in 0..Seconds
      BY <1>2, <2>2, PhotosAssumption DEF SecondPasses, photos, PhotosInv
    <3> QED
      BY <1>2, <3>1 DEF PhotosInv
  <2> QED
    BY <1>2, <2>1, <2>2, ReplaceKept, RemoveOriginalKept, ReadOriginalKept, WriteRenditionKept,
       EnterInDraftKept, CheckOutKept, StartBuildKept, WriteManifestKept, BuildStopsKept
       DEF PhotosNext
<1> QED
  BY <1>1, <1>2, PTL DEF PhotosSpec

(* What check-photos passes has every original at all its widths, its blur   *)
(* and nothing of a picture that was there before, unless something happened *)
(* that a time of change cannot tell, or it took the place of an original too*)
(* narrow to have a time; for any photographs, widths, narrow ones and       *)
(* builds.                                                                   *)
THEOREM WhatPassesIsCurrent == PhotosSpec => []PassedIsCurrent
<1>1. PhotosInv => PassedIsCurrent
  <2> SUFFICES ASSUME PhotosInv, pipeline = NoBuild, Approved,
                      NEW p \in Photos, source[p].there, unseen[p] = {}
               PROVE  Current(p)
    BY DEF PassedIsCurrent, CurrentUnless
  <2>1. Stands(p, NoBuild, source[p], rendition[p], manifest[p], unseen[p])
    BY DEF PhotosInv
  <2>2. manifest[p].promised /\ ~Stale(p)
    BY DEF Approved, Registered
  <2>3. ~Outdated(source[p], rendition[p])
    BY <2>2 DEF Stale, Outdated
  <2>4. UpToDate(source[p], rendition[p], manifest[p])
    BY <2>1, <2>2, <2>3, PipelineBegun DEF Stands, Telling
  <2> QED
    BY <2>4 DEF Current, UpToDate, Shows
<1> QED
  BY <1>1, PhotosKept, PTL
-----------------------------------------------------------------------------
(* Throttle                                                                  *)

\* The behaviours of the throttle alone. Fairness plays no part here.
ThrottleSpec == ThrottleInit /\ [][ThrottleNext]_throttle

\* Nobody is admitted who was not counted: what a place has admitted in its
\* window is at most what its counter shows, and at most the limit.
CountedFirst ==
  /\ admitted["redis"] <= window.hits
  /\ \A i \in Instances : admitted[i] <= memory[i]
  /\ \A p \in Places : admitted[p] <= Limit

\* A request that waits for Redis knows the instance that would count it instead.
Trips == {"pttl", "incr", "pexpire", "block"}
ThrottleCall == {c \in [at : {"idle", "handler"} \union Trips, on : Instances \union {"none"}, hits : Counts] :
              c.at \in Trips => c.on \in Instances}

ThrottleInv == ThrottleTypeOK /\ CountedFirst /\ call \in [Calls -> ThrottleCall]

-----------------------------------------------------------------------------
(* The initial state.                                                        *)
LEMMA ThrottleBegun == ThrottleInit => ThrottleInv
<1> SUFFICES ASSUME ThrottleInit PROVE ThrottleInv
  OBVIOUS
<1>1. 0 \in Counts /\ 0 \in 0..MaxFaults /\ 0 \in 0..Limit + 3 /\ 0 <= Limit
  BY ThrottleAssumption DEF Counts
<1>2. window \in [hits : Counts, expires : BOOLEAN] /\ window.hits = 0
  BY <1>1 DEF ThrottleInit, NoWindow
<1>3. call \in [Calls -> ThrottleCall]
  BY <1>1 DEF ThrottleInit, Idle, ThrottleCall, Trips
<1>4. ThrottleTypeOK
  BY <1>1, <1>2, <1>3 DEF ThrottleInit, ThrottleTypeOK, ThrottleCall, Trips
<1>5. CountedFirst
  BY <1>1, <1>2 DEF ThrottleInit, CountedFirst, Places
<1> QED
  BY <1>3, <1>4, <1>5 DEF ThrottleInv

(* One more hit is a count again, larger than before unless the count has    *)
(* reached its end, which is above the limit.                                *)
LEMMA OneMoreCounts ==
  ASSUME NEW n \in Counts
  PROVE  /\ OneMore(n) \in Counts
         /\ n <= OneMore(n)
         /\ OneMore(n) <= Limit => OneMore(n) = n + 1
  BY ThrottleAssumption, SMT DEF OneMore, Counts

(* A hit at one place that is admitted there keeps CountedFirst.             *)
LEMMA CountedKeeps ==
  ASSUME ThrottleInv, NEW place \in Places, NEW n \in Counts, NEW hits, hits = OneMore(n),
         admitted[place] <= n, Counted(place, hits)
  PROVE  /\ admitted' \in [Places -> 0..Limit + 3]
         /\ admitted'[place] <= hits
         /\ admitted'[place] <= Limit
         /\ \A p \in Places \ {place} : admitted'[p] = admitted[p]
<1>1. /\ hits \in Counts /\ n <= hits
      /\ hits <= Limit => hits = n + 1
  BY OneMoreCounts
<1>2. /\ admitted \in [Places -> 0..Limit + 3]
      /\ admitted[place] <= Limit
  BY DEF ThrottleInv, ThrottleTypeOK, CountedFirst
<1>3. CASE hits > Limit
  BY <1>1, <1>2, <1>3, ThrottleAssumption, SMT DEF Counted, OverLimit, Counts
<1>4. CASE ~ (hits > Limit)
  <2>1. hits = n + 1 /\ n + 1 <= Limit
    BY <1>1, <1>4, ThrottleAssumption, SMT DEF Counts
  <2>2. admitted' = [admitted EXCEPT ![place] = @ + 1]
    BY <1>4 DEF Counted, OverLimit
  <2> QED
    BY <1>2, <2>1, <2>2, ThrottleAssumption, SMT DEF Counts
<1> QED
  BY <1>3, <1>4

-----------------------------------------------------------------------------
(* Every step.                                                               *)

(* A step that changes one request into one of its type keeps their type.    *)
LEMMA CallTyped ==
  ASSUME ThrottleInv, NEW q \in Calls, NEW c \in ThrottleCall, call' = [call EXCEPT ![q] = c]
  PROVE  call' \in [Calls -> ThrottleCall]
  BY DEF ThrottleInv

(* What becomes of a request that is done, that moves on, that is refused or *)
(* that is let through is a request.                                         *)
LEMMA RequestForms ==
  /\ Idle \in ThrottleCall
  /\ \A i \in Instances : [Idle EXCEPT !.on = i] \in ThrottleCall
  /\ \A c \in ThrottleCall, h \in Counts : [c EXCEPT !.hits = h] \in ThrottleCall
  /\ \A c \in ThrottleCall, passes \in BOOLEAN : Through(c, passes) \in ThrottleCall
  /\ \A c \in ThrottleCall, s \in Trips : c.at \in Trips => [c EXCEPT !.at = s] \in ThrottleCall
  /\ \A c \in ThrottleCall, h \in Counts, passes \in BOOLEAN :
       c.at \in Trips => Counting(c, h, passes) \in ThrottleCall
<1>1. 0 \in Counts
  BY ThrottleAssumption DEF Counts
<1>2. Idle \in ThrottleCall /\ \A i \in Instances : [Idle EXCEPT !.on = i] \in ThrottleCall
  BY <1>1 DEF Idle, ThrottleCall, Trips
<1>3. \A c \in ThrottleCall, h \in Counts : [c EXCEPT !.hits = h] \in ThrottleCall
  BY DEF ThrottleCall, Trips
<1>4. \A c \in ThrottleCall, passes \in BOOLEAN : Through(c, passes) \in ThrottleCall
  <2>1. \A c \in ThrottleCall : [c EXCEPT !.at = "handler"] \in ThrottleCall
    BY DEF ThrottleCall, Trips
  <2> QED
    BY <1>2, <2>1 DEF Through
<1>5. \A c \in ThrottleCall, s \in Trips : c.at \in Trips => [c EXCEPT !.at = s] \in ThrottleCall
  BY DEF ThrottleCall, Trips
<1>6. \A c \in ThrottleCall, h \in Counts, passes \in BOOLEAN :
        c.at \in Trips => Counting(c, h, passes) \in ThrottleCall
  BY <1>4, <1>5 DEF Counting, Trips
<1> QED
  BY <1>2, <1>3, <1>4, <1>5, <1>6

(* The verdicts of the guards are truth values.                              *)
LEMMA VerdictsAreBoolean == Verdicts \subseteq BOOLEAN
  BY DEF Verdicts, Passes, ProhibitedFieldsGuard, CsrfGuard, SessionGuard, RolesGuard

(* A hit in the memory of an instance.                                       *)
LEMMA InMemoryKeeps ==
  ASSUME ThrottleInv, NEW q \in Calls, NEW i \in Instances, NEW passes \in BOOLEAN,
         InMemory(q, i, passes), UNCHANGED <<up, window, blocked>>, mishaps' \in 0..MaxFaults
  PROVE  ThrottleInv'
<1> DEFINE hits == OneMore(memory[i])
<1>1. memory \in [Instances -> Counts] /\ i \in Places /\ admitted[i] <= memory[i]
  BY DEF ThrottleInv, ThrottleTypeOK, CountedFirst, Places
<1>2. Counted(i, hits) /\ memory' = [memory EXCEPT ![i] = hits]
  BY DEF InMemory
<1>3. /\ admitted' \in [Places -> 0..Limit + 3]
      /\ admitted'[i] <= hits /\ admitted'[i] <= Limit
      /\ \A p \in Places \ {i} : admitted'[p] = admitted[p]
  <2> HIDE DEF hits
  <2>1. memory[i] \in Counts
    BY <1>1
  <2>2. hits = OneMore(memory[i])
    BY DEF hits
  <2> QED
    BY <1>1, <1>2, <2>1, <2>2, CountedKeeps
<1>4. hits \in Counts
  BY <1>1, OneMoreCounts
<1>5. memory' \in [Instances -> Counts]
  BY <1>1, <1>2, <1>4
<1>6. call' \in [Calls -> ThrottleCall]
  <2>1. (IF OverLimit(hits) THEN Idle ELSE Through([Idle EXCEPT !.on = i], passes)) \in ThrottleCall
    BY RequestForms
  <2>2. call' = [call EXCEPT ![q] = IF OverLimit(hits) THEN Idle
                                    ELSE Through([Idle EXCEPT !.on = i], passes)]
    BY DEF InMemory
  <2> QED
    BY <2>1, <2>2, CallTyped
<1>7. ThrottleTypeOK'
  BY <1>3, <1>5, <1>6 DEF ThrottleInv, ThrottleTypeOK, ThrottleCall, Trips
<1>8. CountedFirst'
  <2>1. "redis" \in Places /\ "redis" # i
    BY ThrottleAssumption DEF Places
  <2>2. \A j \in Instances : admitted'[j] <= memory'[j]
    BY <1>1, <1>2, <1>3 DEF ThrottleInv, CountedFirst, Places
  <2> QED
    BY <1>3, <2>1, <2>2 DEF ThrottleInv, CountedFirst
<1> QED
  BY <1>6, <1>7, <1>8 DEF ThrottleInv

(* The counts and the admissions stand still: only requests and the block    *)
(* change.                                                                   *)
LEMMA OthersKeep ==
  ASSUME ThrottleInv, call' \in [Calls -> ThrottleCall], up' \in BOOLEAN, blocked' \in BOOLEAN,
         mishaps' \in 0..MaxFaults, UNCHANGED <<window, memory, admitted>>
  PROVE  ThrottleInv'
  BY DEF ThrottleInv, ThrottleTypeOK, CountedFirst, ThrottleCall, Trips

(* A hit in Redis.                                                           *)
LEMMA HitKeeps ==
  ASSUME ThrottleInv, NEW q \in Calls, NEW passes \in BOOLEAN, Hit(q, passes)
  PROVE  ThrottleInv'
<1> DEFINE hits == OneMore(window.hits)
<1>1. /\ window \in [hits : Counts, expires : BOOLEAN]
      /\ "redis" \in Places /\ admitted["redis"] <= window.hits
  BY DEF ThrottleInv, ThrottleTypeOK, CountedFirst, Places
<1>2. hits \in Counts
  BY <1>1, OneMoreCounts
<1>3. Counted("redis", hits) /\ window' = [window EXCEPT !.hits = hits]
  BY DEF Hit
<1>4. /\ admitted' \in [Places -> 0..Limit + 3]
      /\ admitted'["redis"] <= hits /\ admitted'["redis"] <= Limit
      /\ \A p \in Places \ {"redis"} : admitted'[p] = admitted[p]
  <2> HIDE DEF hits
  <2>1. window.hits \in Counts
    BY <1>1
  <2>2. hits = OneMore(window.hits)
    BY DEF hits
  <2> QED
    BY <1>1, <1>3, <2>1, <2>2, CountedKeeps
<1>5. call' \in [Calls -> ThrottleCall]
  <2> DEFINE c == IF NeedsLife(hits) THEN [call[q] EXCEPT !.at = "pexpire", !.hits = hits]
                  ELSE Counting(call[q], hits, passes)
  <2>1. call[q] \in ThrottleCall /\ call[q].at \in Trips
    BY DEF ThrottleInv, Hit, Trips
  <2>2. [call[q] EXCEPT !.at = "pexpire", !.hits = hits] \in ThrottleCall
    BY <1>2, <2>1 DEF ThrottleCall, Trips
  <2>3. Counting(call[q], hits, passes) \in ThrottleCall
    BY <1>2, <2>1, RequestForms
  <2>4. c \in ThrottleCall
    BY <2>2, <2>3
  <2>5. call' = [call EXCEPT ![q] = c]
    BY DEF Hit
  <2> QED
    BY <2>4, <2>5, CallTyped
<1>6. ThrottleTypeOK'
  BY <1>1, <1>2, <1>3, <1>4, <1>5 DEF ThrottleInv, ThrottleTypeOK, Hit, ThrottleCall, Trips
<1>7. CountedFirst'
  <2>1. \A i \in Instances : i # "redis" /\ i \in Places
    BY ThrottleAssumption DEF Places
  <2> QED
    BY <1>1, <1>3, <1>4, <2>1 DEF ThrottleInv, CountedFirst, Hit
<1> QED
  BY <1>5, <1>6, <1>7 DEF ThrottleInv

(* A key of Redis ends, with what was admitted under it.                     *)
LEMMA WindowEndKeeps ==
  ASSUME ThrottleInv, window' = NoWindow, admitted' = [admitted EXCEPT !["redis"] = 0],
         UNCHANGED <<memory, call>>, up' \in BOOLEAN, blocked' \in BOOLEAN,
         mishaps' \in 0..MaxFaults
  PROVE  ThrottleInv'
<1>1. 0 \in Counts /\ 0 \in 0..Limit + 3 /\ 0 <= Limit
  BY ThrottleAssumption DEF Counts
<1>2. /\ admitted \in [Places -> 0..Limit + 3] /\ "redis" \in Places
      /\ \A i \in Instances : i # "redis" /\ i \in Places
  BY ThrottleAssumption DEF ThrottleInv, ThrottleTypeOK, Places
<1>3. window' \in [hits : Counts, expires : BOOLEAN] /\ window'.hits = 0
  BY <1>1 DEF NoWindow
<1>4. admitted' \in [Places -> 0..Limit + 3]
  BY <1>1, <1>2
<1>5. ThrottleTypeOK'
  BY <1>3, <1>4 DEF ThrottleInv, ThrottleTypeOK
<1>6. CountedFirst'
  BY <1>1, <1>2, <1>3 DEF ThrottleInv, CountedFirst
<1> QED
  BY <1>5, <1>6 DEF ThrottleInv

(* The counter of an instance ends, with what was admitted under it.         *)
LEMMA MemoryEndKeeps ==
  ASSUME ThrottleInv, NEW i \in Instances, memory' = [memory EXCEPT ![i] = 0],
         admitted' = [admitted EXCEPT ![i] = 0], call' \in [Calls -> ThrottleCall],
         UNCHANGED <<up, window, blocked>>, mishaps' \in 0..MaxFaults
  PROVE  ThrottleInv'
<1>1. 0 \in Counts /\ 0 \in 0..Limit + 3 /\ 0 <= Limit
  BY ThrottleAssumption DEF Counts
<1>2. /\ admitted \in [Places -> 0..Limit + 3] /\ memory \in [Instances -> Counts]
      /\ "redis" \in Places /\ \A j \in Instances : j # "redis" /\ j \in Places
  BY ThrottleAssumption DEF ThrottleInv, ThrottleTypeOK, Places
<1>3. memory' \in [Instances -> Counts] /\ admitted' \in [Places -> 0..Limit + 3]
  BY <1>1, <1>2
<1>4. ThrottleTypeOK'
  BY <1>3 DEF ThrottleInv, ThrottleTypeOK, ThrottleCall, Trips
<1>5. CountedFirst'
  BY <1>1, <1>2 DEF ThrottleInv, CountedFirst
<1> QED
  BY <1>4, <1>5 DEF ThrottleInv

(* The invariant is inductive.                                               *)
LEMMA ThrottleNextKeeps ==
  ASSUME ThrottleInv, [ThrottleNext]_throttle
  PROVE  ThrottleInv'
<1>t. /\ up \in BOOLEAN /\ blocked \in BOOLEAN /\ mishaps \in 0..MaxFaults
      /\ call \in [Calls -> ThrottleCall]
  BY DEF ThrottleInv, ThrottleTypeOK
<1>m. mishaps < MaxFaults => mishaps + 1 \in 0..MaxFaults
  BY <1>t, ThrottleAssumption
<1>c. ASSUME NEW q \in Calls PROVE call[q] \in ThrottleCall
  BY <1>t
<1>1. ASSUME NEW q \in Calls, NEW i \in Instances, NEW passes \in Verdicts, Arrive(q, i, passes)
      PROVE  ThrottleInv'
  <2>1. passes \in BOOLEAN
    BY VerdictsAreBoolean
  <2>2. CASE up
    <3>1. [at |-> "pttl", on |-> i, hits |-> 0] \in ThrottleCall
      <4>1. 0 \in Counts
        BY ThrottleAssumption DEF Counts
      <4> QED
        BY <4>1 DEF ThrottleCall, Trips
    <3>2. call' = [call EXCEPT ![q] = [at |-> "pttl", on |-> i, hits |-> 0]]
      BY <1>1, <2>2 DEF Arrive
    <3>3. call' \in [Calls -> ThrottleCall]
      BY <3>1, <3>2, CallTyped
    <3> QED
      BY <1>1, <1>t, <2>2, <3>3, OthersKeep DEF Arrive
  <2>3. CASE ~ up
    BY <1>1, <1>t, <2>1, <2>3, InMemoryKeeps DEF Arrive
  <2> QED
    BY <2>2, <2>3, <1>t
<1>2. ASSUME NEW q \in Calls, LookAtBlock(q) PROVE ThrottleInv'
  <2>1. Idle \in ThrottleCall /\ [call[q] EXCEPT !.at = "incr"] \in ThrottleCall
    BY <1>2, <1>c, RequestForms DEF LookAtBlock, Trips
  <2>2. call' \in [Calls -> ThrottleCall]
    <3>1. CASE blocked
      BY <1>2, <2>1, <3>1, CallTyped DEF LookAtBlock
    <3>2. CASE ~ blocked
      <4>1. call' = [call EXCEPT ![q] = [call[q] EXCEPT !.at = "incr"]]
        BY <1>2, <3>2 DEF LookAtBlock, Goes
      <4> QED
        BY <2>1, <4>1, CallTyped
    <3> QED
      BY <3>1, <3>2
  <2> QED
    BY <1>2, <1>t, <2>2, OthersKeep DEF LookAtBlock
<1>3. ASSUME NEW q \in Calls, NEW passes \in Verdicts, Hit(q, passes) PROVE ThrottleInv'
  BY <1>3, VerdictsAreBoolean, HitKeeps
<1>4. ASSUME NEW q \in Calls, NEW passes \in Verdicts, GiveLife(q, passes) PROVE ThrottleInv'
  <2>1. call[q].hits \in Counts /\ 0 \in Counts /\ passes \in BOOLEAN
    BY <1>c, ThrottleAssumption, VerdictsAreBoolean DEF ThrottleCall, Counts
  <2>2. [Counting(call[q], call[q].hits, passes) EXCEPT !.hits = 0] \in ThrottleCall
    BY <1>4, <1>c, <2>1, RequestForms DEF GiveLife, Trips
  <2>3. call' = [call EXCEPT ![q] = [Counting(call[q], call[q].hits, passes) EXCEPT !.hits = 0]]
    BY <1>4 DEF GiveLife
  <2>4. call' \in [Calls -> ThrottleCall]
    BY <2>2, <2>3, CallTyped
  <2>5. /\ window' \in [hits : Counts, expires : BOOLEAN] /\ window'.hits = window.hits
        /\ UNCHANGED <<up, blocked, memory, admitted, mishaps>>
    <3>1. window \in [hits : Counts, expires : BOOLEAN]
      BY DEF ThrottleInv, ThrottleTypeOK
    <3>2. window' = [window EXCEPT !.expires = (window.expires \/ window.hits > 0)]
      BY <1>4 DEF GiveLife
    <3>3. (window.expires \/ window.hits > 0) \in BOOLEAN
      OBVIOUS
    <3> QED
      BY <1>4, <3>1, <3>2, <3>3 DEF GiveLife
  <2> QED
    BY <2>4, <2>5 DEF ThrottleInv, ThrottleTypeOK, CountedFirst, ThrottleCall, Trips
<1>5. ASSUME NEW q \in Calls, SetBlock(q) PROVE ThrottleInv'
  <2>1. call' \in [Calls -> ThrottleCall]
    BY <1>5, RequestForms, CallTyped DEF SetBlock
  <2> QED
    BY <1>5, <1>t, <2>1, OthersKeep DEF SetBlock
<1>6. ASSUME NEW q \in Calls, NEW passes \in Verdicts, FallBack(q, passes) PROVE ThrottleInv'
  <2>1. passes \in BOOLEAN
    BY VerdictsAreBoolean
  <2>2. mishaps' \in 0..MaxFaults
    BY <1>6, <1>t, <1>m DEF FallBack
  <2>3. call[q].on \in Instances
    BY <1>6, <1>c DEF FallBack, ThrottleCall, Trips
  <2> QED
    BY <1>6, <2>1, <2>2, <2>3, InMemoryKeeps DEF FallBack
<1>7. ASSUME NEW q \in Calls, Handled(q) PROVE ThrottleInv'
  <2>1. call' \in [Calls -> ThrottleCall]
    BY <1>7, RequestForms, CallTyped DEF Handled
  <2> QED
    BY <1>7, <1>t, <2>1, OthersKeep DEF Handled
<1>8. CASE WindowEnds
  BY <1>8, <1>t, WindowEndKeeps DEF WindowEnds
<1>9. CASE BlockEnds
  BY <1>9, <1>t, OthersKeep DEF BlockEnds
<1>10. CASE RedisLost
  <2>1. up' \in BOOLEAN /\ mishaps' \in 0..MaxFaults /\ UNCHANGED <<memory, call>>
    BY <1>10, <1>m DEF RedisLost
  <2>2. CASE UNCHANGED <<window, blocked, admitted>>
    BY <1>t, <2>1, <2>2, OthersKeep
  <2>3. CASE window' = NoWindow /\ blocked' = FALSE /\ admitted' = [admitted EXCEPT !["redis"] = 0]
    BY <2>1, <2>3, WindowEndKeeps
  <2> QED
    BY <1>10, <2>2, <2>3 DEF RedisLost
<1>11. CASE RedisBack
  BY <1>11, <1>t, OthersKeep DEF RedisBack
<1>12. ASSUME NEW i \in Instances, MemoryEnds(i) PROVE ThrottleInv'
  BY <1>12, <1>t, MemoryEndKeeps DEF MemoryEnds
<1>13. ASSUME NEW i \in Instances, Restart(i) PROVE ThrottleInv'
  <2>1. call' \in [Calls -> ThrottleCall]
    BY <1>13, <1>t, RequestForms DEF Restart
  <2> QED
    BY <1>13, <1>m, <2>1, MemoryEndKeeps DEF Restart
<1>14. CASE UNCHANGED throttle
  BY <1>14 DEF throttle, ThrottleInv, ThrottleTypeOK, CountedFirst
<1> QED
  BY <1>1, <1>2, <1>3, <1>4, <1>5, <1>6, <1>7, <1>8, <1>9, <1>10, <1>11, <1>12, <1>13, <1>14
     DEF ThrottleNext, Proceed, Comes

-----------------------------------------------------------------------------
(* The theorems.                                                             *)

\* The throttle's state is well typed, whatever fails: its counts stay within
\* their range on every instance and in Redis.
THEOREM ThrottleTypeCorrect == ThrottleSpec => []ThrottleTypeOK
<1>1. ThrottleInv => ThrottleTypeOK
  BY DEF ThrottleInv
<1> QED
  BY ThrottleBegun, ThrottleNextKeeps, <1>1, PTL DEF ThrottleSpec

\* However the round trips of any number of requests overlap, fail or are lost
\* with the process, no window admits more than Limit, in Redis or in memory.
THEOREM LimitHolds == ThrottleSpec => []AdmittedWithinLimit
<1>1. ThrottleInv => AdmittedWithinLimit
  BY DEF ThrottleInv, CountedFirst, AdmittedWithinLimit
<1> QED
  BY ThrottleBegun, ThrottleNextKeeps, <1>1, PTL DEF ThrottleSpec

-----------------------------------------------------------------------------
(* The Wall as it is read: the shuffle.                                      *)

(* What holds of 0, and of k + 1 whenever it holds of k, holds up to n: said *)
(* of the set of the numbers of which it holds.                              *)
LEMMA UpTo ==
  ASSUME NEW n \in Nat, NEW T \in SUBSET (0..n), 0 \in T,
         \A k \in 0..n - 1 : k \in T => k + 1 \in T
  PROVE  T = 0..n
<1> SUFFICES ASSUME (0..n) \ T # {} PROVE FALSE
  OBVIOUS
<1> DEFINE R == OpToRel(<, Nat)
<1>1. (0..n) \ T \subseteq Nat
  OBVIOUS
<1>2. PICK m \in (0..n) \ T : \A k \in (0..n) \ T : ~(<<k, m>> \in R)
  <2> HIDE DEF R
  <2>1. IsWellFoundedOn(R, Nat)
    BY NatLessThanWellFounded, Zenon DEF R
  <2> QED
    BY <1>1, <2>1, WFMin
<1> HIDE DEF R
<1>3. m \in 0..n /\ m \notin T /\ m # 0
  BY <1>2
<1>4. m - 1 \in 0..n - 1 /\ m - 1 \in 0..n /\ (m - 1) + 1 = m
  BY <1>3
<1>5. m - 1 \notin T
  BY <1>3, <1>4
<1>6. <<m - 1, m>> \in R
  BY <1>4 DEF OpToRel, R
<1> QED
  BY <1>2, <1>4, <1>5, <1>6

(* Two elements of an order change places: it stays an order.                *)
LEMMA Swapped ==
  ASSUME NEW n \in Nat, NEW R, NEW o \in Bijection(1..n, R), NEW i \in 1..n, NEW j \in 1..n
  PROVE  /\ Swap(o, i, j) \in Bijection(1..n, R)
         /\ Swap(o, i, j)[i] = o[j] /\ Swap(o, i, j)[j] = o[i]
         /\ \A k \in 1..n : k # i /\ k # j => Swap(o, i, j)[k] = o[k]
<1>1. /\ o \in [1..n -> R] /\ \A a, b \in 1..n : o[a] = o[b] => a = b
      /\ \A t \in R : \E s \in 1..n : o[s] = t
  BY DEF Bijection, Injection, Surjection, IsInjective
<1> DEFINE w == Swap(o, i, j)
<1>2. /\ w \in [1..n -> R] /\ w[i] = o[j] /\ w[j] = o[i]
      /\ \A k \in 1..n : k # i /\ k # j => w[k] = o[k]
  BY <1>1 DEF Swap
<1> HIDE DEF w
<1>3. \A a, b \in 1..n : w[a] = w[b] => a = b
  BY <1>1, <1>2
<1>4. ASSUME NEW t \in R PROVE \E s \in 1..n : w[s] = t
  <2>1. PICK s \in 1..n : o[s] = t
    BY <1>1
  <2> QED
    BY <1>2, <2>1
<1>5. w \in Bijection(1..n, R)
  BY <1>2, <1>3, <1>4 DEF Bijection, Injection, Surjection, IsInjective
<1> QED
  BY <1>2, <1>5 DEF w

\* The first m rounds over items with the places of p: f[k] is the list after k.
Shuffling(items, p, m, n, f) ==
  /\ f \in [0..m -> Bijection(1..n, Range(items))]
  /\ f[0] = items
  /\ \A k \in 1..m : f[k] = Swap(f[k - 1], n - k + 1, p[k] + 1)

\* A list without repetition of which n elements are shuffled.
Distinct(items, n) == n \in Nat /\ Len(items) = n /\ items \in Bijection(1..n, Range(items))

(* The rounds of a shuffle, and what comes of them.                          *)
LEMMA Arranged ==
  ASSUME NEW items, NEW n, Distinct(items, n), NEW p \in Choices(n)
  PROVE  \E f : Shuffling(items, p, Rounds(n), n, f) /\ Arrange(items, p) = f[Rounds(n)]
<1> DEFINE r == Rounds(n)
           B == Bijection(1..n, Range(items))
           step(f, k) == IF k = 0 THEN items ELSE Swap(f[k - 1], n - k + 1, p[k] + 1)
           lists == CHOOSE f : f = [k \in 0..r |-> step(f, k)]
<1>1. /\ n \in Nat /\ r \in Nat /\ r <= n /\ items \in B /\ Len(items) = n
      /\ \A k \in 1..r : /\ k \in Nat /\ p[k] \in Nat /\ n - k + 1 \in 1..n /\ p[k] + 1 \in 1..n
  BY DEF Distinct, Choices, Rounds
<1>2. ASSUME NEW f, NEW k \in 1..r, f[k - 1] \in B PROVE Swap(f[k - 1], n - k + 1, p[k] + 1) \in B
  <2>1. n \in Nat /\ n - k + 1 \in 1..n /\ p[k] + 1 \in 1..n
    BY <1>1
  <2> QED
    BY <1>2, <2>1, Swapped
<1> DEFINE T == {m \in 0..r : \E f : Shuffling(items, p, m, n, f)}
<1>3. 0 \in T
  <2> DEFINE f == [k \in 0..0 |-> items]
  <2>1. f \in [0..0 -> B] /\ f[0] = items /\ 1..0 = {}
    BY <1>1
  <2> HIDE DEF f
  <2>2. Shuffling(items, p, 0, n, f)
    BY <2>1 DEF Shuffling
  <2> QED
    BY <1>1, <2>2
<1>4. ASSUME NEW m \in 0..r - 1, m \in T PROVE m + 1 \in T
  <2>1. PICK f : Shuffling(items, p, m, n, f)
    BY <1>4
  <2> DEFINE g == [k \in 0..m + 1 |-> IF k = m + 1 THEN Swap(f[m], n - (m + 1) + 1, p[m + 1] + 1) ELSE f[k]]
  <2>2. m \in Nat /\ m + 1 \in 1..r /\ (m + 1) - 1 = m /\ \A k \in 0..m + 1 : k # m + 1 => k \in 0..m
    BY <1>1
  <2>3. Swap(f[m], n - (m + 1) + 1, p[m + 1] + 1) \in B
    BY <1>2, <2>1, <2>2 DEF Shuffling
  <2>4. g \in [0..m + 1 -> B]
    BY <2>1, <2>2, <2>3 DEF Shuffling
  <2>5. g[0] = items
    BY <2>1, <2>2 DEF Shuffling
  <2>6. ASSUME NEW k \in 1..m + 1 PROVE g[k] = Swap(g[k - 1], n - k + 1, p[k] + 1)
    <3>1. k - 1 \in 0..m /\ k - 1 # m + 1 /\ k - 1 \in 0..m + 1 /\ k \in 0..m + 1
      BY <2>2
    <3>2. g[k - 1] = f[k - 1]
      BY <3>1
    <3>3. CASE k = m + 1
      BY <2>2, <3>1, <3>2, <3>3
    <3>4. CASE k # m + 1
      <4>1. k \in 1..m
        BY <2>2, <3>4
      <4> QED
        BY <2>1, <3>1, <3>2, <3>4, <4>1 DEF Shuffling
    <3> QED
      BY <3>3, <3>4
  <2> HIDE DEF g
  <2>7. Shuffling(items, p, m + 1, n, g)
    BY <2>4, <2>5, <2>6 DEF Shuffling
  <2> QED
    BY <1>1, <2>2, <2>7
<1>5. r \in T
  <2>1. T \in SUBSET (0..r)
    OBVIOUS
  <2> HIDE DEF T
  <2>2. T = 0..r
    BY <1>1, <1>3, <1>4, <2>1, UpTo
  <2> QED
    BY <1>1, <2>2
<1>6. PICK f : Shuffling(items, p, r, n, f)
  BY <1>5
<1>7. f = [k \in 0..r |-> step(f, k)]
  <2>1. f \in [0..r -> B]
    BY <1>6 DEF Shuffling
  <2>2. \A k \in 0..r : f[k] = step(f, k)
    <3> SUFFICES ASSUME NEW k \in 0..r PROVE f[k] = step(f, k)
      OBVIOUS
    <3>1. k = 0 \/ k \in 1..r
      BY <1>1
    <3> QED
      BY <1>6, <3>1 DEF Shuffling
  <2> QED
    BY <2>1, <2>2
<1>8. lists = [k \in 0..r |-> step(lists, k)]
  <2> DEFINE P(g) == g = [k \in 0..r |-> step(g, k)]
  <2>1. \E g : P(g)
    BY <1>7
  <2>2. P(CHOOSE g : P(g))
    <3> HIDE DEF P
    <3> QED
      BY <2>1
  <2> QED
    BY <2>2
<1>9. Arrange(items, p) = lists[r]
  BY <1>1 DEF Arrange
<1> HIDE DEF lists
<1>10. lists[0] = items /\ \A k \in 1..r : lists[k] = Swap(lists[k - 1], n - k + 1, p[k] + 1)
  <2>1. \A k \in 0..r : lists[k] = step(lists, k)
    BY <1>8
  <2>2. 0 \in 0..r /\ \A k \in 1..r : k \in 0..r /\ k # 0
    BY <1>1
  <2> QED
    BY <2>1, <2>2
<1>11. \A k \in 0..r : lists[k] \in B
  <2> DEFINE S == {k \in 0..r : lists[k] \in B}
  <2>1. 0 \in S
    BY <1>1, <1>10
  <2>2. ASSUME NEW k \in 0..r - 1, k \in S PROVE k + 1 \in S
    <3>1. k + 1 \in 1..r /\ (k + 1) - 1 = k /\ k + 1 \in 0..r
      BY <1>1
    <3>2. lists[(k + 1) - 1] \in B
      BY <2>2, <3>1
    <3>3. Swap(lists[(k + 1) - 1], n - (k + 1) + 1, p[k + 1] + 1) \in B
      BY <1>2, <3>1, <3>2
    <3> QED
      BY <1>10, <3>1, <3>3
  <2>3. S \in SUBSET (0..r)
    OBVIOUS
  <2>4. S = 0..r
    <3> HIDE DEF S
    <3> QED
      BY <1>1, <2>1, <2>2, <2>3, UpTo
  <2> QED
    BY <2>4
<1>12. lists \in [0..r -> B]
  BY <1>8, <1>11
<1>13. Shuffling(items, p, r, n, lists)
  BY <1>10, <1>12 DEF Shuffling
<1> QED
  BY <1>9, <1>13

(* A round settles the last place that is left: what was chosen for it stays *)
(* there, whatever the rounds after it do.                                   *)
LEMMA StaysSettled ==
  ASSUME NEW items, NEW n, Distinct(items, n), NEW m \in 0..Rounds(n),
         NEW p, \A k \in 1..m : p[k] \in 0..n - k,
         NEW f, Shuffling(items, p, m, n, f), NEW k \in 1..m
  PROVE  f[m][n - k + 1] = f[k - 1][p[k] + 1]
<1> DEFINE B == Bijection(1..n, Range(items))
<1>1. n \in Nat /\ n >= 1 /\ m \in Nat /\ m <= n - 1 /\ k \in Nat /\ k >= 1 /\ k <= m
  BY DEF Distinct, Rounds
<1>2. \A j \in 0..m : f[j] \in B
  BY DEF Shuffling
<1> HIDE DEF B
<1>3. ASSUME NEW j \in 1..m
      PROVE  /\ j - 1 \in 0..m /\ n - j + 1 \in 1..n /\ p[j] + 1 \in 1..n /\ p[j] + 1 <= n - j + 1
             /\ f[j] = Swap(f[j - 1], n - j + 1, p[j] + 1)
  BY <1>1 DEF Shuffling
<1>4. ASSUME NEW j \in 1..m
      PROVE  /\ f[j][n - j + 1] = f[j - 1][p[j] + 1]
             /\ \A i \in 1..n : i > n - j + 1 => f[j][i] = f[j - 1][i]
  <2>1. f[j - 1] \in Bijection(1..n, Range(items))
    BY <1>2, <1>3 DEF B
  <2>2. /\ f[j][n - j + 1] = f[j - 1][p[j] + 1]
        /\ \A i \in 1..n : i # n - j + 1 /\ i # p[j] + 1 => f[j][i] = f[j - 1][i]
    <3>1. n \in Nat /\ n - j + 1 \in 1..n /\ p[j] + 1 \in 1..n
      BY <1>1, <1>3
    <3>2. f[j] = Swap(f[j - 1], n - j + 1, p[j] + 1)
      BY <1>3
    <3>3. PICK w \in Bijection(1..n, Range(items)), a \in 1..n, b \in 1..n :
            w = f[j - 1] /\ a = n - j + 1 /\ b = p[j] + 1
      BY <2>1, <3>1
    <3>4. /\ Swap(w, a, b)[a] = w[b]
          /\ \A i \in 1..n : i # a /\ i # b => Swap(w, a, b)[i] = w[i]
      BY <3>1, Swapped
    <3> QED
      BY <3>2, <3>3, <3>4
  <2>3. \A i \in 1..n : i > n - j + 1 => i # n - j + 1 /\ i # p[j] + 1
    BY <1>1, <1>3
  <2> QED
    BY <2>2, <2>3
<1> DEFINE T == {j \in 0..m - k : f[k + j][n - k + 1] = f[k][n - k + 1]}
<1>5. 0 \in T
  BY <1>1
<1>6. ASSUME NEW j \in 0..(m - k) - 1, j \in T PROVE j + 1 \in T
  <2>1. /\ k + (j + 1) \in 1..m /\ (k + (j + 1)) - 1 = k + j /\ j + 1 \in 0..m - k
        /\ n - k + 1 \in 1..n /\ n - k + 1 > n - (k + (j + 1)) + 1
    BY <1>1
  <2>2. f[k + (j + 1)][n - k + 1] = f[k + j][n - k + 1]
    BY <1>4, <2>1
  <2> QED
    BY <1>6, <2>1, <2>2
<1>7. T \in SUBSET (0..m - k) /\ m - k \in Nat
  BY <1>1
<1>8. m - k \in T
  <2> HIDE DEF T
  <2>1. T = 0..m - k
    BY <1>5, <1>6, <1>7, UpTo
  <2> QED
    BY <1>7, <2>1
<1>9. f[k + (m - k)][n - k + 1] = f[k][n - k + 1] /\ k + (m - k) = m
  BY <1>1, <1>8
<1> QED
  BY <1>4, <1>9

(* The same choices lead to the same list.                                   *)
LEMMA SameRounds ==
  ASSUME NEW items, NEW n, NEW m \in Nat, NEW p, NEW q, \A k \in 1..m : p[k] = q[k],
         NEW f, NEW g, Shuffling(items, p, m, n, f), Shuffling(items, q, m, n, g)
  PROVE  f[m] = g[m]
<1> DEFINE T == {k \in 0..m : f[k] = g[k]}
<1>1. 0 \in T
  BY DEF Shuffling
<1>2. ASSUME NEW k \in 0..m - 1, k \in T PROVE k + 1 \in T
  <2>1. k + 1 \in 1..m /\ k + 1 \in 0..m /\ (k + 1) - 1 = k
    OBVIOUS
  <2>2. /\ f[k + 1] = Swap(f[(k + 1) - 1], n - (k + 1) + 1, p[k + 1] + 1)
        /\ g[k + 1] = Swap(g[(k + 1) - 1], n - (k + 1) + 1, q[k + 1] + 1)
    BY <2>1 DEF Shuffling
  <2>3. f[(k + 1) - 1] = g[(k + 1) - 1] /\ p[k + 1] = q[k + 1]
    BY <1>2, <2>1
  <2> QED
    BY <2>1, <2>2, <2>3
<1>3. T \in SUBSET (0..m)
  OBVIOUS
<1> HIDE DEF T
<1>4. T = 0..m
  BY <1>1, <1>2, <1>3, UpTo
<1> QED
  BY <1>4 DEF T

(* No order comes of two ways to choose the places.                          *)
LEMMA NoOrderTwice ==
  ASSUME NEW items, NEW n, Distinct(items, n), NEW p \in Choices(n), NEW q \in Choices(n),
         Arrange(items, p) = Arrange(items, q)
  PROVE  p = q
<1> DEFINE r == Rounds(n)
<1>1. PICK f : Shuffling(items, p, r, n, f) /\ Arrange(items, p) = f[r]
  BY Arranged
<1>2. PICK g : Shuffling(items, q, r, n, g) /\ Arrange(items, q) = g[r]
  BY Arranged
<1>3. /\ n \in Nat /\ r \in Nat /\ r \in 0..Rounds(n)
      /\ p \in [1..r -> 0..n - 1] /\ q \in [1..r -> 0..n - 1]
      /\ \A k \in 1..r : p[k] \in 0..n - k /\ q[k] \in 0..n - k /\ n - k + 1 <= n
  BY DEF Distinct, Choices, Rounds
<1>4. f[r] = g[r]
  BY <1>1, <1>2
<1> HIDE DEF r
<1>5. ASSUME NEW k \in 1..r
      PROVE  f[r][n - k + 1] = f[k - 1][p[k] + 1] /\ g[r][n - k + 1] = g[k - 1][q[k] + 1]
  <2>1. \A j \in 1..r : p[j] \in 0..n - j
    BY <1>3
  <2>2. \A j \in 1..r : q[j] \in 0..n - j
    BY <1>3
  <2>3. r \in 0..Rounds(n)
    BY <1>3
  <2>4. Shuffling(items, p, r, n, f) /\ Shuffling(items, q, r, n, g)
    BY <1>1, <1>2
  <2>5. f[r][n - k + 1] = f[k - 1][p[k] + 1]
    BY <2>1, <2>3, <2>4, StaysSettled
  <2>6. g[r][n - k + 1] = g[k - 1][q[k] + 1]
    BY <2>2, <2>3, <2>4, StaysSettled
  <2> QED
    BY <2>5, <2>6
<1> DEFINE T == {k \in 0..r : f[k] = g[k] /\ \A j \in 1..k : p[j] = q[j]}
<1>6. 0 \in T
  <2>1. 0 \in 0..r /\ 1..0 = {}
    BY <1>3
  <2> QED
    BY <1>1, <1>2, <2>1 DEF Shuffling
<1>7. ASSUME NEW k \in 0..r - 1, k \in T PROVE k + 1 \in T
  <2>1. k + 1 \in 1..r /\ k + 1 \in 0..r /\ (k + 1) - 1 = k /\ k \in 0..r /\ k \in Nat
    BY <1>3
  <2>2. f[r][n - (k + 1) + 1] = f[(k + 1) - 1][p[k + 1] + 1]
    BY <1>5, <2>1
  <2>3. g[r][n - (k + 1) + 1] = g[(k + 1) - 1][q[k + 1] + 1]
    BY <1>5, <2>1
  <2>4. f[k] = g[k]
    BY <1>7
  <2>5. f[k][p[k + 1] + 1] = f[k][q[k + 1] + 1]
    BY <1>4, <2>1, <2>2, <2>3, <2>4
  <2>6. p[k + 1] + 1 \in 1..n /\ q[k + 1] + 1 \in 1..n /\ p[k + 1] \in Nat /\ q[k + 1] \in Nat
    <3>1. p[k + 1] \in 0..n - (k + 1) /\ q[k + 1] \in 0..n - (k + 1)
      BY <1>3, <2>1
    <3> QED
      BY <1>3, <2>1, <3>1
  <2>7. f[k] \in Bijection(1..n, Range(items))
    BY <1>1, <2>1 DEF Shuffling
  <2>8. p[k + 1] + 1 = q[k + 1] + 1
    BY <2>5, <2>6, <2>7 DEF Bijection, Injection, IsInjective
  <2>9. p[k + 1] = q[k + 1]
    BY <2>6, <2>8
  <2>10. f[k + 1] = g[k + 1]
    <3>1. /\ f[k + 1] = Swap(f[(k + 1) - 1], n - (k + 1) + 1, p[k + 1] + 1)
          /\ g[k + 1] = Swap(g[(k + 1) - 1], n - (k + 1) + 1, q[k + 1] + 1)
      BY <1>1, <1>2, <2>1 DEF Shuffling
    <3> QED
      BY <2>1, <2>4, <2>9, <3>1
  <2>11. \A j \in 1..k + 1 : p[j] = q[j]
    <3>1. \A j \in 1..k + 1 : j \in 1..k \/ j = k + 1
      BY <2>1
    <3>2. \A j \in 1..k : p[j] = q[j]
      BY <1>7
    <3> QED
      BY <2>9, <3>1, <3>2
  <2> QED
    BY <2>1, <2>10, <2>11
<1>8. T \in SUBSET (0..r)
  OBVIOUS
<1>9. r \in T
  <2> HIDE DEF T
  <2>1. T = 0..r
    BY <1>3, <1>6, <1>7, <1>8, UpTo
  <2> QED
    BY <1>3, <2>1
<1> QED
  BY <1>3, <1>9

(* Every order comes of one: round by round, the element that is to come     *)
(* last is still among those that are left.                                  *)
LEMMA EveryOrder ==
  ASSUME NEW items, NEW n, Distinct(items, n), NEW o \in Bijection(1..n, Range(items))
  PROVE  \E p \in Choices(n) : Arrange(items, p) = o
<1> DEFINE r == Rounds(n)
           Leads(p, f, m) == /\ p \in [1..m -> 0..n - 1] /\ \A k \in 1..m : p[k] <= n - k
                             /\ Shuffling(items, p, m, n, f)
                             /\ \A i \in 1..n : i > n - m => f[m][i] = o[i]
           T == {m \in 0..r : \E p, f : Leads(p, f, m)}
<1>1. /\ n \in Nat /\ r \in Nat /\ r <= n /\ (n # 0 => r = n - 1) /\ (n = 0 => r = 0)
      /\ items \in Bijection(1..n, Range(items))
  BY DEF Distinct, Rounds
<1>2. /\ o \in [1..n -> Range(items)] /\ \A a, b \in 1..n : o[a] = o[b] => a = b
      /\ \A a \in 1..n : o[a] \in Range(items)
      /\ \A t \in Range(items) : \E a \in 1..n : o[a] = t
  BY DEF Bijection, Injection, Surjection, IsInjective
<1>3. 0 \in T
  <2> DEFINE f == [k \in 0..0 |-> items]
             p == [k \in 1..0 |-> 0]
  <2>1. f \in [0..0 -> Bijection(1..n, Range(items))] /\ f[0] = items /\ 1..0 = {}
    BY <1>1
  <2>2. p \in [1..0 -> 0..n - 1]
    BY <2>1
  <2>3. Shuffling(items, p, 0, n, f)
    BY <2>1 DEF Shuffling
  <2>4. ~ \E i \in 1..n : i > n - 0
    BY <1>1
  <2> HIDE DEF f, p
  <2>5. Leads(p, f, 0)
    BY <2>1, <2>2, <2>3, <2>4
  <2> HIDE DEF Leads
  <2> QED
    BY <1>1, <2>5
<1>4. ASSUME NEW m \in 0..r - 1, m \in T PROVE m + 1 \in T
  <2>1. PICK p, f : Leads(p, f, m)
    BY <1>4
  <2>2. /\ m \in Nat /\ m + 1 \in 0..r /\ m + 1 <= n - 1 /\ n - m \in 1..n /\ n >= 1
        /\ n - (m + 1) + 1 = n - m /\ (m + 1) - 1 = m /\ m \in 0..m
    BY <1>1
  <2>3. f[m] \in Bijection(1..n, Range(items))
    BY <2>1, <2>2 DEF Shuffling
  <2>4. PICK x \in 1..n : f[m][x] = o[n - m]
    BY <1>2, <2>2, <2>3 DEF Bijection, Surjection
  <2>5. x <= n - m
    <3>1. SUFFICES ASSUME x > n - m PROVE FALSE
      BY <2>2
    <3>2. f[m][x] = o[x]
      BY <2>1, <3>1
    <3>3. x = n - m
      BY <1>2, <2>2, <2>4, <3>2
    <3> QED
      BY <2>2, <3>1, <3>3
  <2> DEFINE q == [k \in 1..m + 1 |-> IF k = m + 1 THEN x - 1 ELSE p[k]]
             h == Swap(f[m], n - m, x)
             g == [k \in 0..m + 1 |-> IF k = m + 1 THEN h ELSE f[k]]
  <2>6. /\ h \in Bijection(1..n, Range(items)) /\ h[n - m] = f[m][x]
        /\ \A i \in 1..n : i # n - m /\ i # x => h[i] = f[m][i]
    <3>1. n \in Nat /\ n - m \in 1..n
      BY <1>1, <2>2
    <3>2. PICK w \in Bijection(1..n, Range(items)), a \in 1..n : w = f[m] /\ a = n - m
      BY <2>3, <3>1
    <3>3. /\ Swap(w, a, x) \in Bijection(1..n, Range(items)) /\ Swap(w, a, x)[a] = w[x]
          /\ \A i \in 1..n : i # a /\ i # x => Swap(w, a, x)[i] = w[i]
      BY <3>1, Swapped
    <3> QED
      BY <3>2, <3>3
  <2>7. q \in [1..m + 1 -> 0..n - 1] /\ \A k \in 1..m + 1 : q[k] <= n - k
    <3>1. /\ x - 1 \in 0..n - 1 /\ x - 1 <= n - (m + 1)
          /\ \A k \in 1..m + 1 : k # m + 1 => k \in 1..m
      BY <1>1, <2>2, <2>5
    <3>2. \A k \in 1..m : p[k] \in 0..n - 1 /\ p[k] <= n - k
      BY <2>1
    <3> QED
      BY <3>1, <3>2
  <2>8. Shuffling(items, q, m + 1, n, g)
    <3>1. \A k \in 0..m + 1 : k # m + 1 => k \in 0..m
      BY <2>2
    <3>2. /\ f \in [0..m -> Bijection(1..n, Range(items))] /\ f[0] = items
          /\ \A k \in 1..m : f[k] = Swap(f[k - 1], n - k + 1, p[k] + 1)
      BY <2>1 DEF Shuffling
    <3>3. g \in [0..m + 1 -> Bijection(1..n, Range(items))]
      <4> HIDE DEF h
      <4> QED
        BY <2>6, <3>1, <3>2
    <3>4. g[0] = items
      BY <2>2, <3>2
    <3>5. ASSUME NEW k \in 1..m + 1 PROVE g[k] = Swap(g[k - 1], n - k + 1, q[k] + 1)
      <4>1. k - 1 \in 0..m + 1 /\ k - 1 # m + 1 /\ k \in 0..m + 1
        BY <2>2
      <4>2. g[k - 1] = f[k - 1]
        BY <4>1
      <4>3. CASE k = m + 1
        <5>1. g[k] = h /\ q[k] + 1 = x /\ n - k + 1 = n - m /\ k - 1 = m
          BY <2>2, <4>1, <4>3
        <5> QED
          BY <4>2, <5>1
      <4>4. CASE k # m + 1
        <5>1. k \in 1..m
          BY <2>2, <4>4
        <5>2. g[k] = f[k] /\ q[k] = p[k]
          BY <4>1, <4>4
        <5> QED
          BY <3>2, <4>2, <5>1, <5>2
      <4> QED
        BY <4>3, <4>4
    <3> HIDE DEF g
    <3> QED
      BY <3>3, <3>4, <3>5 DEF Shuffling
  <2>9. ASSUME NEW i \in 1..n, i > n - (m + 1) PROVE g[m + 1][i] = o[i]
    <3>1. g[m + 1] = h
      BY <2>2
    <3>2. CASE i = n - m
      BY <2>4, <2>6, <3>1, <3>2
    <3>3. CASE i # n - m
      <4>1. i > n - m /\ i # x
        <5>1. i \in Int /\ n \in Int /\ m \in Int /\ x \in Int
          BY <1>1, <2>2
        <5> QED
          BY <2>5, <2>9, <3>3, <5>1
      <4>2. f[m][i] = o[i]
        BY <2>1, <4>1
      <4> HIDE DEF h
      <4> QED
        BY <2>6, <3>1, <3>3, <4>1, <4>2
    <3> QED
      BY <3>2, <3>3
  <2> HIDE DEF q, g
  <2>10. Leads(q, g, m + 1)
    BY <2>7, <2>8, <2>9
  <2> HIDE DEF Leads
  <2> QED
    BY <2>2, <2>10
<1>5. r \in T
  <2>1. T \in SUBSET (0..r)
    OBVIOUS
  <2> HIDE DEF T
  <2>2. T = 0..r
    BY <1>1, <1>3, <1>4, <2>1, UpTo
  <2> QED
    BY <1>1, <2>2
<1>6. PICK p, f : Leads(p, f, r)
  BY <1>5
<1>7. p \in Choices(n)
  BY <1>6 DEF Choices
<1>8. f[r] = o
  <2>1. f[r] \in Bijection(1..n, Range(items))
    <3>1. r \in 0..r
      BY <1>1
    <3> QED
      BY <1>6, <3>1 DEF Shuffling
  <2>2. f[r] \in [1..n -> Range(items)] /\ \A a, b \in 1..n : f[r][a] = f[r][b] => a = b
    BY <2>1 DEF Bijection, Injection, IsInjective
  <2>3. ASSUME NEW i \in 1..n PROVE f[r][i] = o[i]
    <3>1. n >= 1 /\ r = n - 1 /\ n - r = 1
      BY <1>1
    <3>2. CASE i > 1
      BY <1>6, <3>1, <3>2
    <3>3. CASE i = 1
      <4>1. PICK y \in 1..n : o[y] = f[r][1]
        <5>1. 1 \in 1..n
          BY <3>1
        <5>2. f[r][1] \in Range(items)
          BY <2>2, <5>1
        <5> QED
          BY <1>2, <5>2
      <4>2. CASE y > 1
        <5>1. f[r][y] = o[y]
          BY <1>6, <3>1, <4>2
        <5>2. y = 1
          BY <2>2, <3>1, <4>1, <5>1
        <5> QED
          BY <4>2, <5>2
      <4>3. CASE ~(y > 1)
        <5>1. y = 1
          BY <3>1, <4>3
        <5> QED
          BY <3>3, <4>1, <5>1
      <4> QED
        BY <4>2, <4>3
    <3> QED
      BY <3>1, <3>2, <3>3
  <2>4. f[r] = [i \in 1..n |-> f[r][i]] /\ o = [i \in 1..n |-> o[i]]
    BY <1>2, <2>2
  <2> QED
    BY <2>3, <2>4
<1>9. PICK g : Shuffling(items, p, r, n, g) /\ Arrange(items, p) = g[r]
  BY <1>7, Arranged
<1>10. f[r] = g[r]
  BY <1>1, <1>6, <1>9, SameRounds
<1> QED
  BY <1>7, <1>8, <1>9, <1>10

-----------------------------------------------------------------------------
(* The draws.                                                                *)

(* Multiplying keeps the order of integers.                                  *)
LEMMA Times ==
  ASSUME NEW a \in Int, NEW b \in Int, NEW m \in Nat \ {0}
  PROVE  (a * m <= b * m <=> a <= b) /\ (a * m < b * m <=> a < b)
<1>1. ASSUME NEW c \in Int, NEW d \in Int, c <= d PROVE c * m <= d * m
  <2>1. (d - c) * m >= 0
    BY <1>1
  <2>2. (d - c) * m = d * m - c * m
    OBVIOUS
  <2>3. c * m \in Int /\ d * m \in Int
    OBVIOUS
  <2> QED
    BY <2>1, <2>2, <2>3
<1>2. ASSUME NEW c \in Int, NEW d \in Int, c < d PROVE c * m < d * m
  <2>1. (c + 1) * m <= d * m
    BY <1>1, <1>2
  <2>2. (c + 1) * m = c * m + m /\ c * m \in Int /\ d * m \in Int
    OBVIOUS
  <2> QED
    BY <2>1, <2>2
<1>3. a * m \in Int /\ b * m \in Int
  OBVIOUS
<1>4. CASE a < b
  BY <1>1, <1>2, <1>3, <1>4
<1>5. CASE a = b
  BY <1>3, <1>5
<1>6. CASE b < a
  BY <1>1, <1>2, <1>3, <1>6
<1> QED
  BY <1>4, <1>5, <1>6

(* What a quotient is.                                                       *)
LEMMA Quotient ==
  ASSUME NEW a \in Nat, NEW m \in Nat \ {0}
  PROVE  /\ a \div m \in Nat
         /\ (a \div m) * m <= a /\ a < (a \div m + 1) * m
         /\ \A q \in Nat : a \div m = q <=> q * m <= a /\ a < (q + 1) * m
<1>1. a \div m \in Nat /\ a % m \in 0..m - 1 /\ a = (m * (a \div m)) + (a % m)
  OBVIOUS
<1>2. PICK e \in Nat, f \in 0..m - 1 : e = a \div m /\ f = a % m
  BY <1>1
<1>3. /\ m * e = e * m /\ (e + 1) * m = e * m + m /\ e * m \in Nat
  BY <1>2
<1>4. e * m <= a /\ a < (e + 1) * m
  BY <1>1, <1>2, <1>3
<1>5. ASSUME NEW q \in Nat, q * m <= a, a < (q + 1) * m PROVE e = q
  <2>1. q * m \in Int /\ (q + 1) * m \in Int /\ (e + 1) * m \in Int
    OBVIOUS
  <2>2. q * m < (e + 1) * m /\ e * m < (q + 1) * m
    BY <1>3, <1>4, <1>5, <2>1
  <2>3. q < e + 1 /\ e < q + 1
    BY <2>2, Times
  <2> QED
    BY <2>3
<1> QED
  BY <1>1, <1>2, <1>4, <1>5

(* The least number that reaches a when it is taken m times.                 *)
LEMMA Reach ==
  ASSUME NEW a \in Nat, NEW m \in Nat \ {0}
  PROVE  \E c \in Nat : /\ a <= c * m /\ (c - 1) * m < a
                        /\ \A d \in Nat : a <= d * m <=> c <= d
<1>1. PICK e \in Nat : e * m <= a /\ a < (e + 1) * m
  BY Quotient
<1>2. ASSUME NEW c \in Nat, a <= c * m, (c - 1) * m < a, NEW d \in Nat
      PROVE  a <= d * m <=> c <= d
  <2>1. c * m \in Int /\ d * m \in Int /\ (c - 1) * m \in Int /\ c - 1 \in Int
    OBVIOUS
  <2>2. ASSUME c <= d PROVE a <= d * m
    <3>1. c * m <= d * m
      BY <2>2, Times
    <3> QED
      BY <1>2, <2>1, <3>1
  <2>3. ASSUME a <= d * m PROVE c <= d
    <3>1. (c - 1) * m < d * m
      BY <1>2, <2>1, <2>3
    <3>2. c - 1 < d
      BY <2>1, <3>1, Times
    <3> QED
      BY <3>2
  <2> QED
    BY <2>2, <2>3
<1>3. CASE e * m = a
  <2>1. (e - 1) * m = e * m - m /\ e * m \in Int
    OBVIOUS
  <2>2. a <= e * m /\ (e - 1) * m < a
    BY <1>3, <2>1
  <2> QED
    BY <1>2, <2>2
<1>4. CASE e * m # a
  <2>1. e * m \in Int /\ (e + 1) * m \in Int /\ (e + 1) - 1 = e /\ e + 1 \in Nat
    OBVIOUS
  <2>2. a <= (e + 1) * m /\ ((e + 1) - 1) * m < a
    BY <1>1, <1>4, <2>1
  <2> QED
    BY <1>2, <2>1, <2>2
<1> QED
  BY <1>3, <1>4

(* Of G draws, as many are scaled to one of m places as to another, but for  *)
(* one.                                                                      *)
LEMMA Spread ==
  ASSUME NEW G \in Nat \ {0}, NEW m \in Nat \ {0}, NEW q \in 0..m - 1
  PROVE  Cardinality({d \in 0..G - 1 : (d * m) \div G = q}) - G \div m \in {0, 1}
<1>1. PICK lo \in Nat : /\ q * G <= lo * m /\ (lo - 1) * m < q * G
                        /\ \A d \in Nat : q * G <= d * m <=> lo <= d
  <2>1. q * G \in Nat
    OBVIOUS
  <2> QED
    BY <2>1, Reach
<1>2. PICK hi \in Nat : /\ (q + 1) * G <= hi * m /\ (hi - 1) * m < (q + 1) * G
                        /\ \A d \in Nat : (q + 1) * G <= d * m <=> hi <= d
  <2>1. (q + 1) * G \in Nat
    OBVIOUS
  <2> QED
    BY <2>1, Reach
<1>3. /\ (q + 1) * G = q * G + G /\ q * G \in Nat /\ (q + 1) * G \in Nat
      /\ lo * m \in Int /\ hi * m \in Int
  OBVIOUS
<1>4. lo <= hi
  BY <1>1, <1>2, <1>3
<1>5. hi <= G
  <2>1. (q + 1) * G <= m * G
    BY Times
  <2>2. m * G = G * m
    OBVIOUS
  <2> QED
    BY <1>2, <2>1, <2>2
<1>6. {d \in 0..G - 1 : (d * m) \div G = q} = lo..hi - 1
  <2>1. ASSUME NEW d \in 0..G - 1 PROVE (d * m) \div G = q <=> lo <= d /\ ~(hi <= d)
    <3>1. d \in Nat /\ d * m \in Nat
      OBVIOUS
    <3>2. (d * m) \div G = q <=> q * G <= d * m /\ d * m < (q + 1) * G
      BY <3>1, Quotient
    <3>3. (q * G <= d * m <=> lo <= d) /\ ((q + 1) * G <= d * m <=> hi <= d)
      BY <1>1, <1>2, <3>1
    <3> QED
      BY <1>3, <3>1, <3>2, <3>3
  <2>2. \A d \in lo..hi - 1 : d \in 0..G - 1 /\ lo <= d /\ ~(hi <= d)
    BY <1>5
  <2>3. \A d \in 0..G - 1 : lo <= d /\ ~(hi <= d) => d \in lo..hi - 1
    OBVIOUS
  <2> QED
    BY <2>1, <2>2, <2>3
<1>7. Cardinality(lo..hi - 1) = hi - lo
  <2>1. Cardinality(lo..hi - 1) = IF lo > hi - 1 THEN 0 ELSE (hi - 1) - lo + 1
    BY FS_Interval
  <2> QED
    BY <1>4, <2>1
<1>8. PICK e \in Nat : e = G \div m /\ e * m <= G /\ G < (e + 1) * m
  BY Quotient
<1>9. /\ e * m \in Int /\ (e + 1) * m \in Int /\ (hi - 1) * m \in Int /\ (lo - 1) * m \in Int
      /\ hi - lo - 1 \in Int /\ hi - lo + 1 \in Int
  OBVIOUS
<1>10. hi - lo - 1 < e + 1
  <2>1. (hi - lo - 1) * m = (hi - 1) * m - lo * m
    OBVIOUS
  <2>2. (hi - lo - 1) * m < (e + 1) * m
    BY <1>1, <1>2, <1>3, <1>8, <1>9, <2>1
  <2> QED
    BY <1>9, <2>2, Times
<1>11. e < hi - lo + 1
  <2>1. (hi - lo + 1) * m = hi * m - (lo - 1) * m
    OBVIOUS
  <2>2. e * m < (hi - lo + 1) * m
    BY <1>1, <1>2, <1>3, <1>8, <1>9, <2>1
  <2> QED
    BY <1>9, <2>2, Times
<1>12. (hi - lo) - e \in {0, 1}
  BY <1>10, <1>11
<1> QED
  BY <1>6, <1>7, <1>8, <1>12

(* The random numbers are spread evenly over the places of every round.      *)
LEMMA DrawsAreEven == EvenDraws
<1> SUFFICES ASSUME NEW i \in 0..Window - 1
             PROVE  /\ \A d \in Draws : Pick(d, i) \in 0..i
                    /\ \A j \in 0..i : Cardinality({d \in Draws : Pick(d, i) = j})
                                         - Grain \div (i + 1) \in {0, 1}
  BY DEF EvenDraws
<1>1. i \in Nat /\ i + 1 \in Nat \ {0} /\ Grain \in Nat \ {0} /\ (i + 1) - 1 = i
  BY WallPagesAssumption
<1>2. ASSUME NEW d \in Draws PROVE Pick(d, i) \in 0..i
  <2>1. d \in Nat /\ d < Grain /\ d * (i + 1) \in Nat
    BY <1>1, <1>2 DEF Draws
  <2>2. PICK e \in Nat : e = Pick(d, i) /\ e * Grain <= d * (i + 1)
    BY <1>1, <2>1, Quotient DEF Pick
  <2>3. d * (i + 1) < Grain * (i + 1)
    BY <1>1, <2>1, Times
  <2>4. Grain * (i + 1) = (i + 1) * Grain /\ e * Grain \in Int /\ (i + 1) * Grain \in Int
    BY <1>1
  <2>5. e * Grain < (i + 1) * Grain
    BY <2>1, <2>2, <2>3, <2>4
  <2>6. e < i + 1
    BY <1>1, <2>5, Times
  <2> QED
    BY <1>1, <2>2, <2>6
<1>3. ASSUME NEW j \in 0..i
      PROVE  Cardinality({d \in Draws : Pick(d, i) = j}) - Grain \div (i + 1) \in {0, 1}
  BY <1>1, Spread DEF Draws, Pick
<1> QED
  BY <1>2, <1>3

-----------------------------------------------------------------------------
(* The cards.                                                                *)

(* A card tells what its author chose.                                       *)
LEMMA CardsTellTheSame == SameOnEveryCard
<1> SUFFICES ASSUME NEW c \in Authors
             PROVE  LET card == VoiceCard(ToPublicVoice(c)) IN
                    /\ ArrivedCard(ToPublicVoice(c)) = card
                    /\ ("name" \in card) = (c.mode = "NAME")
                    /\ ("given" \in card) = (c.mode = "FIRST_NAME")
                    /\ ("country" \in card) = c.country
  BY DEF SameOnEveryCard
<1>1. PICK mode \in {"NAME", "FIRST_NAME", "ANONYMOUS"}, country \in BOOLEAN :
        c.mode = mode /\ c.country = country
  BY DEF Authors
<1> DEFINE p == ToPublicVoice(c)
<1>2. /\ p.attribution = Attribution(c) /\ p.country = country
      /\ Attribution(c) = IF mode = "NAME" THEN [kind |-> "name", tells |-> {"name"}]
                          ELSE IF mode = "FIRST_NAME" THEN [kind |-> "firstName", tells |-> {"given"}]
                          ELSE IF country THEN [kind |-> "anonymousFromCountry", tells |-> {"country"}]
                          ELSE [kind |-> "anonymous", tells |-> {}]
  BY <1>1 DEF ToPublicVoice, Attribution
<1> HIDE DEF p
<1>3. Beside(p) = IF country /\ p.attribution.kind # "anonymousFromCountry" THEN {"country"} ELSE {}
  BY <1>2 DEF Beside
<1>4. CASE mode = "NAME"
  <2>1. p.attribution.kind = "name" /\ p.attribution.tells = {"name"}
    BY <1>2, <1>4
  <2>2. /\ VoiceCard(p) = Beside(p) \union {"name"}
        /\ ArrivedCard(p) = Beside(p) \union {"name"}
    BY <2>1 DEF VoiceCard, ArrivedCard
  <2> QED
    BY <1>1, <1>3, <1>4, <2>1, <2>2 DEF p
<1>5. CASE mode = "FIRST_NAME"
  <2>1. p.attribution.kind = "firstName" /\ p.attribution.tells = {"given"}
    BY <1>2, <1>5
  <2>2. /\ VoiceCard(p) = Beside(p) \union {"given"}
        /\ ArrivedCard(p) = Beside(p) \union {"given"}
    BY <2>1 DEF VoiceCard, ArrivedCard
  <2> QED
    BY <1>1, <1>3, <1>5, <2>1, <2>2 DEF p
<1>6. CASE mode = "ANONYMOUS"
  BY <1>1, <1>2, <1>6 DEF VoiceCard, ArrivedCard, Beside, p
<1> QED
  BY <1>4, <1>5, <1>6

-----------------------------------------------------------------------------
(* The Wall.                                                                 *)

(* On the Wall a voice stands once, and so it does in the window.            *)
WallPagesSpec == WallPagesInit /\ [][WallPagesNext]_wallpages

StandsOnce == order \in Seq(Voices) /\ IsInjective(order)

(* A sequence that repeats nothing repeats nothing when something new is put *)
(* in front, nor when an element is taken out, and neither does its          *)
(* beginning.                                                                *)
LEMMA NothingRepeats ==
  ASSUME NEW s \in Seq(Voices), IsInjective(s)
  PROVE  /\ \A v \in Voices \ Range(s) : <<v>> \o s \in Seq(Voices) /\ IsInjective(<<v>> \o s)
         /\ \A k \in DOMAIN s :
              LET rest == SubSeq(s, 1, k - 1) \o SubSeq(s, k + 1, Len(s)) IN
              rest \in Seq(Voices) /\ IsInjective(rest)
         /\ \A n \in 0..Len(s) :
              Distinct(SubSeq(s, 1, n), n)
<1>1. /\ Len(s) \in Nat /\ DOMAIN s = 1..Len(s)
      /\ \A a, b \in 1..Len(s) : s[a] = s[b] => a = b
  BY DEF IsInjective
<1>2. ASSUME NEW v \in Voices \ Range(s)
      PROVE  <<v>> \o s \in Seq(Voices) /\ IsInjective(<<v>> \o s)
  <2> DEFINE w == <<v>> \o s
  <2>1. w \in Seq(Voices) /\ Len(w) = Len(s) + 1 /\ DOMAIN w = 1..Len(s) + 1
    OBVIOUS
  <2>2. w[1] = v /\ \A a \in 2..Len(s) + 1 : w[a] = s[a - 1]
    BY <1>1
  <2> HIDE DEF w
  <2>3. \A a \in 2..Len(s) + 1 : a - 1 \in 1..Len(s) /\ w[a] # v
    BY <1>1, <2>2 DEF Range
  <2>4. ASSUME NEW a \in 1..Len(s) + 1, NEW b \in 1..Len(s) + 1, w[a] = w[b] PROVE a = b
    <3>1. CASE a = 1 /\ b = 1
      BY <3>1
    <3>2. CASE a = 1 /\ b # 1
      BY <1>1, <2>2, <2>3, <2>4, <3>2
    <3>3. CASE a # 1 /\ b = 1
      BY <1>1, <2>2, <2>3, <2>4, <3>3
    <3>4. CASE a # 1 /\ b # 1
      <4>1. /\ a \in 2..Len(s) + 1 /\ b \in 2..Len(s) + 1
        BY <1>1, <3>4
      <4>2. s[a - 1] = s[b - 1] /\ a - 1 \in 1..Len(s) /\ b - 1 \in 1..Len(s)
        BY <2>2, <2>3, <2>4, <4>1
      <4>3. a - 1 = b - 1
        BY <1>1, <4>2
      <4> QED
        BY <4>1, <4>3
    <3> QED
      BY <3>1, <3>2, <3>3, <3>4
  <2> QED
    BY <2>1, <2>4 DEF IsInjective, w
<1>3. ASSUME NEW k \in DOMAIN s
      PROVE  /\ SubSeq(s, 1, k - 1) \o SubSeq(s, k + 1, Len(s)) \in Seq(Voices)
             /\ IsInjective(SubSeq(s, 1, k - 1) \o SubSeq(s, k + 1, Len(s)))
  <2> DEFINE x == SubSeq(s, 1, k - 1)
             y == SubSeq(s, k + 1, Len(s))
             w == x \o y
  <2>1. k \in 1..Len(s)
    BY <1>1
  <2>2. x \in Seq(Voices) /\ Len(x) = k - 1 /\ \A a \in 1..k - 1 : x[a] = s[a]
    BY <1>1, <2>1
  <2>3. y \in Seq(Voices) /\ Len(y) = Len(s) - k /\ \A a \in 1..Len(s) - k : y[a] = s[k + a]
    BY <1>1, <2>1
  <2> HIDE DEF x, y
  <2>4. /\ w \in Seq(Voices) /\ DOMAIN w = 1..Len(s) - 1
        /\ \A a \in 1..k - 1 : w[a] = x[a]
        /\ \A a \in k..Len(s) - 1 : w[a] = y[a - (k - 1)]
    <3>1. /\ w \in Seq(Voices) /\ Len(w) = Len(x) + Len(y) /\ DOMAIN w = 1..Len(w)
          /\ \A a \in 1..Len(x) : w[a] = x[a]
          /\ \A b \in 1..Len(y) : w[Len(x) + b] = y[b]
      <4>1. x \in Seq(Voices) /\ y \in Seq(Voices)
        BY <2>2, <2>3
      <4>2. w \in Seq(Voices) /\ Len(w) = Len(x) + Len(y)
        BY <4>1
      <4>3. DOMAIN w = 1..Len(w)
        BY <4>2
      <4>4. \A a \in 1..Len(x) : w[a] = x[a]
        BY <4>1
      <4>5. \A b \in 1..Len(y) : w[Len(x) + b] = y[b]
        BY <4>1
      <4> QED
        BY <4>2, <4>3, <4>4, <4>5
    <3>2. Len(x) = k - 1 /\ Len(y) = Len(s) - k /\ Len(w) = Len(s) - 1
      BY <1>1, <2>1, <2>2, <2>3, <3>1
    <3>3. \A a \in k..Len(s) - 1 : a - (k - 1) \in 1..Len(y) /\ Len(x) + (a - (k - 1)) = a
      BY <1>1, <2>1, <3>2
    <3> QED
      BY <3>1, <3>2, <3>3
  <2> HIDE DEF w
  <2>5. ASSUME NEW a \in 1..Len(s) - 1
        PROVE  \E i \in 1..Len(s) : w[a] = s[i] /\ i = IF a < k THEN a ELSE a + 1
    <3>1. CASE a < k
      <4>1. a \in 1..k - 1 /\ a \in 1..Len(s)
        BY <1>1, <2>1, <3>1
      <4> QED
        BY <2>2, <2>4, <3>1, <4>1
    <3>2. CASE ~(a < k)
      <4>1. /\ a \in k..Len(s) - 1 /\ a - (k - 1) \in 1..Len(s) - k
            /\ k + (a - (k - 1)) = a + 1 /\ a + 1 \in 1..Len(s)
        BY <1>1, <2>1, <3>2
      <4>2. w[a] = s[a + 1]
        BY <2>3, <2>4, <4>1
      <4> QED
        BY <3>2, <4>1, <4>2
    <3> QED
      BY <3>1, <3>2
  <2>6. ASSUME NEW a \in 1..Len(s) - 1, NEW b \in 1..Len(s) - 1, w[a] = w[b] PROVE a = b
    <3>1. PICK i \in 1..Len(s) : w[a] = s[i] /\ i = IF a < k THEN a ELSE a + 1
      BY <2>5
    <3>2. PICK j \in 1..Len(s) : w[b] = s[j] /\ j = IF b < k THEN b ELSE b + 1
      BY <2>5
    <3>3. i = j
      BY <1>1, <2>6, <3>1, <3>2
    <3> QED
      BY <2>1, <3>1, <3>2, <3>3
  <2> QED
    BY <2>4, <2>6 DEF IsInjective, w, x, y
<1>4. ASSUME NEW n \in 0..Len(s) PROVE Distinct(SubSeq(s, 1, n), n)
  <2> DEFINE w == SubSeq(s, 1, n)
  <2>1. n \in Nat /\ Len(w) = n /\ DOMAIN w = 1..n /\ \A a \in 1..n : w[a] = s[a] /\ a \in 1..Len(s)
    BY <1>1
  <2>2. w = [a \in 1..n |-> w[a]]
    BY <2>1
  <2> HIDE DEF w
  <2>3. w \in [1..n -> Range(w)] /\ \A t \in Range(w) : \E a \in 1..n : w[a] = t
    BY <2>1, <2>2 DEF Range
  <2>4. \A a, b \in 1..n : w[a] = w[b] => a = b
    BY <1>1, <2>1
  <2>5. w \in Bijection(1..n, Range(w))
    BY <2>1, <2>3, <2>4 DEF Bijection, Injection, Surjection, IsInjective
  <2> QED
    BY <2>1, <2>5 DEF Distinct, w
<1> QED
  BY <1>2, <1>3, <1>4

(* Every step leaves a voice once on the Wall.                               *)
LEMMA EachStandsOnce == WallPagesSpec => []StandsOnce
<1>1. WallPagesInit => StandsOnce
  <2> SUFFICES ASSUME order = <<>> PROVE StandsOnce
    BY DEF WallPagesInit
  <2>1. <<>> \in Seq(Voices) /\ IsInjective(<<>>)
    BY DEF IsInjective
  <2> QED
    BY <2>1 DEF StandsOnce
<1>2. ASSUME StandsOnce, [WallPagesNext]_wallpages PROVE StandsOnce'
  <2>1. ASSUME NEW v \in Voices, Publish(v) PROVE StandsOnce'
    <3>1. v \in Voices \ Range(order) /\ order' = <<v>> \o order
      BY <2>1 DEF Publish
    <3> QED
      BY <1>2, <3>1, NothingRepeats DEF StandsOnce
  <2>2. ASSUME NEW v \in Voices, Withdraw(v) PROVE StandsOnce'
    <3>1. PICK k \in DOMAIN order :
            order' = SubSeq(order, 1, k - 1) \o SubSeq(order, k + 1, Len(order))
      BY <2>2 DEF Withdraw
    <3> QED
      BY <1>2, <3>1, NothingRepeats DEF StandsOnce
  <2>3. ASSUME UNCHANGED order PROVE StandsOnce'
    BY <1>2, <2>3 DEF StandsOnce
  <2>4. ASSUME NEW v \in Voices, Announce(v) PROVE UNCHANGED order
    BY <2>4 DEF Announce
  <2>5. ASSUME NEW s \in Seeds, ReadPage(s) PROVE UNCHANGED order
    BY <2>5 DEF ReadPage
  <2>6. ASSUME NewDay \/ Render \/ OpenWall \/ CloseWall PROVE UNCHANGED order
    BY <2>6 DEF NewDay, Render, OpenWall, CloseWall
  <2> QED
    BY <1>2, <2>1, <2>2, <2>3, <2>4, <2>5, <2>6 DEF WallPagesNext, wallpages
<1> QED
  BY <1>1, <1>2, PTL DEF WallPagesSpec

(* A list without repetition is brought into each of its orders by one way   *)
(* to choose the places.                                                     *)
LEMMA EachOrderOneWay ==
  ASSUME NEW items, NEW n, Distinct(items, n)
  PROVE  [p \in Choices(n) |-> Arrange(items, p)] \in Bijection(Choices(n), Orders(items))
<1> DEFINE F == [p \in Choices(n) |-> Arrange(items, p)]
<1>1. Orders(items) = Bijection(1..n, Range(items))
  BY DEF Orders, Distinct
<1>2. ASSUME NEW p \in Choices(n) PROVE Arrange(items, p) \in Orders(items)
  <2>1. PICK f : Shuffling(items, p, Rounds(n), n, f) /\ Arrange(items, p) = f[Rounds(n)]
    BY Arranged
  <2>2. Rounds(n) \in 0..Rounds(n)
    BY DEF Rounds, Distinct
  <2> QED
    BY <1>1, <2>1, <2>2 DEF Shuffling
<1>3. \A p, q \in Choices(n) : Arrange(items, p) = Arrange(items, q) => p = q
  BY NoOrderTwice
<1>4. \A o \in Orders(items) : \E p \in Choices(n) : Arrange(items, p) = o
  BY <1>1, EveryOrder
<1>5. F \in [Choices(n) -> Orders(items)] /\ DOMAIN F = Choices(n)
  BY <1>2
<1>6. \A p \in Choices(n) : F[p] = Arrange(items, p)
  OBVIOUS
<1> HIDE DEF F
<1>7. IsInjective(F)
  BY <1>3, <1>5, <1>6 DEF IsInjective
<1>8. \A o \in Orders(items) : \E p \in Choices(n) : F[p] = o
  BY <1>4, <1>6
<1> QED
  BY <1>5, <1>7, <1>8 DEF Bijection, Injection, Surjection, F

(* Among the voices a page is cut from none is favoured, for pages and       *)
(* windows of any size, any number of voices and any number of random        *)
(* numbers that is not below the window: the draws are spread evenly over    *)
(* the places of each round, each way to choose the places gives an order of *)
(* its own, and every order is given. Of a voice too old to be among those   *)
(* drawn it says nothing.                                                    *)
THEOREM DrawnAlike == WallPagesSpec => []NoneFavouredAmongDrawn
<1>1. ASSUME StandsOnce, NEW offset \in 0..Window PROVE OneOrderEach(Recent(offset))
  <2> DEFINE n == Smaller(Len(order), Smaller(offset + Page, Window))
             shown == Recent(offset)
  <2>1. Len(order) \in Nat /\ n \in 0..Len(order) /\ shown = SubSeq(order, 1, n)
    BY <1>1, WallPagesAssumption DEF StandsOnce, Recent, Smaller
  <2>2. Distinct(shown, n)
    BY <1>1, <2>1, NothingRepeats DEF StandsOnce
  <2>3. Len(shown) = n
    BY <2>2 DEF Distinct
  <2> HIDE DEF n, shown
  <2>4. [p \in Choices(n) |-> Arrange(shown, p)] \in Bijection(Choices(n), Orders(shown))
    BY <2>2, EachOrderOneWay
  <2> QED
    BY <2>3, <2>4 DEF OneOrderEach, shown
<1>2. StandsOnce => NoneFavouredAmongDrawn
  BY <1>1, DrawsAreEven, CardsTellTheSame DEF NoneFavouredAmongDrawn
<1> QED
  BY <1>2, EachStandsOnce, PTL

(* And of the seeds those that bring the window into an order, as            *)
(* seededShuffle does, are the ones that draw, round by round, the places of *)
(* one way to choose them: how many they are is the product of the shares of *)
(* the draws, which EvenDraws makes equal but for one draw.                  *)
THEOREM SeedsOfAnOrder ==
  ASSUME NEW items, NEW n \in 0..Window, Distinct(items, n), NEW o \in Orders(items)
  PROVE  \E p \in Choices(n) :
           {s \in Seeds : Shuffle(items, s) = o} =
             {s \in Seeds : \A k \in 1..Rounds(n) : Pick(s[k], n - k) = p[k]}
<1> DEFINE r == Rounds(n)
           drawn(s) == [k \in 1..r |-> Pick(s[k], n - k)]
<1>1. /\ n \in Nat /\ r \in Nat /\ Len(items) = n /\ Orders(items) = Bijection(1..n, Range(items))
      /\ \A k \in 1..r : k \in 1..Window - 1 /\ n - k \in 0..Window - 1 /\ n - k \in 0..n - 1
  BY WallPagesAssumption DEF Distinct, Orders, Rounds
<1>2. ASSUME NEW s \in Seeds PROVE drawn(s) \in Choices(n) /\ Shuffle(items, s) = Arrange(items, drawn(s))
  <2>1. ASSUME NEW k \in 1..r PROVE Pick(s[k], n - k) \in 0..n - k
    <3>1. s[k] \in Draws /\ n - k \in 0..Window - 1
      BY <1>1 DEF Seeds
    <3> QED
      BY <3>1, DrawsAreEven DEF EvenDraws
  <2>2. ASSUME NEW k \in 1..r PROVE Pick(s[k], n - k) \in 0..n - 1 /\ Pick(s[k], n - k) <= n - k
    <3>1. PICK e : e = Pick(s[k], n - k)
      OBVIOUS
    <3>2. e \in 0..n - k /\ k \in 1..Window - 1 /\ n - k \in 0..n - 1
      BY <1>1, <2>1, <3>1
    <3> QED
      BY <1>1, <3>1, <3>2
  <2>3. drawn(s) \in [1..r -> 0..n - 1] /\ \A k \in 1..r : drawn(s)[k] <= n - k
    BY <2>2
  <2> QED
    BY <1>1, <2>3 DEF Choices, Shuffle
<1>3. PICK p \in Choices(n) : Arrange(items, p) = o
  BY <1>1, EveryOrder
<1>4. ASSUME NEW s \in Seeds
      PROVE  Shuffle(items, s) = o <=> \A k \in 1..r : Pick(s[k], n - k) = p[k]
  <2>1. drawn(s) = p <=> \A k \in 1..r : Pick(s[k], n - k) = p[k]
    <3>1. p = [k \in 1..r |-> p[k]]
      BY DEF Choices
    <3> QED
      BY <3>1
  <2>2. PICK q \in Choices(n) : q = drawn(s) /\ Shuffle(items, s) = Arrange(items, q)
    BY <1>2
  <2>3. Arrange(items, q) = o => q = p
    BY <1>3, NoOrderTwice
  <2> QED
    BY <1>3, <2>1, <2>2, <2>3
<1> QED
  BY <1>4
=============================================================================
