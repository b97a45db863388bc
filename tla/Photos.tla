-------------------------------- MODULE Photos --------------------------------
(***************************************************************************)
(* The photographs of the site: the originals in photos-src, the list in   *)
(* the pipeline (scripts/optimize-photos.mjs), the renditions it writes,   *)
(* its manifest, and scripts/check-photos.mjs, which judges the tree.      *)
(*                                                                         *)
(* The AVIF and the WebP of one width are written one after the other and  *)
(* judged alike: a rendition stands for both. The pipeline takes the list  *)
(* in any order. Time goes by in seconds, the slack of the check; bounds:  *)
(* Photos, Widths, Seconds of the clock. An original is as wide as the     *)
(* widest of Widths it has, or Narrow: narrower than all of them.          *)
(* StaleALittleLater is a plausible mistake in the definition that follows *)
(* it; only the mutation runs use it.                                      *)
(***************************************************************************)
EXTENDS Integers

CONSTANTS Photos, Widths, Least, Seconds

ASSUME PhotosAssumption ==
  /\ Widths \subseteq Nat \ {0} /\ Least \in Widths /\ \A w \in Widths : Least <= w
  /\ Seconds \in Nat

VARIABLES source,    \* the originals
          listed,    \* the photographs named in PHOTOS
          rendition, \* the files under public/photos
          manifest,  \* photos.generated.ts: the widths it promises, and the blur
          pipeline,  \* a run of photos:build
          second,
          unseen     \* history: what has happened to a photograph behind the check's back

photos == <<source, listed, rendition, manifest, pipeline, second, unseen>>

Missing == [there |-> FALSE, time |-> 0, current |-> FALSE]
Narrow  == 0
Spans   == Widths \union {Narrow}
NoPhoto == [there |-> FALSE, time |-> 0, wide |-> Narrow]
Left    == [promised |-> FALSE, widths |-> {}, blur |-> FALSE]
Reasons == {"time", "cut", "checkout", "narrow"}

\* The widths that are rendered of an original: none is enlarged.
Scaled(wide) == {w \in Widths : w <= wide}

\* The time of a file of now: of the renditions, only the narrowest is asked.
Dated(w) == IF w = Least THEN second ELSE 0

NoBuild == [at |-> "idle", todo |-> {}, photo |-> {}, wide |-> Narrow, written |-> {},
            draft |-> [p \in Photos |-> Left], done |-> {}]

PhotosTypeOK ==
  /\ source \in [Photos -> [there : BOOLEAN, time : 0..Seconds, wide : Spans]]
  /\ listed \subseteq Photos /\ second \in 0..Seconds
  /\ rendition \in [Photos -> [Widths -> [there : BOOLEAN, time : 0..Seconds, current : BOOLEAN]]]
  /\ manifest \in [Photos -> [promised : BOOLEAN, widths : SUBSET Widths, blur : BOOLEAN]]
  /\ pipeline \in [at : {"idle", "next", "rendering"}, todo : SUBSET Photos,
                   photo : SUBSET Photos, wide : Spans, written : SUBSET Widths,
                   draft : [Photos -> [promised : BOOLEAN, widths : SUBSET Widths, blur : BOOLEAN]],
                   done : SUBSET Photos]
  /\ unseen \in [Photos -> SUBSET Reasons]

PhotosInit ==
  /\ source = [p \in Photos |-> NoPhoto] /\ listed = {}
  /\ rendition = [p \in Photos |-> [w \in Widths |-> Missing]]
  /\ manifest = [p \in Photos |-> Left]
  /\ pipeline = NoBuild /\ second = 0 /\ unseen = [p \in Photos |-> {}]

\* The site shows the original as it is: at each of its widths, and its blur.
Current(p) ==
  /\ manifest[p].widths = Scaled(source[p].wide) /\ manifest[p].blur
  /\ \A w \in manifest[p].widths : rendition[p][w].there /\ rendition[p][w].current

-----------------------------------------------------------------------------
(* People and clocks                                                         *)

\* An original is put in place, with the time of now or, moved, its own. What
\* was rendered of the one before it shows another picture, and the time does
\* not tell where it is old, or within a second of the rendition, or where the
\* pipeline is at work on it; and where the one before it was too narrow to be
\* rendered there is no time to compare with.
Replace(p, wide, time) ==
  /\ source' = [source EXCEPT ![p] = [there |-> TRUE, time |-> time, wide |-> wide]]
  /\ rendition' = [rendition EXCEPT ![p] = [w \in Widths |-> [@[w] EXCEPT !.current = FALSE]]]
  /\ unseen' = [unseen EXCEPT ![p] = @
       \union (IF \/ time < second
                  \/ pipeline.photo = {p}
                  \/ rendition[p][Least].there /\ second <= rendition[p][Least].time + 1
               THEN {"time"} ELSE {})
       \union (IF /\ ~rendition[p][Least].there
                  /\ manifest[p].promised \/ pipeline.draft[p].promised
               THEN {"narrow"} ELSE {})]
  /\ manifest' = [manifest EXCEPT ![p].blur = FALSE]
  /\ pipeline' = [pipeline EXCEPT !.done = @ \ {p}, !.draft[p].blur = FALSE]
  /\ UNCHANGED <<listed, second>>

RemoveOriginal(p) ==
  /\ source[p].there
  /\ source' = [source EXCEPT ![p] = NoPhoto]
  /\ UNCHANGED <<listed, rendition, manifest, pipeline, second, unseen>>

EditList(p) ==
  /\ listed' = IF p \in listed THEN listed \ {p} ELSE listed \union {p}
  /\ UNCHANGED <<source, rendition, manifest, pipeline, second, unseen>>

SecondPasses ==
  /\ second < Seconds /\ second' = second + 1
  /\ UNCHANGED <<source, listed, rendition, manifest, pipeline, unseen>>

\* The tree as it was committed, in a new directory: every file is of now, and
\* what was out of date no longer shows by its time.
CheckOut ==
  /\ pipeline = NoBuild
  /\ source' = [p \in Photos |-> IF source[p].there
                  THEN [source[p] EXCEPT !.time = second] ELSE source[p]]
  /\ rendition' = [p \in Photos |-> [w \in Widths |-> IF rendition[p][w].there
                     THEN [rendition[p][w] EXCEPT !.time = Dated(w)] ELSE Missing]]
  /\ unseen' = [p \in Photos |-> unseen[p] \union
       IF source[p].there /\ manifest[p].promised /\ ~Current(p)
       THEN {"checkout"} ELSE {}]
  /\ UNCHANGED <<listed, manifest, pipeline, second>>

-----------------------------------------------------------------------------
(* optimize-photos.mjs                                                       *)

StartBuild ==
  /\ pipeline = NoBuild
  /\ pipeline' = [NoBuild EXCEPT !.at = "next", !.todo = listed]
  /\ UNCHANGED <<source, listed, rendition, manifest, second, unseen>>

\* Reading a photograph that is listed and not there throws (BuildStops).
ReadOriginal(p) ==
  /\ pipeline.at = "next" /\ p \in pipeline.todo /\ source[p].there
  /\ pipeline' = [pipeline EXCEPT !.at = "rendering", !.photo = {p}, !.wide = source[p].wide,
                    !.written = {}, !.done = @ \union {p}]
  /\ UNCHANGED <<source, listed, rendition, manifest, second, unseen>>

\* Narrow before wide. A replacement since the reading is not in what is
\* written (done).
WriteRendition(p, w) ==
  /\ pipeline.photo = {p}
  /\ w \in Scaled(pipeline.wide) /\ pipeline.written = {v \in Widths : v < w}
  /\ rendition' = [rendition EXCEPT ![p][w] =
                     [there |-> TRUE, time |-> Dated(w), current |-> p \in pipeline.done]]
  /\ pipeline' = [pipeline EXCEPT !.written = @ \union {w}]
  /\ UNCHANGED <<source, listed, manifest, second, unseen>>

EnterInDraft(p) ==
  /\ pipeline.photo = {p} /\ pipeline.written = Scaled(pipeline.wide)
  /\ pipeline' = [pipeline EXCEPT !.at = "next", !.photo = {}, !.todo = @ \ {p}, !.written = {},
                    !.wide = Narrow, !.draft[p] = [promised |-> TRUE, widths |-> Scaled(pipeline.wide),
                                                   blur |-> p \in pipeline.done]]
  /\ UNCHANGED <<source, listed, rendition, manifest, second, unseen>>

WriteManifest ==
  /\ pipeline.at = "next" /\ pipeline.todo = {}
  /\ manifest' = pipeline.draft /\ pipeline' = NoBuild
  /\ unseen' = [p \in Photos |-> IF p \in pipeline.done THEN {} ELSE unseen[p]]
  /\ UNCHANGED <<source, listed, rendition, second>>

\* The run throws or is stopped: the manifest is not written.
BuildStops ==
  /\ pipeline # NoBuild /\ pipeline' = NoBuild
  /\ unseen' = [p \in Photos |-> unseen[p] \union
       IF pipeline.photo = {p} \/ pipeline.draft[p].promised THEN {"cut"} ELSE {}]
  /\ UNCHANGED <<source, listed, rendition, manifest, second>>

PhotosNext ==
  \/ \E p \in Photos :
       \/ \E wide \in Spans, time \in 0..second : Replace(p, wide, time)
       \/ RemoveOriginal(p) \/ EditList(p) \/ ReadOriginal(p) \/ EnterInDraft(p)
       \/ \E w \in Widths : WriteRendition(p, w)
  \/ SecondPasses \/ CheckOut \/ StartBuild \/ WriteManifest \/ BuildStops

-----------------------------------------------------------------------------
(* check-photos.mjs                                                          *)

Registered(p) == p \in listed /\ manifest[p].promised

PromisesKept ==
  \A p \in Photos : \A w \in manifest[p].widths : rendition[p][w].there

StaleALittleLater(p) ==
  LET out == rendition[p][Least]
  IN  out.there /\ source[p].time > out.time + 2

Stale(p) ==
  LET out == rendition[p][Least]
  IN  out.there /\ source[p].time > out.time + 1

Approved ==
  /\ \A p \in Photos : source[p].there => Registered(p) /\ ~Stale(p)
  /\ PromisesKept

CurrentUnless(excused) ==
  pipeline = NoBuild /\ Approved =>
    \A p \in Photos : source[p].there /\ unseen[p] \subseteq excused => Current(p)

\* What passes has every original at all its widths, in both formats, with its
\* blur, and nothing of a picture that was there before: whichever originals
\* came, went and changed, whatever was listed, and however often it was built.
\* It cannot tell where a time of change does not tell, nor after a build that
\* stopped half-way, nor of what took the place of an original too narrow to
\* have been rendered, of which the check compares nothing.
PassedIsCurrent == CurrentUnless({})

\* "Ships a stale version of a replaced photograph. This closes that hole."
SoAfterACheckout == CurrentUnless({"checkout"})

\* "Every registered photo must have every rendition its manifest claims", and
\* not of the photograph before it.
SoAfterACutBuild == CurrentUnless({"cut"})

\* "Someone drops a new JPEG into photos-src/, forgets npm run photos:build", in
\* the place of one that was too narrow.
SoOfNarrowOnes == CurrentUnless({"narrow"})

\* "Is newer than its output - run npm run photos:build", after which it is not.
BuildingSettles ==
  [][WriteManifest /\ (\A p \in Photos : source[p].there => p \in pipeline.done \intersect listed)
       => Approved']_photos

PhotosSpec == PhotosInit /\ [][PhotosNext]_photos
=============================================================================
