---------------------------- MODULE OfflineQueue ----------------------------
(***************************************************************************)
(* How a voice gets from the form to the Wall when the network or the      *)
(* server fails: VoiceForm with useVoiceSubmission, the queue that         *)
(* lib/voice-queue.ts keeps in localStorage, VoiceQueueFlusher that drains *)
(* it from every open page, POST /voices as those two see it, and the page *)
(* of the withdrawal link.                                                 *)
(*                                                                         *)
(* localStorage is shared by the tabs of a browser and no lock is held     *)
(* over a reading and the writing that follows it: other tabs, not the tab *)
(* itself, may write in between.                                           *)
(*                                                                         *)
(* Bound: MaxFaults answers that are lost or bad, tabs closed and writes   *)
(* the store refuses. Nagging, ForgetToPutBack, AlwaysDone and ClearLate   *)
(* are plausible mistakes in the definition that follows each of them;     *)
(* only the mutation runs use them.                                        *)
(***************************************************************************)
EXTENDS Integers, Sequences, SequencesExt

CONSTANTS Tabs, Voices,
          Malformed,   \* voices the server refuses for their content
          MaxFaults

ASSUME QueueAssumption == Malformed \subseteq Voices /\ MaxFaults \in Nat

NoTab   == "no tab"
Replies == {"ok", "refused", "later", "lost"}  \* later: 429 or 5xx; lost: no answer
Flight  == Replies \union {"none", "sent"}

\* A tab: where its drain stands, the voices claimed and not yet settled (the
\* first is on its way), those to put back, and a write of the queue that
\* follows a reading: what was read, what to write.
Tab     == [drain : {"idle", "sending", "ending"}, claimed : Seq(Voices),
            putBack : Seq(Voices), reply : Flight, writing : BOOLEAN,
            read : Seq(Voices), write : Seq(Voices)]
IdleTab == [drain |-> "idle", claimed |-> <<>>, putBack |-> <<>>, reply |-> "none",
            writing |-> FALSE, read |-> <<>>, write |-> <<>>]
Form    == [state : {"idle", "submitting", "queued", "done", "error"},
            tab : Tabs \union {NoTab}, reply : Flight]
NoForm  == [state |-> "idle", tab |-> NoTab, reply |-> "none"]

VARIABLES store,      \* the queue in localStorage
          tab,        \* the open tabs
          form,       \* the form each voice is written in
          link,       \* the page of a voice's withdrawal link
          published,  \* how often a voice was put on the Wall
          withdrawn,  \* how often it was taken off
          faults,
          doubted,    \* history: published, and the sender was not told
          shared,     \* history: claimed twice, or put back, by tabs that overlapped
          cut         \* history: dropped with a tab, or by a write

vars    == <<store, tab, form, link, published, withdrawn, faults, doubted, shared, cut>>
wall    == <<published, withdrawn, doubted>>

TypeOK ==
  /\ store \in Seq(Voices) /\ tab \in [Tabs -> Tab] /\ form \in [Voices -> Form]
  /\ link \in [Voices -> {"ready", "working", "answered", "done", "invalid"}]
  /\ published \in [Voices -> Nat] /\ withdrawn \in [Voices -> Nat]
  /\ \A v \in Voices : withdrawn[v] <= published[v]
  /\ faults \in 0..MaxFaults
  /\ doubted \subseteq Voices /\ shared \subseteq Voices /\ cut \subseteq Voices

Init ==
  /\ store = <<>> /\ tab = [t \in Tabs |-> IdleTab]
  /\ form = [v \in Voices |-> NoForm]
  /\ link = [v \in Voices |-> "ready"]
  /\ published = [v \in Voices |-> 0] /\ withdrawn = [v \in Voices |-> 0]
  /\ faults = 0 /\ doubted = {} /\ shared = {} /\ cut = {}

Free(t)    == ~tab[t].writing   \* not between a reading and its writing
Carried(t) == ToSet(tab[t].claimed) \union ToSet(tab[t].putBack)
Fault(n)   == faults + n <= MaxFaults /\ faults' = faults + n

-----------------------------------------------------------------------------
(* POST /voices                                                              *)

\* What may come of a request: the answer, whether the voice is on the Wall,
\* and whether that is a fault. A malformed voice is refused every time.
Outcomes(v) ==
  IF v \in Malformed
  THEN {[reply |-> "refused", on |-> FALSE, fault |-> 0],
        [reply |-> "lost", on |-> FALSE, fault |-> 1]}
  ELSE {[reply |-> "ok", on |-> TRUE, fault |-> 0]} \union
       [reply : {"later", "lost"}, on : BOOLEAN, fault : {1}]

Serve(v, o) ==
  /\ Fault(o.fault)
  /\ published' = [published EXCEPT ![v] = IF o.on THEN @ + 1 ELSE @]
  /\ doubted' = IF o.on /\ o.reply # "ok" THEN doubted \union {v} ELSE doubted
  /\ UNCHANGED <<store, link, withdrawn, shared, cut>>

ServeForm(v) ==
  /\ form[v].reply = "sent"
  /\ \E o \in Outcomes(v) :
       Serve(v, o) /\ form' = [form EXCEPT ![v].reply = o.reply]
  /\ UNCHANGED tab

ServeDrain(t) ==
  /\ tab[t].reply = "sent"
  /\ \E o \in Outcomes(Head(tab[t].claimed)) :
       /\ Serve(Head(tab[t].claimed), o)
       /\ tab' = [tab EXCEPT ![t].reply = o.reply]
  /\ UNCHANGED form

-----------------------------------------------------------------------------
(* VoiceForm and useVoiceSubmission                                          *)

\* What the page shows in each state of the submission: the form makes way for
\* thanks or for the word that the voice is kept; it stays, with the reason,
\* when the server has refused; its button waits while a request is under way.
VoiceForm(state) ==
  [says   |-> CASE state = "done"   -> "thanks"
                [] state = "queued" -> "kept"
                [] state = "error"  -> "refused"
                [] OTHER            -> "nothing",
   button |-> state \in {"idle", "error"}]

Submit(t, v) ==
  /\ Free(t) /\ form[v].tab \in {NoTab, t}
  /\ VoiceForm(form[v].state).button
  /\ form' = [form EXCEPT ![v] = [state |-> "submitting", tab |-> t, reply |-> "sent"]]
  /\ UNCHANGED <<store, tab, link, wall, faults, shared, cut>>

\* Any answer of the server is shown; only its absence puts the voice in the
\* queue, and the person is told it is kept.
Answered(v) ==
  /\ form[v].reply \in Replies /\ Free(form[v].tab)
  /\ IF form[v].reply = "lost"
     THEN /\ form' = [form EXCEPT ![v].state = "queued", ![v].reply = "none"]
          /\ tab' = [tab EXCEPT ![form[v].tab].writing = TRUE,
                                ![form[v].tab].read = store,
                                ![form[v].tab].write = Append(store, v)]
     ELSE /\ form' = [form EXCEPT ![v].reply = "none",
                        ![v].state = IF form[v].reply = "ok" THEN "done" ELSE "error"]
          /\ UNCHANGED tab
  /\ UNCHANGED <<store, link, wall, faults, shared, cut>>

-----------------------------------------------------------------------------
(* readQueue, writeQueue, drain and flushQueue                               *)

\* A store that is full refuses a longer queue, and writeQueue swallows it.
\* What others wrote since the reading is overwritten, and what they took out
\* comes back.
Write(t) ==
  /\ tab[t].writing
  /\ tab' = [tab EXCEPT ![t].writing = FALSE, ![t].read = <<>>, ![t].write = <<>>]
  /\ \/ /\ store' = tab[t].write
        /\ cut' = cut \union (ToSet(store) \ ToSet(tab[t].read))
        /\ shared' = shared \union
             ((ToSet(tab[t].read) \intersect ToSet(tab[t].write)) \ ToSet(store))
        /\ UNCHANGED faults
     \/ /\ Len(tab[t].write) > Len(store) /\ Fault(1)
        /\ cut' = cut \union (ToSet(tab[t].write) \ ToSet(store))
        /\ UNCHANGED <<store, shared>>
  /\ UNCHANGED <<form, link, wall>>

\* flushQueue: when a page is opened and when the browser comes online, unless
\* this tab is draining already. The claim empties the queue.
ClearLate(queue) == queue
AfterClaim(queue) == <<>>

Flush(t) ==
  /\ Free(t) /\ tab[t].drain = "idle" /\ store # <<>>
  /\ tab' = [tab EXCEPT ![t] = [IdleTab EXCEPT !.drain = "sending", !.claimed = store,
               !.writing = TRUE, !.read = store, !.write = AfterClaim(store)]]
  /\ shared' = shared \union
       (ToSet(store) \intersect UNION {Carried(u) : u \in Tabs \ {t}})
  /\ UNCHANGED <<store, form, link, wall, faults, cut>>

SendNext(t) ==
  /\ Free(t) /\ tab[t].drain = "sending" /\ tab[t].reply = "none"
  /\ tab' = [tab EXCEPT ![t] = IF @.claimed = <<>> THEN [@ EXCEPT !.drain = "ending"]
                               ELSE [@ EXCEPT !.reply = "sent"]]
  /\ UNCHANGED <<store, form, link, wall, faults, shared, cut>>

\* A refusal of the content is final; anything else means try later.
Nagging == {"refused", "later", "lost"}
NotFinal == {"later", "lost"}

Settle(t) ==
  /\ Free(t) /\ tab[t].reply \in Replies
  /\ tab' = [tab EXCEPT ![t] = [@ EXCEPT
               !.reply = "none", !.claimed = Tail(tab[t].claimed),
               !.putBack = IF tab[t].reply \in NotFinal
                           THEN Append(tab[t].putBack, Head(tab[t].claimed))
                           ELSE tab[t].putBack]]
  /\ UNCHANGED <<store, form, link, wall, faults, shared, cut>>

\* What was not settled goes back in front of what has been queued since.
ForgetToPutBack(putBack, queue) == queue
Returned(putBack, queue) == putBack \o queue

PutBack(t) ==
  /\ Free(t) /\ tab[t].drain = "ending"
  /\ tab' = [tab EXCEPT ![t] =
       IF @.putBack = <<>> THEN IdleTab
       ELSE [IdleTab EXCEPT !.writing = TRUE, !.read = store,
                            !.write = Returned(tab[t].putBack, store)]]
  /\ UNCHANGED <<store, form, link, wall, faults, shared, cut>>

\* A tab is closed, or crashes: what it carries is gone, and a request that was
\* sent may still be served.
CloseTab(t) ==
  /\ Fault(1)
  /\ \E served \in BOOLEAN :
       LET sent == {v \in Voices \ Malformed :
                      \/ form[v].tab = t /\ form[v].reply = "sent"
                      \/ tab[t].reply = "sent" /\ v = Head(tab[t].claimed)}
       IN /\ published' = [v \in Voices |-> published[v] +
                             IF served /\ v \in sent THEN 1 ELSE 0]
          /\ doubted' = doubted \union (IF served THEN sent ELSE {}) \union
                          {v \in Voices : form[v].tab = t /\ form[v].reply = "ok"}
  /\ cut' = cut \union Carried(t) \union
            IF tab[t].writing THEN ToSet(tab[t].write) \union ToSet(tab[t].read) ELSE {}
  /\ tab' = [tab EXCEPT ![t] = IdleTab]
  /\ form' = [v \in Voices |-> IF form[v].tab = t /\ form[v].state = "submitting"
                               THEN NoForm
                               ELSE form[v]]
  /\ UNCHANGED <<store, link, withdrawn, shared>>

-----------------------------------------------------------------------------
(* WithdrawVoice: the link of one copy of the voice on the Wall              *)

OpenLink(v) ==
  /\ published[v] > 0 /\ link[v] = "ready"
  /\ link' = [link EXCEPT ![v] = "working"]
  /\ UNCHANGED <<store, tab, form, wall, faults, shared, cut>>

ServeLink(v) ==
  /\ link[v] = "working"
  /\ withdrawn' = [withdrawn EXCEPT ![v] = 1]
  /\ link' = [link EXCEPT ![v] = "answered"]
  /\ UNCHANGED <<store, tab, form, published, doubted, faults, shared, cut>>

\* Any failure shows the link as invalid, one that came after the withdrawal too.
AlwaysDone(answered) == "done"
Outcome(answered) == IF answered THEN "done" ELSE "invalid"

LinkAnswered(v) ==
  /\ \E answered \in BOOLEAN :
       /\ link[v] \in IF answered THEN {"answered"} ELSE {"working", "answered"}
       /\ Fault(IF answered THEN 0 ELSE 1)
       /\ link' = [link EXCEPT ![v] = Outcome(answered)]
  /\ UNCHANGED <<store, tab, form, wall, shared, cut>>

Next ==
  \/ \E v \in Voices : \/ ServeForm(v) \/ Answered(v)
                       \/ OpenLink(v) \/ ServeLink(v) \/ LinkAnswered(v)
                       \/ \E t \in Tabs : Submit(t, v)
  \/ \E t \in Tabs : \/ Flush(t) \/ Write(t) \/ SendNext(t) \/ ServeDrain(t)
                     \/ Settle(t) \/ PutBack(t) \/ CloseTab(t)

\* The network answers in the end, a page runs on, and a page of the site is
\* opened again as long as the queue holds a voice.
Spec == /\ Init /\ [][Next]_vars
        /\ \A v \in Voices : WF_vars(ServeForm(v)) /\ WF_vars(Answered(v))
        /\ \A t \in Tabs : /\ WF_vars(Write(t)) /\ WF_vars(SendNext(t))
                           /\ WF_vars(ServeDrain(t)) /\ WF_vars(Settle(t))
                           /\ WF_vars(PutBack(t)) /\ WF_vars(Flush(t))

-----------------------------------------------------------------------------
Held(v) == \/ v \in ToSet(store)
           \/ \E t \in Tabs : v \in Carried(t) \/ v \in ToSet(tab[t].write)

\* "A submission is never lost": a voice its author was told is kept is in the
\* queue, or a tab has it in hand, or the server has it or has refused it,
\* unless a tab was closed on it or a write dropped it.
KeptUntilSettled ==
  \A v \in Voices : VoiceForm(form[v].state).says = "kept" =>
    Held(v) \/ published[v] > 0 \/ v \in Malformed \/ v \in cut

\* A voice is on the Wall once, and who is told that it was withdrawn finds no
\* copy of it there, unless an answer was lost after it was published or two tabs
\* had claimed it.
PublishedOnce ==
  \A v \in Voices \ (doubted \union shared) :
    published[v] <= 1 /\ (link[v] = "done" => published[v] <= withdrawn[v])

\* What the page and its queue owe the author: no voice is lost, and none is on
\* the Wall twice.
NeitherLostNorDoubled == KeptUntilSettled /\ PublishedOnce

\* A voice that is kept is published or refused in the end, and the queue does not
\* go on sending what the server has refused.
QueueDrains ==
  /\ \A v \in Voices :
       VoiceForm(form[v].state).says = "kept" ~>
         published[v] > 0 \/ v \in Malformed \/ v \in cut
  /\ <>[](store = <<>>)

\* "Two open tabs ... each read the same queue and each send it" is what the
\* single flight is said to prevent.
TabsDoNotRepeat == \A v \in Voices : published[v] > 1 => v \in doubted

\* "A full or disabled store must not make a submission vanish silently."
NoneVanishes ==
  \A v \in Voices : VoiceForm(form[v].state).says = "kept" =>
    Held(v) \/ published[v] > 0 \/ v \in Malformed
=============================================================================
