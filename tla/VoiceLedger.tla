----------------------------- MODULE VoiceLedger ----------------------------
(***************************************************************************)
(* The voices of the Wall and the one number shown for them (module A):    *)
(* a voice is submitted, taken down or approved by a moderator, withdrawn  *)
(* by its author or removed with its author's account, and each of these   *)
(* is to move the row of voice_counter by one.                             *)
(*                                                                         *)
(* VoiceService.submit and withdraw, ModerationService.decide and          *)
(* VoiceCounterService.adjust are split at their awaits. The transaction   *)
(* of adjust runs at PostgreSQL's default isolation, read committed: it    *)
(* sees what others committed before each statement, and waits for another *)
(* transaction that is inserting the same country.                         *)
(*                                                                         *)
(* NotCounted, DecideOnStatusAlone, PresenceNotWritten, ReplaceTotal and   *)
(* DecisionForgotten are plausible mistakes in the definition that follows *)
(* each of them; only the mutation runs use them.                          *)
(***************************************************************************)
EXTENDS Integers, FiniteSets

CONSTANTS Voices,        \* identifiers of the rows of voices
          MemberVoices,  \* those submitted by one signed-in member
          Countries,     \* countries a voice may name
          Requests,      \* the requests of a run, each served once
          Seeded,        \* prisma/seed.ts has created the counter row
          MaxCrashes     \* how many requests may be cut short

ASSUME MemberAssumption  == MemberVoices \subseteq Voices
ASSUME FiniteAssumption  == IsFiniteSet(Countries) /\ IsFiniteSet(Requests)
ASSUME BoundsAssumption  == Seeded \in BOOLEAN /\ MaxCrashes \in Nat

NoVoice   == "no voice"
NoCountry == "no country"

Status     == {"ABSENT", "PENDING", "PUBLISHED", "HIDDEN", "REJECTED", "WITHDRAWN"}
Decisions  == {"PUBLISHED", "HIDDEN", "REJECTED"}
Voice      == [status : Status, country : Countries \union {NoCountry}]
InTx       == {"look", "insert", "count", "commit"}
AwaitPoints == InTx \union {"write", "announce", "mail", "decision", "audit"}

\* A request: what it does to which voice, the await it stands at, the status
\* it read, the status it sets, its delta for the counter, whether its
\* transaction has inserted the country, and how many countries it counted.
Request == [op : {"none", "submit", "withdraw", "decide", "done"},
            at : AwaitPoints \union {"none"}, voice : Voices \union {NoVoice},
            was : Status, to : Status, delta : {-1, 0, 1}, holds : BOOLEAN,
            count : 0..Cardinality(Countries)]
Unsent  == [op |-> "none", at |-> "none", voice |-> NoVoice, was |-> "ABSENT",
            to |-> "ABSENT", delta |-> 0, holds |-> FALSE, count |-> 0]
Served  == [Unsent EXCEPT !.op = "done"]

VARIABLES voice,      \* the rows of voices
          counter,    \* the row of voice_counter
          presence,   \* the rows of country_presence, committed
          mailed,     \* voices whose withdrawal link went out
          decisions,  \* the rows of moderation_decisions
          unrecorded, \* history: decisions that took effect and got no row
          audit,      \* the entries of audit_logs for them
          req,        \* the requests
          crashes,    \* requests cut short so far
          net,        \* history: what each voice has added to the total
          drifted     \* history: voices whose adjustment was lost or misjudged

rows == <<voice, mailed, decisions, unrecorded, audit>>
book == <<counter, presence, net>>
vars == <<voice, counter, presence, mailed, decisions, unrecorded, audit,
          req, crashes, net, drifted>>

-----------------------------------------------------------------------------
Absent == [status |-> "ABSENT", country |-> NoCountry]

Init ==
  /\ voice = [v \in Voices |-> Absent]
  /\ counter = [exists |-> Seeded, total |-> 0, countries |-> 0]
  /\ presence = {}
  /\ mailed = {} /\ decisions = {} /\ unrecorded = {} /\ audit = {}
  /\ req = [r \in Requests |-> Unsent]
  /\ crashes = 0
  /\ net = [v \in Voices |-> 0]
  /\ drifted = {}

At(r, point)    == req[r].at = point
Goto(r, point)  == req' = [req EXCEPT ![r] = [@ EXCEPT !.at = point]]
End(r)          == req' = [req EXCEPT ![r] = Served]
Send(r, fields) == req[r] = Unsent /\ req' = [req EXCEPT ![r] = fields]
Published       == {v \in Voices : voice[v].status = "PUBLISHED"}

\* Only an increment names the country of its voice to adjust.
NewCountry(r) == IF req[r].delta = 1 THEN voice[req[r].voice].country ELSE NoCountry
TxStart(delta, country) == IF delta = 1 /\ country # NoCountry THEN "look" ELSE "count"

\* A decision that changed its voice and has no row yet, and what is left of it
\* when its request ends there.
Decision(r)   == [voice |-> req[r].voice, to |-> req[r].to]
TookEffect(r) == req[r].op = "decide" /\ req[r].at \in InTx \union {"decision"}
CutShort(r)   == unrecorded' = IF TookEffect(r) THEN unrecorded \union {Decision(r)}
                                                  ELSE unrecorded

-----------------------------------------------------------------------------
(* VoiceService.submit: a voice with media waits for a moderator, any other  *)
(* one is published at once and counted next.                                *)
NotCounted(media, country) == "mail"
AfterCreate(media, country) == IF media THEN "mail" ELSE TxStart(1, country)

Submit(r, v, country) ==
  /\ voice[v].status = "ABSENT"
  /\ \E media \in BOOLEAN :
       LET status == IF media THEN "PENDING" ELSE "PUBLISHED"
       IN /\ voice' = [voice EXCEPT ![v] =
                         [status |-> status, country |-> country]]
          /\ Send(r, [Unsent EXCEPT !.op = "submit", !.voice = v, !.to = status,
                        !.delta = IF media THEN 0 ELSE 1,
                        !.at = AfterCreate(media, country)])
  /\ UNCHANGED <<counter, presence, mailed, decisions, unrecorded, audit,
                 crashes, net, drifted>>

\* The row is read again and announced on VOICE_ARRIVED_CHANNEL.
AnnounceVoice(r) ==
  /\ At(r, "announce")
  /\ Goto(r, "mail")
  /\ UNCHANGED <<rows, book, crashes, drifted>>

\* The link is mailed, or there is no address, or the mail fails.
SendWithdrawalLink(r) ==
  /\ At(r, "mail")
  /\ \/ mailed' = mailed \union {req[r].voice}
     \/ UNCHANGED mailed
  /\ End(r)
  /\ UNCHANGED <<voice, decisions, unrecorded, audit, book, crashes, drifted>>

-----------------------------------------------------------------------------
(* VoiceService.withdraw and ModerationService.applyToTarget: the status is  *)
(* read, then overwritten, and the delta follows from what was read.         *)
ReadByToken(r, v) ==
  /\ v \in mailed
  /\ voice[v].status # "WITHDRAWN"
  /\ Send(r, [Unsent EXCEPT !.op = "withdraw", !.at = "write", !.voice = v,
                            !.was = voice[v].status, !.to = "WITHDRAWN"])
  /\ UNCHANGED <<rows, book, crashes, drifted>>

ReadTarget(r, v, to) ==
  /\ voice[v].status # "ABSENT"
  /\ Send(r, [Unsent EXCEPT !.op = "decide", !.at = "write", !.voice = v,
                            !.was = voice[v].status, !.to = to])
  /\ UNCHANGED <<rows, book, crashes, drifted>>

\* DISMISS_REPORT looks at no voice; the decision is still recorded.
DismissReport(r, v) ==
  /\ Send(r, [Unsent EXCEPT !.op = "decide", !.at = "decision", !.voice = v,
                            !.to = "ABSENT"])
  /\ UNCHANGED <<rows, book, crashes, drifted>>

WithdrawDelta(was) == IF was = "PUBLISHED" THEN -1 ELSE 0

DecideOnStatusAlone(was, to) == IF to = "PUBLISHED" THEN 1 ELSE -1
DecideDelta(was, to) ==
  CASE was # "PUBLISHED" /\ to = "PUBLISHED" -> 1
    [] was = "PUBLISHED" /\ to # "PUBLISHED" -> -1
    [] OTHER -> 0

WriteStatus(r) ==
  /\ At(r, "write")
  /\ LET v     == req[r].voice
         delta == IF req[r].op = "withdraw" THEN WithdrawDelta(req[r].was)
                                            ELSE DecideDelta(req[r].was, req[r].to)
         stale == (voice[v].status = "PUBLISHED") # (req[r].was = "PUBLISHED")
     IN /\ voice' = [voice EXCEPT ![v] = [@ EXCEPT !.status = req[r].to]]
        /\ drifted' = IF stale THEN drifted \union {v} ELSE drifted
        /\ CASE delta # 0 ->
                  req' = [req EXCEPT ![r] =
                            [@ EXCEPT !.delta = delta,
                                      !.at = TxStart(delta, voice[v].country)]]
             [] delta = 0 /\ req[r].op = "decide" -> Goto(r, "decision")
             [] OTHER -> End(r)
  /\ UNCHANGED <<mailed, decisions, unrecorded, audit, book, crashes>>

-----------------------------------------------------------------------------
(* VoiceCounterService.adjust, one transaction: the country's row is         *)
(* inserted if it is new, the rows are counted, the counter is written.      *)
LookForCountry(r) ==
  /\ At(r, "look")
  /\ Goto(r, IF NewCountry(r) \in presence THEN "count" ELSE "insert")
  /\ UNCHANGED <<rows, book, crashes, drifted>>

\* Another open transaction has inserted the same country: this one waits.
Contended(r) == \E q \in Requests \ {r} : req[q].holds /\ NewCountry(q) = NewCountry(r)

\* A country that another transaction inserted meanwhile is taken as it is, or
\* refused by the primary key, which fails the request: prisma does the first
\* when it can leave the upsert to the database and the second when it cannot.
InsertCountry(r) ==
  /\ At(r, "insert")
  /\ ~Contended(r)
  /\ IF NewCountry(r) \in presence
       THEN \/ Goto(r, "count") /\ UNCHANGED <<drifted, unrecorded>>
            \/ End(r) /\ drifted' = drifted \union {req[r].voice} /\ CutShort(r)
       ELSE /\ req' = [req EXCEPT ![r] = [@ EXCEPT !.at = "count", !.holds = TRUE]]
            /\ UNCHANGED <<drifted, unrecorded>>
  /\ UNCHANGED <<voice, mailed, decisions, audit, book, crashes>>

OwnCountry(r) == IF req[r].holds THEN {NewCountry(r)} ELSE {}

Countable(r) == presence \union OwnCountry(r)

CountCountries(r) ==
  /\ At(r, "count")
  /\ req' = [req EXCEPT ![r] =
               [@ EXCEPT !.at = "commit",
                         !.count = Cardinality(Countable(r))]]
  /\ UNCHANGED <<rows, book, crashes, drifted>>

PresenceNotWritten(r) == presence
PresenceWith(r) == presence \union OwnCountry(r)

ReplaceTotal(delta) == delta
NewTotal(delta) ==
  IF counter.exists THEN counter.total + delta
                    ELSE IF delta > 0 THEN delta ELSE 0

DecisionForgotten(op) == IF op = "submit" THEN "announce" ELSE "none"
AfterAdjust(op) == CASE op = "submit" -> "announce"
                     [] op = "decide" -> "decision"
                     [] OTHER -> "none"

CommitAdjust(r) ==
  /\ At(r, "commit")
  /\ presence' = PresenceWith(r)
  /\ counter' = [exists |-> TRUE, total |-> NewTotal(req[r].delta),
                 countries |-> req[r].count]
  /\ net' = [net EXCEPT ![req[r].voice] = @ + req[r].delta]
  /\ IF AfterAdjust(req[r].op) = "none"
       THEN End(r)
       ELSE req' = [req EXCEPT ![r] = [@ EXCEPT !.at = AfterAdjust(req[r].op),
                                                !.delta = 0, !.holds = FALSE]]
  /\ UNCHANGED <<rows, crashes, drifted>>

-----------------------------------------------------------------------------
(* ModerationService.decide after applyToTarget: the decision's row, then    *)
(* the audit. The report the decision answers comes from the query string    *)
(* and is looked up by no one: the foreign key refuses the row of one that   *)
(* does not exist, the request fails there, and the voice stays as it is.    *)
RecordDecision(r) ==
  /\ At(r, "decision")
  /\ \/ /\ decisions' = decisions \union {Decision(r)}
        /\ Goto(r, "audit")
        /\ UNCHANGED unrecorded
     \/ /\ CutShort(r)
        /\ End(r)
        /\ UNCHANGED decisions
  /\ UNCHANGED <<voice, mailed, audit, book, crashes, drifted>>

RecordAudit(r) ==
  /\ At(r, "audit")
  /\ audit' = audit \union {Decision(r)}
  /\ End(r)
  /\ UNCHANGED <<voice, mailed, decisions, unrecorded, book, crashes, drifted>>

-----------------------------------------------------------------------------
(* DeletionWorker.purge with voiceHandling REMOVE: every voice of the member *)
(* becomes WITHDRAWN in one statement, and the counter is not adjusted.      *)
RemoveVoicesOfMember ==
  LET mine == {v \in MemberVoices : voice[v].status # "ABSENT"}
  IN /\ \E v \in mine : voice[v].status # "WITHDRAWN"
     /\ voice' = [v \in Voices |->
                    IF v \in mine
                      THEN [voice[v] EXCEPT !.status = "WITHDRAWN"]
                      ELSE voice[v]]
     /\ drifted' = drifted \union (mine \intersect Published)
     /\ UNCHANGED <<mailed, decisions, unrecorded, audit, book, req, crashes>>

\* The process stops: an open transaction is rolled back, the rest stays.
Crash(r) ==
  /\ req[r] \notin {Unsent, Served}
  /\ crashes < MaxCrashes
  /\ crashes' = crashes + 1
  /\ drifted' = IF req[r].at \in InTx THEN drifted \union {req[r].voice} ELSE drifted
  /\ CutShort(r)
  /\ End(r)
  /\ UNCHANGED <<voice, mailed, decisions, audit, book>>

-----------------------------------------------------------------------------
Continue(r) ==
  \/ AnnounceVoice(r) \/ SendWithdrawalLink(r)
  \/ WriteStatus(r)
  \/ LookForCountry(r) \/ InsertCountry(r) \/ CountCountries(r) \/ CommitAdjust(r)
  \/ RecordDecision(r) \/ RecordAudit(r)

NewRequest(r) ==
  \E v \in Voices :
    \/ \E c \in Countries \union {NoCountry} : Submit(r, v, c)
    \/ ReadByToken(r, v)
    \/ \E to \in Decisions : ReadTarget(r, v, to)
    \/ DismissReport(r, v)

\* A run ends when its requests are served; any other halt is a deadlock.
AllServed == (\A r \in Requests : req[r] = Served) /\ UNCHANGED vars

Next ==
  \/ \E r \in Requests : Continue(r) \/ NewRequest(r) \/ Crash(r)
  \/ RemoveVoicesOfMember
  \/ AllServed

Spec == Init /\ [][Next]_vars

\* The server runs every handler it has begun to its end.
FairSpec == Spec /\ \A r \in Requests : WF_vars(Continue(r))

-----------------------------------------------------------------------------
TypeOK ==
  /\ voice \in [Voices -> Voice]
  /\ counter \in [exists : BOOLEAN, total : Int, countries : 0..Cardinality(Countries)]
  /\ presence \subseteq Countries
  /\ mailed \subseteq Voices
  /\ decisions \subseteq [voice : Voices, to : Status]
  /\ unrecorded \subseteq [voice : Voices, to : Status]
  /\ audit \subseteq decisions
  /\ req \in [Requests -> Request]
  /\ crashes \in 0..MaxCrashes
  /\ net \in [Voices -> Int]
  /\ drifted \subseteq Voices

\* The adjustments of v that are on their way to the counter.
Adding(v)   == {r \in Requests : req[r].voice = v /\ req[r].delta = 1}
Removing(v) == {r \in Requests : req[r].voice = v /\ req[r].delta = -1}

(* A-4: each voice on the Wall is counted once and every other one not at    *)
(* all, once the adjustments on their way have arrived; for every voice      *)
(* whose status no two requests changed across each other, whose adjustment  *)
(* was not lost, and that did not leave with its author's account.           *)
CountsWhatIsPublished ==
  \A v \in Voices \ drifted :
    net[v] + Cardinality(Adding(v)) - Cardinality(Removing(v))
      = IF v \in Published THEN 1 ELSE 0

Quiet == \A r \in Requests : req[r] \in {Unsent, Served}

(* A-4: with every request served, the total is the number of voices on the  *)
(* Wall, in whatever order concurrent transactions committed. The row is the *)
(* seed's: where an adjustment creates it, one that takes a voice away and   *)
(* overtakes the one that added it is lost, the row starting at Max(-1, 0).  *)
TotalMatchesWall ==
  Seeded /\ Quiet /\ drifted = {} => counter.total = Cardinality(Published)

(* The breadth figure never claims a country nobody was heard from, and no   *)
(* voice is counted before its country is present.                           *)
BreadthIsHeard ==
  /\ counter.countries <= Cardinality(presence)
  /\ \A v \in Voices : net[v] > 0 => voice[v].country \in presence \union {NoCountry}

TakenDown == {v \in Voices : voice[v].status \in {"HIDDEN", "REJECTED"}}
Recorded(v) == [voice |-> v, to |-> voice[v].status] \in decisions

(* M-2: behind every voice that is down there is a decision of that outcome: *)
(* on record, or in the hands of a request that has yet to record it, or     *)
(* refused or cut short after it took effect, as the takedown comes before   *)
(* its record. No race of adjustments, approvals and withdrawals leaves a    *)
(* voice down that nobody decided on.                                        *)
TakedownIsRecorded ==
  \A v \in TakenDown :
    \/ Recorded(v)
    \/ \E r \in Requests : TookEffect(r) /\ Decision(r) = [voice |-> v, to |-> voice[v].status]
    \/ [voice |-> v, to |-> voice[v].status] \in unrecorded

(* A-4: a voice on the Wall does get counted: the transactions that wait for *)
(* each other's country never wait for ever.                                 *)
EveryVoiceIsCounted ==
  \A v \in Voices : v \in Published ~> net[v] = 1 \/ v \notin Published \/ v \in drifted

-----------------------------------------------------------------------------
(* What the repository says of the counter and these handlers do not keep.   *)

(* "the breadth figure only ever grows": a transaction that counted before   *)
(* another's country was committed writes the smaller number after it.       *)
BreadthOnlyGrows == [][counter'.countries >= counter.countries]_vars

(* "log which rule was invoked, every time": a takedown that names a report  *)
(* that does not exist is carried out and not recorded.                      *)
EveryTakedownIsLogged == Quiet => \A v \in TakenDown : Recorded(v)

(* "It cannot be undone": a moderator's APPROVE publishes a withdrawn voice. *)
WithdrawalIsFinal ==
  [][\A v \in Voices : voice[v].status = "WITHDRAWN" =>
                         voice'[v].status = "WITHDRAWN"]_vars

(* A withdrawal takes its voice from the count once: two that overlap, both  *)
(* having read PUBLISHED, take it twice.                                     *)
CountNotBelowWall == Quiet => counter.total >= Cardinality(Published)

(* adjust is "called when a Voice is [...] withdrawn": the removal of a      *)
(* member's voices with the account does not call it.                        *)
CountNotAboveWall == Quiet => counter.total <= Cardinality(Published)
=============================================================================
