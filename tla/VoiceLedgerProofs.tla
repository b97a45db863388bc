-------------------------- MODULE VoiceLedgerProofs -------------------------
(***************************************************************************)
(* Theorems about VoiceLedger, for any voices, any finite set of countries *)
(* and of requests, a counter row seeded or not, and any number of crashes.*)
(***************************************************************************)
EXTENDS VoiceLedger, FiniteSetTheorems, TLAPS

-----------------------------------------------------------------------------
(* The inductive invariant: what a request in flight may rely on while the   *)
(* other requests commit around it.                                          *)

\* A request in flight has a voice, which exists unless a report on it is
\* being dismissed; it has a delta exactly while its transaction is open.
InFlightKnows(r) ==
  /\ req[r].at = "none" => req[r] \in {Unsent, Served}
  /\ req[r].at # "none" => /\ req[r].voice \in Voices
                           /\ req[r].op \in {"submit", "withdraw", "decide"}
  /\ req[r].at \notin {"none", "decision", "audit"} =>
       voice[req[r].voice].status # "ABSENT"
  /\ (req[r].delta # 0) <=> req[r].at \in InTx
  /\ req[r].at = "write" => /\ req[r].op \in {"withdraw", "decide"}
                            /\ req[r].to # "ABSENT"
                            /\ req[r].op = "withdraw" => req[r].to = "WITHDRAWN"
  /\ req[r].op = "decide" /\ req[r].delta = 1 => req[r].to = "PUBLISHED"
  /\ req[r].at = "audit" => Decision(r) \in decisions

\* A transaction inserts the country of the voice it adds, and no other; once
\* past the insert that country is committed or its own.
TxKnows(r) ==
  /\ req[r].at \in {"look", "insert"} \/ req[r].holds =>
       req[r].delta = 1 /\ NewCountry(r) \in Countries
  /\ req[r].holds => req[r].at \in {"count", "commit"}
  /\ req[r].at \in {"count", "commit"} /\ req[r].delta = 1 =>
       NewCountry(r) \in presence \union OwnCountry(r) \union {NoCountry}
  /\ req[r].at = "commit" => req[r].count <= Cardinality(PresenceWith(r))

ReqKnows(r) == InFlightKnows(r) /\ TxKnows(r)

\* A voice that was not submitted has no link and no share of the total.
Rows == /\ \A v \in mailed : voice[v].status # "ABSENT"
        /\ \A v \in Voices : voice[v].status = "ABSENT" => net[v] = 0

Knowledge == Rows /\ \A r \in Requests : ReqKnows(r)

\* The request that took a voice down and has yet to record it.
TookDown(r, v) == /\ req[r].op = "decide" /\ req[r].voice = v
                  /\ req[r].to = voice[v].status
                  /\ req[r].at \in InTx \union {"decision"}

IInv == /\ TypeOK
        /\ Knowledge
        /\ CountsWhatIsPublished
        /\ BreadthIsHeard
        /\ TakedownIsRecorded

-----------------------------------------------------------------------------
(* Requests and their fields.                                                *)

(* Unsent and Served, the two requests that are not in flight.               *)
LEMMA RequestTypes ==
  /\ Unsent \in Request /\ Served \in Request
  /\ Unsent.delta = 0 /\ Served.delta = 0
  /\ Unsent.at = "none" /\ Served.at = "none"
  /\ Unsent.op = "none" /\ Served.op = "done"
  /\ ~Unsent.holds /\ ~Served.holds
<1>1. 0 \in 0..Cardinality(Countries)
  BY FiniteAssumption, FS_CardinalityType
<1>2. Unsent \in Request
  BY <1>1 DEF Unsent, Request, Status
<1>3. Unsent.delta = 0 /\ Unsent.at = "none" /\ Unsent.op = "none" /\ ~Unsent.holds
  BY DEF Unsent
<1>4. Served \in Request
  BY <1>2 DEF Served, Request
<1>5. Served.delta = Unsent.delta /\ Served.at = Unsent.at /\ Served.op = "done"
      /\ Served.holds = Unsent.holds
  BY <1>2 DEF Served, Request
<1> QED
  BY <1>2, <1>3, <1>4, <1>5

(* The requests that the first step of a handler sends, and the fields that  *)
(* a later one overwrites.                                                   *)
LEMMA RequestSent ==
  ASSUME NEW op \in {"submit", "withdraw", "decide"}, NEW at \in AwaitPoints,
         NEW v \in Voices, NEW was \in Status, NEW to \in Status, NEW d \in {-1, 0, 1}
  PROVE  /\ [Unsent EXCEPT !.op = op, !.voice = v, !.to = to, !.delta = d, !.at = at]
              \in Request
         /\ [Unsent EXCEPT !.op = op, !.at = at, !.voice = v, !.was = was, !.to = to]
              \in Request
         /\ [Unsent EXCEPT !.op = op, !.at = at, !.voice = v, !.to = to] \in Request
  BY RequestTypes DEF Request

LEMMA FieldsOverwritten ==
  ASSUME NEW q \in Request, NEW at \in AwaitPoints, NEW d \in {-1, 0, 1},
         NEW h \in BOOLEAN, NEW n \in 0..Cardinality(Countries)
  PROVE  /\ [q EXCEPT !.delta = d, !.at = at] \in Request
         /\ [q EXCEPT !.at = at, !.holds = h] \in Request
         /\ [q EXCEPT !.at = at, !.count = n] \in Request
         /\ [q EXCEPT !.at = at, !.delta = d, !.holds = h] \in Request
<1> DEFINE Numbers == 0..Cardinality(Countries)
<1>1. Request = [op : {"none", "submit", "withdraw", "decide", "done"},
                 at : AwaitPoints \union {"none"}, voice : Voices \union {NoVoice},
                 was : Status, to : Status, delta : {-1, 0, 1}, holds : BOOLEAN,
                 count : Numbers]
  BY DEF Request
<1>2. n \in Numbers
  OBVIOUS
<1> HIDE DEF Numbers
<1>3. [q EXCEPT !.delta = d, !.at = at] \in Request
  BY <1>1
<1>4. [q EXCEPT !.at = at, !.holds = h] \in Request
  BY <1>1
<1>5. [q EXCEPT !.at = at, !.count = n] \in Request
  BY <1>1, <1>2
<1>6. [q EXCEPT !.at = at, !.delta = d, !.holds = h] \in Request
  BY <1>1
<1> QED
  BY <1>3, <1>4, <1>5, <1>6

(* What a request counts is a number of countries.                           *)
LEMMA CountableSize ==
  ASSUME TypeOK, Knowledge, NEW r \in Requests
  PROVE  /\ Countable(r) \subseteq Countries
         /\ PresenceWith(r) = Countable(r)
         /\ IsFiniteSet(Countable(r))
         /\ Cardinality(Countable(r)) \in 0..Cardinality(Countries)
<1>1. Countable(r) \subseteq Countries
  BY DEF TypeOK, Knowledge, ReqKnows, TxKnows, Countable, OwnCountry
<1>2. IsFiniteSet(Countries)
  BY FiniteAssumption
<1>3. /\ IsFiniteSet(Countable(r))
      /\ Cardinality(Countable(r)) <= Cardinality(Countries)
  BY <1>1, <1>2, FS_Subset
<1>4. Cardinality(Countable(r)) \in Nat /\ Cardinality(Countries) \in Nat
  BY <1>2, <1>3, FS_CardinalityType
<1> QED
  BY <1>1, <1>3, <1>4 DEF PresenceWith, Countable

-----------------------------------------------------------------------------
(* Type correctness.                                                         *)

(* The initial state is well typed.                                          *)
LEMMA InitTypeOK == Init => TypeOK
<1> SUFFICES ASSUME Init PROVE TypeOK
  OBVIOUS
<1>1. Cardinality(Countries) \in Nat
  BY FiniteAssumption, FS_CardinalityType
<1>2. 0 \in 0..MaxCrashes
  BY BoundsAssumption
<1>3. Absent \in Voice
  BY DEF Absent, Voice, Status
<1> QED
  BY <1>1, <1>2, <1>3, RequestTypes, BoundsAssumption DEF Init, TypeOK

(* A step keeps the state well typed, where the rows and the requests in     *)
(* flight agree.                                                             *)
LEMMA NextTypeOK ==
  ASSUME TypeOK, Knowledge, [Next]_vars
  PROVE  TypeOK'
<1> USE DEF TypeOK
<1>t. Unsent \in Request /\ Served \in Request
  BY RequestTypes
<1>g. ASSUME NEW r \in Requests, NEW at \in AwaitPoints, Goto(r, at)
      PROVE  req' \in [Requests -> Request]
  BY <1>g DEF Goto, Request
<1>e. ASSUME NEW r \in Requests, End(r)
      PROVE  req' \in [Requests -> Request]
  BY <1>e, <1>t DEF End
<1>v. ASSUME NEW r \in Requests, req[r].at # "none"
      PROVE  req[r].voice \in Voices
  BY <1>v DEF Knowledge, ReqKnows, InFlightKnows
<1>1. ASSUME NEW r \in Requests, NEW v \in Voices, NEW c \in Countries \union {NoCountry},
             Submit(r, v, c)
      PROVE  TypeOK'
  <2>1. PICK media \in BOOLEAN :
          LET status == IF media THEN "PENDING" ELSE "PUBLISHED"
          IN /\ voice' = [voice EXCEPT ![v] = [status |-> status, country |-> c]]
             /\ Send(r, [Unsent EXCEPT !.op = "submit", !.voice = v, !.to = status,
                           !.delta = IF media THEN 0 ELSE 1,
                           !.at = AfterCreate(media, c)])
    BY <1>1 DEF Submit
  <2>2. AfterCreate(media, c) \in AwaitPoints
    BY DEF AfterCreate, TxStart, AwaitPoints, InTx
  <2>5. [Unsent EXCEPT !.op = "submit", !.voice = v,
                       !.to = IF media THEN "PENDING" ELSE "PUBLISHED",
                       !.delta = IF media THEN 0 ELSE 1, !.at = AfterCreate(media, c)]
          \in Request
    <3> HIDE DEF TypeOK
    <3>1. "PENDING" \in Status /\ "PUBLISHED" \in Status /\ "ABSENT" \in Status
      BY DEF Status
    <3> QED
      BY <2>2, <3>1, RequestSent
  <2>3. req' \in [Requests -> Request]
    BY <2>1, <2>5 DEF Send
  <2>4. voice' \in [Voices -> Voice]
    BY <2>1 DEF Voice, Status
  <2> QED
    BY <1>1, <2>3, <2>4 DEF Submit
<1>2. ASSUME NEW r \in Requests, AnnounceVoice(r) PROVE TypeOK'
  BY <1>2, <1>g DEF AnnounceVoice, AwaitPoints, rows, book
<1>3. ASSUME NEW r \in Requests, SendWithdrawalLink(r) PROVE TypeOK'
  BY <1>3, <1>e, <1>v DEF SendWithdrawalLink, At, book
<1>4. ASSUME NEW r \in Requests, NEW v \in Voices, ReadByToken(r, v) PROVE TypeOK'
  <2>1. voice[v].status \in Status
    BY DEF Voice
  <2>2. [Unsent EXCEPT !.op = "withdraw", !.at = "write", !.voice = v,
                       !.was = voice[v].status, !.to = "WITHDRAWN"] \in Request
    <3>1. "WITHDRAWN" \in Status /\ "write" \in AwaitPoints
      BY DEF Status, AwaitPoints
    <3> QED
      BY <2>1, <3>1, RequestSent
  <2>3. req' \in [Requests -> Request]
    BY <1>4, <2>2 DEF ReadByToken, Send
  <2> QED
    BY <1>4, <2>3 DEF ReadByToken, rows, book
<1>5. ASSUME NEW r \in Requests, NEW v \in Voices, NEW to \in Decisions, ReadTarget(r, v, to)
      PROVE  TypeOK'
  <2>1. voice[v].status \in Status
    BY DEF Voice
  <2>2. [Unsent EXCEPT !.op = "decide", !.at = "write", !.voice = v,
                       !.was = voice[v].status, !.to = to] \in Request
    <3>1. to \in Status /\ "write" \in AwaitPoints
      BY DEF Status, AwaitPoints, Decisions
    <3> QED
      BY <2>1, <3>1, RequestSent
  <2>3. req' \in [Requests -> Request]
    BY <1>5, <2>2 DEF ReadTarget, Send
  <2> QED
    BY <1>5, <2>3 DEF ReadTarget, rows, book
<1>6. ASSUME NEW r \in Requests, NEW v \in Voices, DismissReport(r, v) PROVE TypeOK'
  <2>2. [Unsent EXCEPT !.op = "decide", !.at = "decision", !.voice = v,
                       !.to = "ABSENT"] \in Request
    <3>1. "ABSENT" \in Status /\ "decision" \in AwaitPoints
      BY DEF Status, AwaitPoints
    <3> QED
      BY <3>1, RequestSent
  <2>1. req' \in [Requests -> Request]
    BY <1>6, <2>2 DEF DismissReport, Send
  <2> QED
    BY <1>6, <2>1 DEF DismissReport, rows, book
<1>7. ASSUME NEW r \in Requests, WriteStatus(r) PROVE TypeOK'
  <2> DEFINE v     == req[r].voice
             delta == IF req[r].op = "withdraw" THEN WithdrawDelta(req[r].was)
                                                ELSE DecideDelta(req[r].was, req[r].to)
  <2>1. v \in Voices
    BY <1>7, <1>v DEF WriteStatus, At
  <2>2. delta \in {-1, 0, 1}
    BY DEF WithdrawDelta, DecideDelta
  <2>3. req[r].to \in Status
    BY DEF Request
  <2>4. voice' \in [Voices -> Voice]
    BY <1>7, <2>1, <2>3 DEF WriteStatus, Voice
  <2>5. CASE delta # 0
    <3>1. req' = [req EXCEPT ![r] =
                    [@ EXCEPT !.delta = delta, !.at = TxStart(delta, voice[v].country)]]
      BY <1>7, <2>5 DEF WriteStatus
    <3>2. TxStart(delta, voice[v].country) \in AwaitPoints
      BY DEF TxStart, AwaitPoints, InTx
    <3> HIDE DEF delta, v
    <3>3. req' \in [Requests -> Request]
      BY <2>2, <3>1, <3>2, FieldsOverwritten
    <3> QED
      BY <1>7, <2>1, <2>4, <3>3 DEF WriteStatus, book, v
  <2>6. CASE delta = 0
    <3>1. Goto(r, "decision") \/ End(r)
      BY <1>7, <2>6 DEF WriteStatus
    <3>2. req' \in [Requests -> Request]
      BY <3>1, <1>g, <1>e DEF AwaitPoints
    <3> QED
      BY <1>7, <2>1, <2>4, <3>2 DEF WriteStatus, book
  <2> QED
    BY <2>5, <2>6
<1>8. ASSUME NEW r \in Requests, LookForCountry(r) PROVE TypeOK'
  <2>1. (IF NewCountry(r) \in presence THEN "count" ELSE "insert") \in AwaitPoints
    BY DEF AwaitPoints, InTx
  <2> QED
    BY <1>8, <1>g, <2>1 DEF LookForCountry, rows, book
<1>9. ASSUME NEW r \in Requests, InsertCountry(r) PROVE TypeOK'
  <2>1. "count" \in AwaitPoints /\ req[r].voice \in Voices
    BY <1>9, <1>v DEF AwaitPoints, InTx, InsertCountry, At
  <2>3. [req[r] EXCEPT !.at = "count", !.holds = TRUE] \in Request
    BY <2>1, FieldsOverwritten, CountableSize
  <2>2. req' \in [Requests -> Request] /\ drifted' \subseteq Voices
    BY <1>9, <1>g, <1>e, <2>1, <2>3 DEF InsertCountry
  <2>4. Decision(r) \in [voice : Voices, to : Status]
    BY <2>1 DEF Decision, Request
  <2> QED
    BY <1>9, <2>2, <2>4 DEF InsertCountry, CutShort, book
<1>10. ASSUME NEW r \in Requests, CountCountries(r) PROVE TypeOK'
  <2>1. Cardinality(Countable(r)) \in 0..Cardinality(Countries)
    BY CountableSize
  <2>2. req' \in [Requests -> Request]
    BY <1>10, <2>1, FieldsOverwritten DEF CountCountries, AwaitPoints, InTx
  <2> QED
    BY <1>10, <2>2 DEF CountCountries, rows, book
<1>11. ASSUME NEW r \in Requests, CommitAdjust(r) PROVE TypeOK'
  <2>1. req[r].voice \in Voices /\ req[r].delta \in Int
    BY <1>11, <1>v DEF CommitAdjust, At, Request
  <2>2. AfterAdjust(req[r].op) \in AwaitPoints \union {"none"}
    BY DEF AfterAdjust, AwaitPoints
  <2>3. req' \in [Requests -> Request]
    <3>1. CASE AfterAdjust(req[r].op) = "none"
      BY <1>11, <1>e, <3>1 DEF CommitAdjust
    <3>2. CASE AfterAdjust(req[r].op) # "none"
      <4>1. AfterAdjust(req[r].op) \in AwaitPoints
        BY <2>2, <3>2
      <4>2. \A n \in 0..Cardinality(Countries) :
              [req[r] EXCEPT !.at = AfterAdjust(req[r].op), !.delta = 0, !.holds = FALSE]
                \in Request
        BY <4>1, FieldsOverwritten
      <4>3. [req[r] EXCEPT !.at = AfterAdjust(req[r].op), !.delta = 0, !.holds = FALSE]
              \in Request
        BY <4>2, CountableSize
      <4> QED
        BY <1>11, <3>2, <4>3 DEF CommitAdjust
    <3> QED
      BY <3>1, <3>2
  <2>4. presence' \subseteq Countries
    BY <1>11, CountableSize DEF CommitAdjust
  <2>5. counter' \in [exists : BOOLEAN, total : Int, countries : 0..Cardinality(Countries)]
    <3>1. NewTotal(req[r].delta) \in Int
      BY <2>1 DEF NewTotal
    <3>2. req[r].count \in 0..Cardinality(Countries)
      BY DEF Request
    <3> QED
      BY <1>11, <3>1, <3>2 DEF CommitAdjust
  <2>6. net' \in [Voices -> Int]
    BY <1>11, <2>1 DEF CommitAdjust
  <2> QED
    BY <1>11, <2>3, <2>4, <2>5, <2>6 DEF CommitAdjust, rows
<1>12. ASSUME NEW r \in Requests, RecordDecision(r) PROVE TypeOK'
  <2>1. Decision(r) \in [voice : Voices, to : Status]
    BY <1>12, <1>v DEF RecordDecision, At, Decision, Request
  <2>2. req' \in [Requests -> Request]
    BY <1>12, <1>g, <1>e DEF RecordDecision, AwaitPoints
  <2> QED
    BY <1>12, <2>1, <2>2 DEF RecordDecision, CutShort, book
<1>13. ASSUME NEW r \in Requests, RecordAudit(r) PROVE TypeOK'
  <2>1. Decision(r) \in decisions
    BY <1>13 DEF RecordAudit, At, Knowledge, ReqKnows, InFlightKnows
  <2> QED
    BY <1>13, <1>e, <2>1 DEF RecordAudit, book
<1>14. ASSUME RemoveVoicesOfMember PROVE TypeOK'
  <2>1. voice' \in [Voices -> Voice]
    BY <1>14 DEF RemoveVoicesOfMember, Voice, Status
  <2>2. drifted' \subseteq Voices
    BY <1>14 DEF RemoveVoicesOfMember, Published
  <2> QED
    BY <1>14, <2>1, <2>2 DEF RemoveVoicesOfMember, book
<1>15. ASSUME NEW r \in Requests, Crash(r) PROVE TypeOK'
  <2>1. crashes' \in 0..MaxCrashes
    BY <1>15, BoundsAssumption DEF Crash
  <2>2. drifted' \subseteq Voices
    BY <1>15, <1>v DEF Crash, InTx
  <2>3. unrecorded' \subseteq [voice : Voices, to : Status]
    <3>1. TookEffect(r) => Decision(r) \in [voice : Voices, to : Status]
      BY <1>v DEF TookEffect, InTx, Decision, Request
    <3> QED
      BY <1>15, <3>1 DEF Crash, CutShort
  <2> QED
    BY <1>15, <1>e, <2>1, <2>2, <2>3 DEF Crash, book
<1>16. ASSUME UNCHANGED vars PROVE TypeOK'
  BY <1>16 DEF vars
<1> QED
  BY <1>1, <1>2, <1>3, <1>4, <1>5, <1>6, <1>7, <1>8, <1>9, <1>10, <1>11, <1>12,
     <1>13, <1>14, <1>15, <1>16 DEF Next, Continue, NewRequest, AllServed

-----------------------------------------------------------------------------
(* What a request relies on survives the steps of the others.                *)

Others(r) == \A q \in Requests \ {r} : req'[q] = req[q]

RowsGrow ==
  /\ presence \subseteq presence' /\ decisions \subseteq decisions'
  /\ \A v \in Voices : voice[v].status # "ABSENT" =>
       voice'[v].status # "ABSENT" /\ voice'[v].country = voice[v].country

(* Rows that only grow take nothing from a request that did not move.        *)
LEMMA KnowledgeKept ==
  ASSUME TypeOK, TypeOK', Knowledge, RowsGrow, NEW q \in Requests, req'[q] = req[q]
  PROVE  ReqKnows(q)'
<1> USE DEF TypeOK
<1>k. ReqKnows(q)
  BY DEF Knowledge
<1>1. InFlightKnows(q)'
  <2>1. Decision(q)' = Decision(q)
    BY DEF Decision
  <2> QED
    BY <1>k, <2>1 DEF ReqKnows, InFlightKnows, RowsGrow, InTx
<1>2. ASSUME req[q].at \in InTx PROVE NewCountry(q)' = NewCountry(q)
  BY <1>k, <1>2 DEF ReqKnows, InFlightKnows, NewCountry, RowsGrow, InTx
<1>3. ASSUME req[q].at \in InTx PROVE OwnCountry(q)' = OwnCountry(q)
  BY <1>2, <1>3 DEF OwnCountry
<1>4. ASSUME req[q].at = "commit"
      PROVE  req'[q].count <= Cardinality(PresenceWith(q)')
  <2>1. /\ IsFiniteSet(Countable(q)) /\ PresenceWith(q) = Countable(q)
    BY CountableSize
  <2>2. PresenceWith(q) \subseteq PresenceWith(q)' /\ PresenceWith(q)' \subseteq Countries
    BY <1>k, <1>2, <1>3, <1>4 DEF PresenceWith, RowsGrow, InTx, OwnCountry, ReqKnows, TxKnows
  <2>3. IsFiniteSet(PresenceWith(q)')
    BY <2>2, FiniteAssumption, FS_Subset
  <2>4. Cardinality(PresenceWith(q)) <= Cardinality(PresenceWith(q)')
    BY <2>2, <2>3, FS_Subset
  <2>5. Cardinality(PresenceWith(q)) \in Nat /\ Cardinality(PresenceWith(q)') \in Nat
    BY <2>1, <2>3, FS_CardinalityType
  <2>6. req[q].count <= Cardinality(PresenceWith(q)) /\ req[q].count \in Int
    BY <1>k, <1>4 DEF ReqKnows, TxKnows, Request
  <2> QED
    BY <2>4, <2>5, <2>6
<1>5. TxKnows(q)'
  BY <1>k, <1>2, <1>3, <1>4 DEF ReqKnows, TxKnows, RowsGrow, InTx
<1> QED
  BY <1>1, <1>5 DEF ReqKnows

(* No step takes a row of presence or a decision away, or a voice, or its    *)
(* country.                                                                  *)
LEMMA NextRowsGrow ==
  ASSUME TypeOK, Knowledge, [Next]_vars
  PROVE  RowsGrow
<1> USE DEF TypeOK, RowsGrow
<1>1. ASSUME NEW r \in Requests, NEW v \in Voices, NEW c \in Countries \union {NoCountry},
             Submit(r, v, c)
      PROVE  RowsGrow
  BY <1>1 DEF Submit
<1>2. ASSUME NEW r \in Requests, WriteStatus(r) PROVE RowsGrow
  <2>1. req[r].voice \in Voices /\ req[r].to # "ABSENT"
    BY <1>2 DEF WriteStatus, At, Knowledge, ReqKnows, InFlightKnows
  <2>2. \A v \in Voices : voice[v] \in Voice
    OBVIOUS
  <2>3. voice' = [voice EXCEPT ![req[r].voice] = [@ EXCEPT !.status = req[r].to]]
    BY <1>2 DEF WriteStatus
  <2> QED
    BY <1>2, <2>1, <2>2, <2>3 DEF WriteStatus, book, Voice
<1>3. ASSUME RemoveVoicesOfMember PROVE RowsGrow
  BY <1>3 DEF RemoveVoicesOfMember, book, Voice
<1>4. ASSUME NEW r \in Requests, CommitAdjust(r) PROVE RowsGrow
  BY <1>4 DEF CommitAdjust, rows, PresenceWith
<1>5. ASSUME UNCHANGED <<voice, presence>>, decisions \subseteq decisions' PROVE RowsGrow
  BY <1>5
<1>6. ASSUME NEW r \in Requests,
             \/ AnnounceVoice(r) \/ SendWithdrawalLink(r) \/ LookForCountry(r)
             \/ InsertCountry(r) \/ CountCountries(r)
             \/ RecordDecision(r) \/ RecordAudit(r) \/ Crash(r)
      PROVE  UNCHANGED <<voice, presence>> /\ decisions \subseteq decisions'
  BY <1>6 DEF AnnounceVoice, SendWithdrawalLink, LookForCountry, InsertCountry,
              CountCountries, RecordDecision, RecordAudit, Crash, rows, book
<1>7. ASSUME NEW r \in Requests, NEW v \in Voices,
             \/ ReadByToken(r, v) \/ DismissReport(r, v)
             \/ \E to \in Decisions : ReadTarget(r, v, to)
      PROVE  UNCHANGED <<voice, presence>> /\ decisions \subseteq decisions'
  BY <1>7 DEF ReadByToken, DismissReport, ReadTarget, rows, book
<1>8. ASSUME UNCHANGED vars PROVE RowsGrow
  BY <1>8 DEF vars
<1> QED
  BY <1>1, <1>2, <1>3, <1>4, <1>5, <1>6, <1>7, <1>8
     DEF Next, Continue, NewRequest, AllServed

-----------------------------------------------------------------------------
(* A step moves one request, and that one knows what its next await needs.   *)

(* A request that is over relies on nothing.                                 *)
LEMMA OverKnows ==
  ASSUME NEW r \in Requests, req'[r] \in {Unsent, Served}
  PROVE  ReqKnows(r)'
<1>1. InFlightKnows(r)'
  BY RequestTypes DEF InFlightKnows, InTx
<1>2. TxKnows(r)'
  BY RequestTypes DEF TxKnows
<1> QED
  BY <1>1, <1>2 DEF ReqKnows

(* A request outside its transaction has nothing to tell of the counter.     *)
LEMMA OutsideKnows ==
  ASSUME NEW r \in Requests, InFlightKnows(r)', req'[r].at \notin InTx, ~req'[r].holds
  PROVE  ReqKnows(r)'
  BY DEF InFlightKnows, TxKnows, ReqKnows, InTx

LEMMA OneRequestSteps ==
  ASSUME TypeOK, TypeOK', Knowledge, NEW r \in Requests,
         Continue(r) \/ NewRequest(r) \/ Crash(r)
  PROVE  Others(r) /\ ReqKnows(r)'
<1> USE DEF TypeOK, Others
<1>k. ReqKnows(r) /\ req[r] \in Request /\ req'[r] \in Request
  BY DEF Knowledge
<1>g. ASSUME NEW at \in AwaitPoints, Goto(r, at)
      PROVE  /\ Others(r) /\ req'[r] = [req[r] EXCEPT !.at = at]
             /\ req'[r].at = at /\ req'[r].op = req[r].op /\ req'[r].voice = req[r].voice
             /\ req'[r].to = req[r].to /\ req'[r].delta = req[r].delta
             /\ req'[r].holds = req[r].holds /\ req'[r].count = req[r].count
  BY <1>g, <1>k DEF Goto, Request
<1>e. ASSUME End(r) PROVE Others(r) /\ ReqKnows(r)'
  BY <1>e, OverKnows DEF End
<1>r. RowsGrow
  BY NextRowsGrow DEF Next
<1>1. ASSUME NEW v \in Voices, NEW c \in Countries \union {NoCountry}, Submit(r, v, c)
      PROVE  Others(r) /\ ReqKnows(r)'
  <2>1. PICK media \in BOOLEAN :
          LET status == IF media THEN "PENDING" ELSE "PUBLISHED"
          IN /\ voice' = [voice EXCEPT ![v] = [status |-> status, country |-> c]]
             /\ Send(r, [Unsent EXCEPT !.op = "submit", !.voice = v, !.to = status,
                           !.delta = IF media THEN 0 ELSE 1,
                           !.at = AfterCreate(media, c)])
    BY <1>1 DEF Submit
  <2>2. /\ Others(r) /\ req'[r].op = "submit" /\ req'[r].voice = v
        /\ req'[r].delta = (IF media THEN 0 ELSE 1)
        /\ req'[r].at = AfterCreate(media, c) /\ ~req'[r].holds
    BY <2>1, RequestTypes DEF Send, Request
  <2>3. voice'[v].country = c /\ voice'[v].status # "ABSENT"
    BY <2>1
  <2>4. NewCountry(r)' = IF media THEN NoCountry ELSE c
    BY <2>2, <2>3 DEF NewCountry
  <2>5. /\ media => AfterCreate(media, c) = "mail"
        /\ ~media /\ c # NoCountry => AfterCreate(media, c) = "look"
        /\ ~media /\ c = NoCountry => AfterCreate(media, c) = "count"
    BY DEF AfterCreate, TxStart
  <2>6. InFlightKnows(r)'
    BY <2>2, <2>3, <2>5 DEF InFlightKnows, InTx
  <2>7. TxKnows(r)'
    BY <2>2, <2>4, <2>5 DEF TxKnows
  <2> QED
    BY <2>2, <2>6, <2>7 DEF ReqKnows
<1>2. ASSUME AnnounceVoice(r) PROVE Others(r) /\ ReqKnows(r)'
  <2>1. /\ "mail" \in AwaitPoints /\ Goto(r, "mail") /\ At(r, "announce")
        /\ UNCHANGED voice
    BY <1>2 DEF AnnounceVoice, AwaitPoints, rows
  <2>2. InFlightKnows(r)' /\ ~req'[r].holds
    BY <1>g, <1>k, <2>1 DEF InFlightKnows, TxKnows, ReqKnows, InTx, At
  <2> QED
    BY <1>g, <2>1, <2>2, OutsideKnows DEF InTx
<1>3. ASSUME SendWithdrawalLink(r) PROVE Others(r) /\ ReqKnows(r)'
  BY <1>3, <1>e DEF SendWithdrawalLink
<1>4. ASSUME NEW v \in Voices, ReadByToken(r, v) PROVE Others(r) /\ ReqKnows(r)'
  <2>1. /\ Others(r) /\ req'[r].op = "withdraw" /\ req'[r].at = "write"
        /\ req'[r].voice = v /\ req'[r].to = "WITHDRAWN" /\ req'[r].delta = 0
        /\ ~req'[r].holds
    BY <1>4, RequestTypes DEF ReadByToken, Send, Request
  <2>2. voice'[v].status # "ABSENT"
    BY <1>4 DEF ReadByToken, rows, Knowledge, Rows
  <2> QED
    BY <2>1, <2>2, OutsideKnows DEF InFlightKnows, InTx
<1>5. ASSUME NEW v \in Voices, NEW to \in Decisions, ReadTarget(r, v, to)
      PROVE  Others(r) /\ ReqKnows(r)'
  <2>1. /\ Others(r) /\ req'[r].op = "decide" /\ req'[r].at = "write"
        /\ req'[r].voice = v /\ req'[r].to = to /\ req'[r].delta = 0
        /\ ~req'[r].holds
    BY <1>5, RequestTypes DEF ReadTarget, Send, Request
  <2>2. voice'[v].status # "ABSENT" /\ to # "ABSENT"
    BY <1>5 DEF ReadTarget, rows, Decisions
  <2> QED
    BY <2>1, <2>2, OutsideKnows DEF InFlightKnows, InTx
<1>6. ASSUME NEW v \in Voices, DismissReport(r, v) PROVE Others(r) /\ ReqKnows(r)'
  <2>1. /\ Others(r) /\ req'[r].op = "decide" /\ req'[r].at = "decision"
        /\ req'[r].voice = v /\ req'[r].delta = 0 /\ ~req'[r].holds
    BY <1>6, RequestTypes DEF DismissReport, Send, Request
  <2> QED
    BY <2>1, OutsideKnows DEF InFlightKnows, InTx
<1>7. ASSUME WriteStatus(r) PROVE Others(r) /\ ReqKnows(r)'
  <2> DEFINE v     == req[r].voice
             delta == IF req[r].op = "withdraw" THEN WithdrawDelta(req[r].was)
                                                ELSE DecideDelta(req[r].was, req[r].to)
  <2>1. /\ At(r, "write") /\ v \in Voices /\ ~req[r].holds /\ req[r].delta = 0
        /\ req[r].op \in {"withdraw", "decide"} /\ voice[v].status # "ABSENT"
    BY <1>7, <1>k DEF WriteStatus, At, ReqKnows, InFlightKnows, TxKnows, InTx
  <2>2. voice'[v].status # "ABSENT" /\ voice'[v].country = voice[v].country
    BY <1>r, <2>1 DEF RowsGrow
  <2>3. /\ delta \in {-1, 0, 1}
        /\ delta = 1 => req[r].op = "decide" /\ req[r].to = "PUBLISHED"
    BY <2>1 DEF WithdrawDelta, DecideDelta
  <2>4. CASE delta # 0
    <3>1. req' = [req EXCEPT ![r] =
                    [@ EXCEPT !.delta = delta, !.at = TxStart(delta, voice[v].country)]]
      BY <1>7, <2>4 DEF WriteStatus
    <3> HIDE DEF delta
    <3>2. /\ Others(r) /\ req'[r].delta = delta
          /\ req'[r].at = TxStart(delta, voice[v].country)
          /\ req'[r].op = req[r].op /\ req'[r].voice = v /\ req'[r].to = req[r].to
          /\ ~req'[r].holds
      BY <1>k, <2>1, <3>1 DEF Request
    <3>3. /\ delta = 1 /\ voice[v].country # NoCountry => req'[r].at = "look"
          /\ ~(delta = 1 /\ voice[v].country # NoCountry) => req'[r].at = "count"
      BY <3>2 DEF TxStart
    <3>4. NewCountry(r)' = IF delta = 1 THEN voice[v].country ELSE NoCountry
      BY <2>2, <3>2 DEF NewCountry
    <3>5. voice[v].country \in Countries \union {NoCountry}
      BY <2>1 DEF Voice
    <3>6. InFlightKnows(r)'
      BY <2>1, <2>2, <2>3, <2>4, <3>2, <3>3 DEF InFlightKnows, InTx
    <3>7. TxKnows(r)'
      BY <3>2, <3>3, <3>4, <3>5 DEF TxKnows
    <3> QED
      BY <3>2, <3>6, <3>7 DEF ReqKnows
  <2>5. CASE delta = 0 /\ req[r].op = "decide"
    <3>1. Goto(r, "decision") /\ "decision" \in AwaitPoints
      BY <1>7, <2>5 DEF WriteStatus, AwaitPoints
    <3>2. InFlightKnows(r)' /\ ~req'[r].holds
      BY <1>g, <2>1, <2>2, <2>5, <3>1 DEF InFlightKnows, InTx
    <3> QED
      BY <1>g, <3>1, <3>2, OutsideKnows DEF InTx
  <2>6. CASE delta = 0 /\ req[r].op # "decide"
    <3>1. End(r)
      BY <1>7, <2>6 DEF WriteStatus
    <3> QED
      BY <3>1, <1>e
  <2> QED
    BY <2>4, <2>5, <2>6
<1>8. ASSUME LookForCountry(r) PROVE Others(r) /\ ReqKnows(r)'
  <2> DEFINE to == IF NewCountry(r) \in presence THEN "count" ELSE "insert"
  <2>1. /\ to \in AwaitPoints /\ Goto(r, to) /\ At(r, "look")
        /\ UNCHANGED <<voice, presence>>
    BY <1>8 DEF LookForCountry, AwaitPoints, InTx, rows, book
  <2>2. InFlightKnows(r)'
    BY <1>g, <1>k, <2>1 DEF InFlightKnows, ReqKnows, At, InTx
  <2>3. NewCountry(r)' = NewCountry(r) /\ ~req'[r].holds
    BY <1>g, <1>k, <2>1 DEF NewCountry, ReqKnows, TxKnows, At
  <2>4. TxKnows(r)'
    BY <1>g, <1>k, <2>1, <2>3 DEF TxKnows, ReqKnows, At
  <2> QED
    BY <1>g, <2>1, <2>2, <2>4 DEF ReqKnows
<1>9. ASSUME InsertCountry(r) PROVE Others(r) /\ ReqKnows(r)'
  <2>1. "count" \in AwaitPoints /\ At(r, "insert") /\ UNCHANGED <<voice, presence>>
    BY <1>9 DEF InsertCountry, AwaitPoints, InTx, rows, book
  <2>2. CASE NewCountry(r) \in presence /\ Goto(r, "count")
    <3>1. InFlightKnows(r)'
      BY <1>g, <1>k, <2>1, <2>2 DEF InFlightKnows, ReqKnows, At, InTx
    <3>2. NewCountry(r)' = NewCountry(r) /\ ~req'[r].holds
      BY <1>g, <1>k, <2>1, <2>2 DEF NewCountry, ReqKnows, TxKnows, At
    <3>3. TxKnows(r)'
      BY <1>g, <1>k, <2>1, <2>2, <3>2 DEF TxKnows, ReqKnows, At
    <3> QED
      BY <1>g, <2>1, <2>2, <3>1, <3>3 DEF ReqKnows
  <2>3. CASE NewCountry(r) \in presence /\ End(r)
    BY <1>e, <2>3
  <2>4. CASE NewCountry(r) \notin presence
    <3>1. req' = [req EXCEPT ![r] = [@ EXCEPT !.at = "count", !.holds = TRUE]]
      BY <1>9, <2>4 DEF InsertCountry
    <3>2. /\ Others(r) /\ req'[r].at = "count" /\ req'[r].holds
          /\ req'[r].op = req[r].op /\ req'[r].voice = req[r].voice
          /\ req'[r].to = req[r].to /\ req'[r].delta = req[r].delta
      BY <1>k, <3>1 DEF Request
    <3>3. InFlightKnows(r)'
      BY <1>k, <2>1, <3>2 DEF InFlightKnows, ReqKnows, At, InTx
    <3>4. NewCountry(r)' = NewCountry(r)
      BY <2>1, <3>2 DEF NewCountry
    <3>5. TxKnows(r)'
      BY <1>k, <2>1, <3>2, <3>4 DEF TxKnows, ReqKnows, At, OwnCountry
    <3> QED
      BY <3>2, <3>3, <3>5 DEF ReqKnows
  <2> QED
    BY <1>9, <2>2, <2>3, <2>4 DEF InsertCountry
<1>10. ASSUME CountCountries(r) PROVE Others(r) /\ ReqKnows(r)'
  <2>1. /\ At(r, "count") /\ UNCHANGED <<voice, presence>>
        /\ req' = [req EXCEPT ![r] = [@ EXCEPT !.at = "commit",
                                               !.count = Cardinality(Countable(r))]]
    BY <1>10 DEF CountCountries, rows, book
  <2>2. /\ Others(r) /\ req'[r].at = "commit" /\ req'[r].holds = req[r].holds
        /\ req'[r].count = Cardinality(Countable(r))
        /\ req'[r].op = req[r].op /\ req'[r].voice = req[r].voice
        /\ req'[r].to = req[r].to /\ req'[r].delta = req[r].delta
    BY <1>k, <2>1 DEF Request
  <2>3. InFlightKnows(r)'
    BY <1>k, <2>1, <2>2 DEF InFlightKnows, ReqKnows, At, InTx
  <2>4. NewCountry(r)' = NewCountry(r)
    BY <2>1, <2>2 DEF NewCountry
  <2>5. OwnCountry(r)' = OwnCountry(r)
    BY <2>2, <2>4 DEF OwnCountry
  <2>6. PresenceWith(r)' = Countable(r)
    BY <2>1, <2>5 DEF PresenceWith, Countable
  <2>7. req'[r].count <= Cardinality(PresenceWith(r)')
    <3>1. Cardinality(Countable(r)) \in 0..Cardinality(Countries)
      BY CountableSize
    <3>2. Cardinality(Countable(r)) <= Cardinality(Countable(r))
      BY <3>1
    <3> QED
      BY <2>2, <2>6, <3>2
  <2>8. TxKnows(r)'
    BY <1>k, <2>1, <2>2, <2>4, <2>5, <2>7 DEF TxKnows, ReqKnows, At
  <2> QED
    BY <2>2, <2>3, <2>8 DEF ReqKnows
<1>11. ASSUME CommitAdjust(r) PROVE Others(r) /\ ReqKnows(r)'
  <2>1. At(r, "commit") /\ UNCHANGED voice
    BY <1>11 DEF CommitAdjust, rows
  <2>2. CASE AfterAdjust(req[r].op) = "none"
    BY <1>11, <1>e, <2>2 DEF CommitAdjust
  <2>3. CASE AfterAdjust(req[r].op) # "none"
    <3>1. req' = [req EXCEPT ![r] = [@ EXCEPT !.at = AfterAdjust(req[r].op),
                                              !.delta = 0, !.holds = FALSE]]
      BY <1>11, <2>3 DEF CommitAdjust
    <3>2. /\ Others(r) /\ req'[r].at = AfterAdjust(req[r].op)
          /\ req'[r].delta = 0 /\ ~req'[r].holds
          /\ req'[r].op = req[r].op /\ req'[r].voice = req[r].voice
      BY <1>k, <3>1 DEF Request
    <3>3. AfterAdjust(req[r].op) \in {"announce", "decision"}
      BY <2>3 DEF AfterAdjust
    <3>4. InFlightKnows(r)'
      BY <1>k, <2>1, <3>2, <3>3 DEF InFlightKnows, ReqKnows, At, InTx
    <3> QED
      BY <3>2, <3>3, <3>4, OutsideKnows DEF InTx
  <2> QED
    BY <2>2, <2>3
<1>12. ASSUME RecordDecision(r) PROVE Others(r) /\ ReqKnows(r)'
  <2>1. CASE End(r)
    BY <2>1, <1>e
  <2>2. CASE Goto(r, "audit") /\ decisions' = decisions \union {Decision(r)}
    <3>1. /\ "audit" \in AwaitPoints /\ At(r, "decision")
          /\ decisions' = decisions \union {Decision(r)}
      BY <1>12, <2>2 DEF RecordDecision, AwaitPoints
    <3>2. Decision(r)' = Decision(r) /\ ~req'[r].holds
      BY <1>g, <1>k, <2>2, <3>1 DEF Decision, ReqKnows, TxKnows, At
    <3>3. InFlightKnows(r)'
      BY <1>g, <1>k, <2>2, <3>1, <3>2 DEF InFlightKnows, ReqKnows, At, InTx
    <3> QED
      BY <1>g, <2>2, <3>1, <3>2, <3>3, OutsideKnows DEF InTx
  <2> QED
    BY <1>12, <2>1, <2>2 DEF RecordDecision
<1>13. ASSUME RecordAudit(r) PROVE Others(r) /\ ReqKnows(r)'
  BY <1>13, <1>e DEF RecordAudit
<1>14. ASSUME Crash(r) PROVE Others(r) /\ ReqKnows(r)'
  BY <1>14, <1>e DEF Crash
<1> QED
  BY <1>1, <1>2, <1>3, <1>4, <1>5, <1>6, <1>7, <1>8, <1>9, <1>10, <1>11, <1>12,
     <1>13, <1>14 DEF Continue, NewRequest

-----------------------------------------------------------------------------
(* A step preserves what the rows and the requests know of each other.       *)

(* A voice with a link or a share of the total has been submitted.           *)
LEMMA RowsStep ==
  ASSUME TypeOK, TypeOK', Knowledge, [Next]_vars
  PROVE  Rows'
<1> USE DEF TypeOK
<1>r. RowsGrow
  BY NextRowsGrow
<1>k. ASSUME NEW r \in Requests, req[r].at \notin {"none", "decision", "audit"}
      PROVE  req[r].voice \in Voices /\ voice[req[r].voice].status # "ABSENT"
  BY <1>k DEF Knowledge, ReqKnows, InFlightKnows
<1>1. mailed' = mailed \/ \E r \in Requests : /\ At(r, "mail")
                                              /\ mailed' = mailed \union {req[r].voice}
  BY DEF Next, Continue, NewRequest, AllServed, Submit, AnnounceVoice, SendWithdrawalLink,
         ReadByToken, ReadTarget, DismissReport, WriteStatus, LookForCountry,
         InsertCountry, CountCountries, CommitAdjust, RecordDecision, RecordAudit,
         RemoveVoicesOfMember, Crash, rows, book, vars
<1>2. \A v \in mailed' : voice'[v].status # "ABSENT"
  BY <1>1, <1>k, <1>r DEF At, RowsGrow, Knowledge, Rows
<1>3. net' = net \/ \E r \in Requests :
        /\ At(r, "commit")
        /\ net' = [net EXCEPT ![req[r].voice] = @ + req[r].delta]
  BY DEF Next, Continue, NewRequest, AllServed, Submit, AnnounceVoice, SendWithdrawalLink,
         ReadByToken, ReadTarget, DismissReport, WriteStatus, LookForCountry,
         InsertCountry, CountCountries, CommitAdjust, RecordDecision, RecordAudit,
         RemoveVoicesOfMember, Crash, rows, book, vars
<1>4. ASSUME NEW v \in Voices, voice'[v].status = "ABSENT" PROVE net'[v] = 0
  <2>1. voice[v].status = "ABSENT" /\ net[v] = 0
    BY <1>4, <1>r DEF RowsGrow, Knowledge, Rows
  <2>2. ASSUME NEW r \in Requests, At(r, "commit") PROVE req[r].voice # v
    BY <1>k, <2>1, <2>2 DEF At
  <2> QED
    BY <1>3, <2>1, <2>2
<1> QED
  BY <1>2, <1>4 DEF Rows

LEMMA KnowledgeStep ==
  ASSUME TypeOK, TypeOK', Knowledge, [Next]_vars
  PROVE  Knowledge'
<1>1. Rows' /\ RowsGrow
  BY RowsStep, NextRowsGrow
<1>2. ASSUME NEW r \in Requests, Continue(r) \/ NewRequest(r) \/ Crash(r),
             NEW q \in Requests
      PROVE  ReqKnows(q)'
  <2>1. Others(r) /\ ReqKnows(r)'
    BY <1>2, OneRequestSteps
  <2>2. CASE q # r
    BY <1>1, <2>1, <2>2, KnowledgeKept DEF Others
  <2> QED
    BY <2>1, <2>2
<1>3. ASSUME req' = req, NEW q \in Requests PROVE ReqKnows(q)'
  BY <1>1, <1>3, KnowledgeKept
<1>4. RemoveVoicesOfMember \/ UNCHANGED vars => req' = req
  BY DEF RemoveVoicesOfMember, vars
<1>5. \A q \in Requests : ReqKnows(q)'
  BY <1>2, <1>3, <1>4 DEF Next, AllServed
<1> QED
  BY <1>1, <1>5 DEF Knowledge

-----------------------------------------------------------------------------
(* The count: what a step moves between a voice's adjustments on their way   *)
(* and its share of the total.                                               *)

Wall(v)     == IF v \in Published THEN 1 ELSE 0
Share(r, v) == IF req[r].voice = v THEN req[r].delta ELSE 0

(* The size of a set after the membership of one element changed.            *)
LEMMA OneElementMoves ==
  ASSUME NEW S, NEW T, NEW x, IsFiniteSet(S), IsFiniteSet(T), S \ {x} = T \ {x}
  PROVE  /\ Cardinality(S) \in Nat /\ Cardinality(T) \in Nat
         /\ Cardinality(T) = Cardinality(S) - (IF x \in S THEN 1 ELSE 0)
                                            + (IF x \in T THEN 1 ELSE 0)
<1>1. Cardinality(S) \in Nat /\ Cardinality(T) \in Nat
  BY FS_CardinalityType
<1>2. /\ IsFiniteSet(S \ {x})
      /\ Cardinality(S \ {x}) = IF x \in S THEN Cardinality(S) - 1 ELSE Cardinality(S)
  BY FS_RemoveElement
<1>3. Cardinality(T \ {x}) = IF x \in T THEN Cardinality(T) - 1 ELSE Cardinality(T)
  BY FS_RemoveElement
<1> QED
  BY <1>1, <1>2, <1>3

(* When one request moves, the adjustments of v on their way change by what  *)
(* that request was to add to v.                                             *)
LEMMA OneShareMoves ==
  ASSUME TypeOK, TypeOK', NEW r \in Requests, Others(r), NEW v \in Voices
  PROVE  /\ Cardinality(Adding(v)) \in Nat /\ Cardinality(Adding(v)') \in Nat
         /\ Cardinality(Removing(v)) \in Nat /\ Cardinality(Removing(v)') \in Nat
         /\ Cardinality(Adding(v)') - Cardinality(Removing(v)') - Share(r, v)'
              = Cardinality(Adding(v)) - Cardinality(Removing(v)) - Share(r, v)
<1>1. /\ IsFiniteSet(Adding(v)) /\ IsFiniteSet(Adding(v)')
      /\ IsFiniteSet(Removing(v)) /\ IsFiniteSet(Removing(v)')
  <2>1. /\ Adding(v) \subseteq Requests /\ Adding(v)' \subseteq Requests
        /\ Removing(v) \subseteq Requests /\ Removing(v)' \subseteq Requests
    BY DEF Adding, Removing
  <2> QED
    BY <2>1, FiniteAssumption, FS_Subset
<1>2. Adding(v) \ {r} = Adding(v)' \ {r}
  BY DEF Adding, Others
<1>3. Removing(v) \ {r} = Removing(v)' \ {r}
  BY DEF Removing, Others
<1>4. /\ Cardinality(Adding(v)) \in Nat /\ Cardinality(Adding(v)') \in Nat
      /\ Cardinality(Adding(v)') = Cardinality(Adding(v))
           - (IF r \in Adding(v) THEN 1 ELSE 0) + (IF r \in Adding(v)' THEN 1 ELSE 0)
  BY <1>1, <1>2, OneElementMoves
<1>5. /\ Cardinality(Removing(v)) \in Nat /\ Cardinality(Removing(v)') \in Nat
      /\ Cardinality(Removing(v)') = Cardinality(Removing(v))
           - (IF r \in Removing(v) THEN 1 ELSE 0) + (IF r \in Removing(v)' THEN 1 ELSE 0)
  BY <1>1, <1>3, OneElementMoves
<1>6. req[r].delta \in {-1, 0, 1} /\ req'[r].delta \in {-1, 0, 1}
  BY DEF TypeOK, Request
<1>7. Share(r, v) = (IF r \in Adding(v) THEN 1 ELSE 0) - (IF r \in Removing(v) THEN 1 ELSE 0)
  BY <1>6 DEF Share, Adding, Removing
<1>8. Share(r, v)' = (IF r \in Adding(v)' THEN 1 ELSE 0) - (IF r \in Removing(v)' THEN 1 ELSE 0)
  BY <1>6 DEF Share, Adding, Removing
<1> QED
  BY <1>4, <1>5, <1>7, <1>8

(* A step of one request keeps the count of v when what it changes of the    *)
(* total and of its own adjustment is what it changes on the Wall.           *)
LEMMA CountKept ==
  ASSUME TypeOK, TypeOK', CountsWhatIsPublished, NEW r \in Requests, Others(r),
         drifted \subseteq drifted',
         \A v \in Voices \ drifted' :
           net'[v] + Share(r, v)' - Wall(v)' = net[v] + Share(r, v) - Wall(v)
  PROVE  CountsWhatIsPublished'
<1> SUFFICES ASSUME NEW v \in Voices \ drifted'
             PROVE  net'[v] + Cardinality(Adding(v)') - Cardinality(Removing(v)') = Wall(v)'
  BY DEF CountsWhatIsPublished, Wall
<1>1. net[v] + Cardinality(Adding(v)) - Cardinality(Removing(v)) = Wall(v)
  BY DEF CountsWhatIsPublished, Wall
<1>2. net[v] \in Int /\ net'[v] \in Int
  BY DEF TypeOK
<1>3. Wall(v) \in Int /\ Wall(v)' \in Int
  BY DEF Wall
<1>4. Share(r, v) \in Int /\ Share(r, v)' \in Int
  BY DEF Share, TypeOK, Request
<1>5. net'[v] + Share(r, v)' - Wall(v)' = net[v] + Share(r, v) - Wall(v)
  OBVIOUS
<1> HIDE DEF Wall, Share
<1> QED
  BY <1>1, <1>2, <1>3, <1>4, <1>5, OneShareMoves

(* A step keeps the count of every voice that has not drifted.               *)
LEMMA CountStep ==
  ASSUME TypeOK, TypeOK', Knowledge, CountsWhatIsPublished, [Next]_vars
  PROVE  CountsWhatIsPublished'
<1> USE DEF TypeOK
<1>k. ASSUME NEW r \in Requests
      PROVE  /\ InFlightKnows(r) /\ req[r] \in Request /\ req'[r] \in Request
             /\ req[r].at \notin InTx => req[r].delta = 0
  BY DEF Knowledge, ReqKnows, InFlightKnows
<1>o. ASSUME NEW r \in Requests, Continue(r) \/ NewRequest(r) \/ Crash(r)
      PROVE  Others(r)
  BY <1>o, OneRequestSteps
<1>e. ASSUME NEW r \in Requests, End(r)
      PROVE  req'[r].delta = 0
  BY <1>e, RequestTypes DEF End
<1>q. ASSUME NEW r \in Requests, Others(r), UNCHANGED <<voice, net, drifted>>,
             req'[r].delta = req[r].delta,
             req[r].delta # 0 => req'[r].voice = req[r].voice
      PROVE  CountsWhatIsPublished'
  <2>1. \A v \in Voices : Share(r, v)' = Share(r, v) /\ Wall(v)' = Wall(v)
    BY <1>q DEF Share, Wall, Published
  <2>2. \A v \in Voices \ drifted' :
          net'[v] + Share(r, v)' - Wall(v)' = net[v] + Share(r, v) - Wall(v)
    BY <1>q, <2>1
  <2> QED
    BY <1>q, <2>2, CountKept
<1>g. ASSUME NEW r \in Requests, NEW at \in AwaitPoints, Goto(r, at), Others(r),
             UNCHANGED <<voice, net, drifted>>
      PROVE  CountsWhatIsPublished'
  <2>1. req'[r].delta = req[r].delta /\ req'[r].voice = req[r].voice
    BY <1>g, <1>k DEF Goto, Request
  <2> QED
    BY <1>g, <1>q, <2>1
<1>f. ASSUME NEW r \in Requests, End(r), req[r].at \notin InTx, Others(r),
             UNCHANGED <<voice, net, drifted>>
      PROVE  CountsWhatIsPublished'
  BY <1>e, <1>f, <1>k, <1>q
<1>s. ASSUME NEW r \in Requests, req[r] = Unsent, req'[r].delta = 0, Others(r),
             UNCHANGED <<voice, net, drifted>>
      PROVE  CountsWhatIsPublished'
  BY <1>s, <1>q, RequestTypes
<1>l. ASSUME NEW r \in Requests, End(r), Others(r), UNCHANGED <<voice, net>>,
             drifted' = drifted \union {req[r].voice}
      PROVE  CountsWhatIsPublished'
  <2>1. \A v \in Voices \ drifted' : Share(r, v) = 0 /\ Share(r, v)' = 0 /\ Wall(v)' = Wall(v)
    BY <1>e, <1>l DEF Share, Wall, Published
  <2>2. \A v \in Voices \ drifted' :
          net'[v] + Share(r, v)' - Wall(v)' = net[v] + Share(r, v) - Wall(v)
    BY <1>l, <2>1
  <2> QED
    BY <1>l, <2>2, CountKept
<1>1. ASSUME NEW r \in Requests, NEW v \in Voices, NEW c \in Countries \union {NoCountry},
             Submit(r, v, c), Others(r)
      PROVE  CountsWhatIsPublished'
  <2>1. PICK media \in BOOLEAN :
          LET status == IF media THEN "PENDING" ELSE "PUBLISHED"
          IN /\ voice' = [voice EXCEPT ![v] = [status |-> status, country |-> c]]
             /\ Send(r, [Unsent EXCEPT !.op = "submit", !.voice = v, !.to = status,
                           !.delta = IF media THEN 0 ELSE 1,
                           !.at = AfterCreate(media, c)])
    BY <1>1 DEF Submit
  <2>2. /\ req[r].delta = 0 /\ req'[r].voice = v
        /\ req'[r].delta = IF media THEN 0 ELSE 1
    BY <2>1, RequestTypes DEF Send, Request
  <2>3. /\ voice[v].status = "ABSENT" /\ UNCHANGED <<net, drifted>>
        /\ voice'[v].status = IF media THEN "PENDING" ELSE "PUBLISHED"
        /\ \A u \in Voices \ {v} : voice'[u] = voice[u]
    BY <1>1, <2>1 DEF Submit
  <2>4. ASSUME NEW u \in Voices
        PROVE  /\ Share(r, u) = 0
               /\ Share(r, u)' - Wall(u)' = 0 - Wall(u)
    BY <2>2, <2>3 DEF Share, Wall, Published
  <2>5. ASSUME NEW u \in Voices
        PROVE  net'[u] + Share(r, u)' - Wall(u)' = net[u] + Share(r, u) - Wall(u)
    <3>1. net[u] \in Int /\ Share(r, u)' \in Int /\ Wall(u)' \in Int /\ Wall(u) \in Int
      BY <1>k DEF Share, Wall, Request
    <3> QED
      BY <2>3, <2>4, <3>1
  <2> QED
    BY <1>1, <2>3, <2>5, CountKept
<1>2. ASSUME NEW r \in Requests, WriteStatus(r), Others(r)
      PROVE  CountsWhatIsPublished'
  <2> DEFINE v     == req[r].voice
             delta == IF req[r].op = "withdraw" THEN WithdrawDelta(req[r].was)
                                                ELSE DecideDelta(req[r].was, req[r].to)
  <2>1. /\ v \in Voices /\ req[r].delta = 0 /\ req[r].op \in {"withdraw", "decide"}
        /\ req[r].op = "withdraw" => req[r].to = "WITHDRAWN"
    BY <1>2, <1>k DEF WriteStatus, At, InFlightKnows, InTx
  <2>2. /\ voice' = [voice EXCEPT ![v] = [@ EXCEPT !.status = req[r].to]]
        /\ drifted \subseteq drifted' /\ net' = net
        /\ (voice[v].status = "PUBLISHED") # (req[r].was = "PUBLISHED") => v \in drifted'
    BY <1>2 DEF WriteStatus, book
  <2>3. /\ voice'[v].status = req[r].to
        /\ \A u \in Voices \ {v} : voice'[u] = voice[u]
    BY <2>1, <2>2 DEF Voice
  <2>4. delta = (IF req[r].to = "PUBLISHED" THEN 1 ELSE 0)
                  - (IF req[r].was = "PUBLISHED" THEN 1 ELSE 0)
    BY <2>1 DEF WithdrawDelta, DecideDelta
  <2>5. \A u \in Voices : Share(r, u)' = IF u = v THEN delta ELSE 0
    <3>1. CASE delta # 0
      <4>1. req' = [req EXCEPT ![r] =
                      [@ EXCEPT !.delta = delta, !.at = TxStart(delta, voice[v].country)]]
        BY <1>2, <3>1 DEF WriteStatus
      <4> HIDE DEF delta
      <4>2. req'[r].delta = delta /\ req'[r].voice = v
        BY <1>k, <4>1 DEF Request
      <4> QED
        BY <4>2 DEF Share
    <3>2. CASE delta = 0
      <4>1. Goto(r, "decision") \/ End(r)
        BY <1>2, <3>2 DEF WriteStatus
      <4>2. req'[r].delta = 0
        BY <1>e, <1>k, <2>1, <4>1 DEF Goto, Request
      <4> QED
        BY <3>2, <4>2 DEF Share
    <3> QED
      BY <3>1, <3>2
  <2> HIDE DEF delta
  <2>6. ASSUME NEW u \in Voices \ drifted'
        PROVE  /\ Share(r, u) = 0
               /\ Share(r, u)' - Wall(u)' = 0 - Wall(u)
    <3>1. CASE u = v
      <4>1. /\ Share(r, u) = 0 /\ Share(r, u)' = delta
            /\ Wall(u)' = IF req[r].to = "PUBLISHED" THEN 1 ELSE 0
            /\ Wall(u) = IF req[r].was = "PUBLISHED" THEN 1 ELSE 0
        BY <2>1, <2>2, <2>3, <2>5, <3>1 DEF Share, Wall, Published
      <4> QED
        BY <2>4, <4>1
    <3>2. CASE u # v
      BY <2>1, <2>3, <2>5, <3>2 DEF Share, Wall, Published
    <3> QED
      BY <3>1, <3>2
  <2>7. ASSUME NEW u \in Voices \ drifted'
        PROVE  net'[u] + Share(r, u)' - Wall(u)' = net[u] + Share(r, u) - Wall(u)
    <3>1. net[u] \in Int /\ Share(r, u)' \in Int /\ Wall(u)' \in Int /\ Wall(u) \in Int
      BY <1>k DEF Share, Wall, Request
    <3> QED
      BY <2>2, <2>6, <3>1
  <2> QED
    BY <1>2, <2>2, <2>7, CountKept
<1>3. ASSUME NEW r \in Requests, InsertCountry(r), Others(r)
      PROVE  CountsWhatIsPublished'
  <2>1. UNCHANGED <<voice, net>> /\ "count" \in AwaitPoints
    BY <1>3 DEF InsertCountry, rows, book, AwaitPoints, InTx
  <2>2. CASE UNCHANGED drifted /\ Goto(r, "count")
    BY <1>3, <1>g, <2>1, <2>2
  <2>3. CASE End(r) /\ drifted' = drifted \union {req[r].voice}
    BY <1>3, <1>l, <2>1, <2>3
  <2>4. CASE /\ req' = [req EXCEPT ![r] = [@ EXCEPT !.at = "count", !.holds = TRUE]]
             /\ UNCHANGED drifted
    <3>1. req'[r].delta = req[r].delta /\ req'[r].voice = req[r].voice
      BY <1>k, <2>4 DEF Request
    <3> QED
      BY <1>3, <1>q, <2>1, <2>4, <3>1
  <2> QED
    BY <1>3, <2>2, <2>3, <2>4 DEF InsertCountry
<1>4. ASSUME NEW r \in Requests, CountCountries(r), Others(r)
      PROVE  CountsWhatIsPublished'
  <2>1. UNCHANGED <<voice, net, drifted>>
    BY <1>4 DEF CountCountries, rows, book
  <2>2. req'[r].delta = req[r].delta /\ req'[r].voice = req[r].voice
    BY <1>4, <1>k DEF CountCountries, Request
  <2> QED
    BY <1>4, <1>q, <2>1, <2>2
<1>5. ASSUME NEW r \in Requests, CommitAdjust(r), Others(r)
      PROVE  CountsWhatIsPublished'
  <2>1. /\ net' = [net EXCEPT ![req[r].voice] = @ + req[r].delta]
        /\ UNCHANGED <<voice, drifted>>
    BY <1>5 DEF CommitAdjust, rows
  <2>2. req'[r].delta = 0
    <3>1. CASE AfterAdjust(req[r].op) = "none"
      BY <1>5, <1>e, <3>1 DEF CommitAdjust
    <3>2. CASE AfterAdjust(req[r].op) # "none"
      <4>1. req' = [req EXCEPT ![r] = [@ EXCEPT !.at = AfterAdjust(req[r].op),
                                                !.delta = 0, !.holds = FALSE]]
        BY <1>5, <3>2 DEF CommitAdjust
      <4> QED
        BY <1>k, <4>1 DEF Request
    <3> QED
      BY <3>1, <3>2
  <2>3. ASSUME NEW v \in Voices
        PROVE  net'[v] + Share(r, v)' - Wall(v)' = net[v] + Share(r, v) - Wall(v)
    <3>1. Share(r, v)' = 0 /\ Wall(v)' = Wall(v) /\ Wall(v) \in Int
      BY <2>1, <2>2 DEF Share, Wall, Published
    <3>2. net'[v] = net[v] + Share(r, v)
      BY <1>k, <2>1 DEF Share, Request
    <3>3. net[v] \in Int /\ Share(r, v) \in Int
      BY <1>k DEF Share, Request
    <3> QED
      BY <3>1, <3>2, <3>3
  <2> QED
    BY <1>5, <2>1, <2>3, CountKept
<1>6. ASSUME NEW r \in Requests, AnnounceVoice(r), Others(r) PROVE CountsWhatIsPublished'
  BY <1>6, <1>g DEF AnnounceVoice, AwaitPoints, rows, book
<1>7. ASSUME NEW r \in Requests, SendWithdrawalLink(r), Others(r) PROVE CountsWhatIsPublished'
  BY <1>7, <1>f DEF SendWithdrawalLink, book, At, InTx
<1>8. ASSUME NEW r \in Requests, NEW v \in Voices, Others(r),
             \/ ReadByToken(r, v) \/ DismissReport(r, v)
             \/ \E to \in Decisions : ReadTarget(r, v, to)
      PROVE  CountsWhatIsPublished'
  <2>1. req[r] = Unsent /\ req'[r].delta = 0
    <3>1. CASE ReadByToken(r, v)
      BY <3>1, RequestTypes DEF ReadByToken, Send, Request
    <3>2. CASE DismissReport(r, v)
      BY <3>2, RequestTypes DEF DismissReport, Send, Request
    <3>3. ASSUME NEW to \in Decisions, ReadTarget(r, v, to)
          PROVE  req[r] = Unsent /\ req'[r].delta = 0
      BY <3>3, RequestTypes DEF ReadTarget, Send, Request
    <3> QED
      BY <1>8, <3>1, <3>2, <3>3
  <2>2. UNCHANGED <<voice, net, drifted>>
    BY <1>8 DEF ReadByToken, DismissReport, ReadTarget, rows, book
  <2> QED
    BY <1>8, <1>s, <2>1, <2>2
<1>9. ASSUME NEW r \in Requests, LookForCountry(r), Others(r) PROVE CountsWhatIsPublished'
  <2>1. (IF NewCountry(r) \in presence THEN "count" ELSE "insert") \in AwaitPoints
    BY DEF AwaitPoints, InTx
  <2>2. UNCHANGED <<voice, net, drifted>>
    BY <1>9 DEF LookForCountry, rows, book
  <2> QED
    BY <1>9, <1>g, <2>1, <2>2 DEF LookForCountry
<1>10. ASSUME NEW r \in Requests, RecordDecision(r), Others(r) PROVE CountsWhatIsPublished'
  <2>1. UNCHANGED <<voice, net, drifted>> /\ req[r].at \notin InTx /\ "audit" \in AwaitPoints
    BY <1>10 DEF RecordDecision, book, At, InTx, AwaitPoints
  <2> QED
    BY <1>10, <1>f, <1>g, <2>1 DEF RecordDecision
<1>11. ASSUME NEW r \in Requests, RecordAudit(r), Others(r) PROVE CountsWhatIsPublished'
  BY <1>11, <1>f DEF RecordAudit, book, At, InTx
<1>12. ASSUME NEW r \in Requests, Crash(r), Others(r) PROVE CountsWhatIsPublished'
  <2>1. End(r) /\ UNCHANGED <<voice, net>>
    BY <1>12 DEF Crash, rows, book
  <2>2. CASE req[r].at \in InTx
    BY <1>12, <1>l, <2>1, <2>2 DEF Crash
  <2>3. CASE req[r].at \notin InTx
    BY <1>12, <1>f, <2>1, <2>3 DEF Crash
  <2> QED
    BY <2>2, <2>3
<1>13. ASSUME RemoveVoicesOfMember PROVE CountsWhatIsPublished'
  <2>1. req' = req /\ net' = net /\ drifted \subseteq drifted'
    BY <1>13 DEF RemoveVoicesOfMember, book
  <2>2. \A v \in Voices \ drifted' : (v \in Published)' <=> v \in Published
    BY <1>13 DEF RemoveVoicesOfMember, Published, Voice
  <2>3. \A v \in Voices : Adding(v)' = Adding(v) /\ Removing(v)' = Removing(v)
    BY <2>1 DEF Adding, Removing
  <2> QED
    BY <2>1, <2>2, <2>3 DEF CountsWhatIsPublished
<1>14. ASSUME UNCHANGED vars PROVE CountsWhatIsPublished'
  BY <1>14 DEF vars, CountsWhatIsPublished, Adding, Removing, Published
<1> QED
  BY <1>o, <1>1, <1>2, <1>3, <1>4, <1>5, <1>6, <1>7, <1>8, <1>9, <1>10, <1>11, <1>12,
     <1>13, <1>14 DEF Next, Continue, NewRequest, AllServed

-----------------------------------------------------------------------------
(* The breadth figure counts countries that are committed, and a voice is    *)
(* counted together with its country.                                        *)
LEMMA BreadthStep ==
  ASSUME TypeOK, TypeOK', Knowledge, BreadthIsHeard, [Next]_vars
  PROVE  BreadthIsHeard'
<1> USE DEF TypeOK
<1>r. RowsGrow
  BY NextRowsGrow
<1>n. /\ IsFiniteSet(presence) /\ IsFiniteSet(presence')
      /\ Cardinality(presence) <= Cardinality(presence')
      /\ Cardinality(presence) \in Nat /\ Cardinality(presence') \in Nat
  <2>1. IsFiniteSet(presence) /\ IsFiniteSet(presence')
    BY FiniteAssumption, FS_Subset
  <2> QED
    BY <1>r, <2>1, FS_Subset, FS_CardinalityType DEF RowsGrow
<1>1. ASSUME UNCHANGED <<counter, net>> PROVE BreadthIsHeard'
  <2>1. counter'.countries <= Cardinality(presence')
    <3>1. counter.countries \in Int /\ counter.countries <= Cardinality(presence)
      BY DEF BreadthIsHeard
    <3> QED
      BY <1>1, <1>n, <3>1
  <2>2. ASSUME NEW v \in Voices, net'[v] > 0
        PROVE  voice'[v].country \in presence' \union {NoCountry}
    <3>1. net[v] > 0
      BY <1>1, <2>2
    <3>2. voice[v].status # "ABSENT"
      BY <3>1 DEF Knowledge, Rows
    <3> QED
      BY <1>r, <3>1, <3>2 DEF RowsGrow, BreadthIsHeard
  <2> QED
    BY <2>1, <2>2 DEF BreadthIsHeard
<1>2. ASSUME NEW r \in Requests, CommitAdjust(r) PROVE BreadthIsHeard'
  <2>1. /\ UNCHANGED voice /\ presence' = PresenceWith(r)
        /\ counter'.countries = req[r].count
        /\ net' = [net EXCEPT ![req[r].voice] = @ + req[r].delta]
    BY <1>2 DEF CommitAdjust, rows
  <2>2. /\ req[r].count <= Cardinality(PresenceWith(r))
        /\ req[r].delta = 1 => NewCountry(r) \in PresenceWith(r) \union {NoCountry}
    BY <1>2 DEF CommitAdjust, At, Knowledge, ReqKnows, TxKnows, PresenceWith
  <2>3. ASSUME NEW v \in Voices, net'[v] > 0
        PROVE  voice[v].country \in presence' \union {NoCountry}
    <3>1. CASE net[v] > 0
      BY <1>r, <3>1 DEF BreadthIsHeard, RowsGrow
    <3>2. CASE ~(net[v] > 0)
      <4>1. req[r].voice = v /\ req[r].delta = 1
        BY <2>1, <2>3, <3>2 DEF Request
      <4> QED
        BY <2>1, <2>2, <4>1 DEF NewCountry
    <3> QED
      BY <3>1, <3>2
  <2> QED
    BY <2>1, <2>2, <2>3 DEF BreadthIsHeard
<1>3. (\E r \in Requests : CommitAdjust(r)) \/ UNCHANGED <<counter, net>>
  BY DEF Next, Continue, NewRequest, AllServed, Submit, AnnounceVoice, SendWithdrawalLink,
         ReadByToken, ReadTarget, DismissReport, WriteStatus, LookForCountry,
         InsertCountry, CountCountries, RecordDecision, RecordAudit,
         RemoveVoicesOfMember, Crash, rows, book, vars
<1> QED
  BY <1>1, <1>2, <1>3

(* No step forgets a decision that was cut short.                            *)
LEMMA UnrecordedGrows == [Next]_vars => unrecorded \subseteq unrecorded'
  BY DEF Next, Continue, NewRequest, AllServed, Submit, AnnounceVoice, SendWithdrawalLink,
         ReadByToken, ReadTarget, DismissReport, WriteStatus, LookForCountry,
         InsertCountry, CountCountries, CommitAdjust, RecordDecision, RecordAudit,
         RemoveVoicesOfMember, Crash, CutShort, rows, book, vars

(* A takedown stays on its way until it is on record.                        *)
LEMMA TakedownStep ==
  ASSUME TypeOK, TypeOK', Knowledge, TakedownIsRecorded, [Next]_vars
  PROVE  TakedownIsRecorded'
<1> USE DEF TypeOK
<1> SUFFICES ASSUME NEW v \in Voices,
                    voice'[v].status \in {"HIDDEN", "REJECTED"}
             PROVE  \/ [voice |-> v, to |-> voice'[v].status] \in decisions' \union unrecorded'
                    \/ \E r \in Requests : TookDown(r, v)'
  BY DEF TakedownIsRecorded, TakenDown, Recorded, TookDown, TookEffect, Decision
<1> DEFINE Goal == \/ [voice |-> v, to |-> voice'[v].status] \in decisions' \union unrecorded'
                   \/ \E r \in Requests : TookDown(r, v)'
<1>d. decisions \subseteq decisions' /\ unrecorded \subseteq unrecorded'
  BY NextRowsGrow, UnrecordedGrows DEF RowsGrow
<1>o. ASSUME NEW r \in Requests, Continue(r) \/ NewRequest(r) \/ Crash(r)
      PROVE  Others(r) /\ ReqKnows(r) /\ req[r] \in Request
  BY <1>o, OneRequestSteps DEF Knowledge
<1>c. ASSUME voice'[v].status = voice[v].status
      PROVE  \/ [voice |-> v, to |-> voice'[v].status] \in decisions' \union unrecorded'
             \/ \E r \in Requests : TookDown(r, v)
  BY <1>c, <1>d DEF TakedownIsRecorded, TakenDown, Recorded, TookDown, TookEffect, Decision
<1>q. ASSUME NEW r \in Requests, Others(r),
             voice'[v].status = voice[v].status,
             TookDown(r, v) => \/ TookDown(r, v)'
                               \/ [voice |-> v, to |-> voice'[v].status] \in decisions' \union unrecorded'
      PROVE  Goal
  <2>1. CASE TookDown(r, v) \/ [voice |-> v, to |-> voice'[v].status] \in decisions' \union unrecorded'
    BY <1>q, <2>1
  <2>2. ASSUME NEW x \in Requests \ {r}, TookDown(x, v) PROVE TookDown(x, v)'
    BY <1>q, <2>2 DEF TookDown, Others
  <2> QED
    BY <1>c, <1>q, <2>1, <2>2
<1>1. ASSUME NEW r \in Requests, NEW u \in Voices, NEW c \in Countries \union {NoCountry},
             Submit(r, u, c), Others(r)
      PROVE  Goal
  <2>1. voice'[u].status \in {"PENDING", "PUBLISHED"}
        /\ \A w \in Voices \ {u} : voice'[w] = voice[w]
    BY <1>1 DEF Submit
  <2>2. ~TookDown(r, v)
    BY <1>1, RequestTypes DEF Submit, Send, TookDown
  <2> QED
    BY <1>1, <1>q, <2>1, <2>2
<1>2. ASSUME NEW r \in Requests, WriteStatus(r), Others(r), ReqKnows(r), req[r] \in Request
      PROVE  Goal
  <2> DEFINE delta == IF req[r].op = "withdraw" THEN WithdrawDelta(req[r].was)
                                                ELSE DecideDelta(req[r].was, req[r].to)
  <2>1. /\ req[r].op \in {"withdraw", "decide"}
        /\ req[r].op = "withdraw" => req[r].to = "WITHDRAWN"
        /\ voice' = [voice EXCEPT ![req[r].voice] = [@ EXCEPT !.status = req[r].to]]
    BY <1>2 DEF WriteStatus, At, ReqKnows, InFlightKnows, InTx
  <2>2. CASE req[r].voice # v
    <3>1. voice'[v] = voice[v] /\ ~TookDown(r, v)
      BY <2>1, <2>2 DEF TookDown
    <3> QED
      BY <1>2, <1>q, <2>1, <3>1
  <2>3. CASE req[r].voice = v
    <3>1. voice'[v].status = req[r].to /\ req[r].op = "decide"
      BY <2>1, <2>3 DEF Voice
    <3>2. CASE delta # 0
      <4>1. req' = [req EXCEPT ![r] =
                      [@ EXCEPT !.delta = delta, !.at = TxStart(delta, voice[v].country)]]
        BY <1>2, <2>3, <3>2 DEF WriteStatus
      <4>2. TxStart(delta, voice[v].country) \in InTx
        BY DEF TxStart, InTx
      <4> HIDE DEF delta
      <4>3. /\ req'[r].at \in InTx /\ req'[r].op = req[r].op
            /\ req'[r].voice = req[r].voice /\ req'[r].to = req[r].to
        BY <1>2, <4>1, <4>2 DEF Request
      <4> QED
        BY <2>3, <3>1, <4>3 DEF TookDown
    <3>3. CASE delta = 0
      <4>1. Goto(r, "decision")
        BY <1>2, <3>1, <3>3 DEF WriteStatus
      <4>2. /\ req'[r].at = "decision" /\ req'[r].op = req[r].op
            /\ req'[r].voice = req[r].voice /\ req'[r].to = req[r].to
        BY <1>2, <4>1 DEF Goto, Request
      <4> QED
        BY <2>3, <3>1, <4>2 DEF TookDown
    <3> QED
      BY <3>2, <3>3
  <2> QED
    BY <2>2, <2>3
<1>3. ASSUME NEW r \in Requests, Others(r), ReqKnows(r), req[r] \in Request,
             LookForCountry(r) \/ InsertCountry(r) \/ CountCountries(r)
      PROVE  Goal
  <2>1. UNCHANGED voice
    BY <1>3 DEF LookForCountry, InsertCountry, CountCountries, rows
  <2>2. CASE LookForCountry(r)
    BY <1>3, <1>q, <2>1, <2>2 DEF LookForCountry, Goto, Request, TookDown, InTx
  <2>3. CASE CountCountries(r)
    BY <1>3, <1>q, <2>1, <2>3 DEF CountCountries, Request, TookDown, InTx
  <2>4. CASE InsertCountry(r)
    <3>1. ~TookDown(r, v)
      <4>1. req[r].delta = 1
        BY <1>3, <2>4 DEF InsertCountry, At, ReqKnows, TxKnows
      <4> QED
        BY <1>3, <2>1, <4>1 DEF TookDown, ReqKnows, InFlightKnows
    <3> QED
      BY <1>3, <1>q, <2>1, <3>1
  <2> QED
    BY <1>3, <2>2, <2>3, <2>4
<1>4. ASSUME NEW r \in Requests, CommitAdjust(r), Others(r), req[r] \in Request
      PROVE  Goal
  <2>1. UNCHANGED voice
    BY <1>4 DEF CommitAdjust, rows
  <2>2. ASSUME TookDown(r, v) PROVE TookDown(r, v)'
    <3>1. AfterAdjust(req[r].op) = "decision"
      BY <2>2 DEF TookDown, AfterAdjust
    <3>2. req' = [req EXCEPT ![r] = [@ EXCEPT !.at = AfterAdjust(req[r].op),
                                              !.delta = 0, !.holds = FALSE]]
      BY <1>4, <3>1 DEF CommitAdjust
    <3>3. /\ req'[r].at = "decision" /\ req'[r].op = req[r].op
          /\ req'[r].voice = req[r].voice /\ req'[r].to = req[r].to
      BY <1>4, <3>1, <3>2 DEF Request
    <3> QED
      BY <2>1, <2>2, <3>3 DEF TookDown
  <2> QED
    BY <1>4, <1>q, <2>1, <2>2
<1>5. ASSUME NEW r \in Requests, RecordDecision(r), Others(r) PROVE Goal
  <2>1. UNCHANGED voice /\ req[r].at = "decision"
    BY <1>5 DEF RecordDecision, At
  <2>2. TookDown(r, v) => [voice |-> v, to |-> voice'[v].status] \in decisions' \union unrecorded'
    BY <1>5, <2>1 DEF RecordDecision, CutShort, TookEffect, TookDown, Decision
  <2> QED
    BY <1>5, <1>q, <2>1, <2>2
<1>6. ASSUME NEW r \in Requests, Others(r),
             AnnounceVoice(r) \/ SendWithdrawalLink(r) \/ RecordAudit(r)
      PROVE  Goal
  <2>1. UNCHANGED voice /\ ~TookDown(r, v)
    BY <1>6 DEF AnnounceVoice, SendWithdrawalLink, RecordAudit, rows, At, TookDown, InTx
  <2> QED
    BY <1>6, <1>q, <2>1
<1>7. ASSUME NEW r \in Requests, NEW u \in Voices, Others(r),
             \/ ReadByToken(r, u) \/ DismissReport(r, u)
             \/ \E to \in Decisions : ReadTarget(r, u, to)
      PROVE  Goal
  <2>1. UNCHANGED voice /\ req[r] = Unsent
    BY <1>7 DEF ReadByToken, DismissReport, ReadTarget, Send, rows
  <2>2. ~TookDown(r, v)
    BY <2>1, RequestTypes DEF TookDown
  <2> QED
    BY <1>7, <1>q, <2>1, <2>2
<1>8. ASSUME NEW r \in Requests, Crash(r), Others(r) PROVE Goal
  <2>1. TookDown(r, v) => [voice |-> v, to |-> voice'[v].status] \in unrecorded'
    BY <1>8 DEF Crash, CutShort, TookEffect, TookDown, Decision
  <2> QED
    BY <1>8, <1>q, <2>1 DEF Crash
<1>9. ASSUME RemoveVoicesOfMember PROVE Goal
  <2>1. req' = req /\ voice'[v].status = voice[v].status
    BY <1>9 DEF RemoveVoicesOfMember, Voice
  <2> QED
    BY <1>c, <2>1 DEF TookDown
<1>10. ASSUME UNCHANGED vars PROVE Goal
  BY <1>10, <1>c DEF vars, TookDown
<1> QED
  BY <1>o, <1>1, <1>2, <1>3, <1>4, <1>5, <1>6, <1>7, <1>8, <1>9, <1>10
     DEF Next, Continue, NewRequest, AllServed

-----------------------------------------------------------------------------
(* The initial state satisfies the inductive invariant.                      *)
LEMMA InitIInv == Init => IInv
<1> SUFFICES ASSUME Init PROVE IInv
  OBVIOUS
<1>1. TypeOK
  BY InitTypeOK
<1>2. Knowledge
  <2>1. ASSUME NEW r \in Requests PROVE ReqKnows(r)
    BY RequestTypes DEF Init, ReqKnows, InFlightKnows, TxKnows, InTx
  <2> QED
    BY <2>1 DEF Init, Knowledge, Rows
<1>3. CountsWhatIsPublished
  <2>1. ASSUME NEW v \in Voices PROVE Adding(v) = {} /\ Removing(v) = {} /\ v \notin Published
    BY RequestTypes DEF Init, Adding, Removing, Published, Absent
  <2> QED
    BY <2>1, FS_EmptySet DEF Init, CountsWhatIsPublished
<1>4. BreadthIsHeard
  BY FS_EmptySet DEF Init, BreadthIsHeard
<1>5. TakedownIsRecorded
  BY DEF Init, TakedownIsRecorded, TakenDown, Absent
<1> QED
  BY <1>1, <1>2, <1>3, <1>4, <1>5 DEF IInv

(* A step preserves it.                                                      *)
LEMMA NextIInv == IInv /\ [Next]_vars => IInv'
<1> SUFFICES ASSUME IInv, [Next]_vars PROVE IInv'
  OBVIOUS
<1>1. TypeOK'
  BY NextTypeOK DEF IInv
<1> QED
  BY <1>1, KnowledgeStep, CountStep, BreadthStep, TakedownStep DEF IInv

(* The invariant of the ledger holds for any number of requests in flight,   *)
(* however their transactions interleave.                                    *)
THEOREM Invariance == Spec => []IInv
  BY InitIInv, NextIInv, PTL DEF Spec

(* Every reachable state is well typed: an audit entry has its decision.     *)
THEOREM TypeCorrect == Spec => []TypeOK
<1>1. IInv => TypeOK
  BY DEF IInv
<1> QED
  BY <1>1, Invariance, PTL

(* A-4: each voice on the Wall is in the total once, and every other one not *)
(* at all, once the adjustments on their way have arrived, unless one was    *)
(* lost or decided on a status that had changed.                             *)
THEOREM EachVoiceCountedOnce == Spec => []CountsWhatIsPublished
<1>1. IInv => CountsWhatIsPublished
  BY DEF IInv
<1> QED
  BY <1>1, Invariance, PTL

(* The breadth figure never exceeds the countries that were heard from, and  *)
(* no voice is in the total before its country is.                           *)
THEOREM BreadthNeverOverstated == Spec => []BreadthIsHeard
<1>1. IInv => BreadthIsHeard
  BY DEF IInv
<1> QED
  BY <1>1, Invariance, PTL

(* M-2: a voice is down only by a decision of that outcome, which is on      *)
(* record, or about to be, or was refused or cut short after it took effect. *)
THEOREM TakedownHasItsDecision == Spec => []TakedownIsRecorded
<1>1. IInv => TakedownIsRecorded
  BY DEF IInv
<1> QED
  BY <1>1, Invariance, PTL

-----------------------------------------------------------------------------
(* The total.                                                                *)

\* What the voices have added to the total, and taken from it, one by one.
Above == {p \in Voices \X (Nat \ {0}) : p[2] <= net[p[1]]}
Below == {p \in Voices \X (Nat \ {0}) : p[2] <= -net[p[1]]}

\* The total is the sum of the shares. (Where an adjustment creates the row
\* it may not be: that one is Max(delta, 0).)
TotalIsTheSum ==
  Seeded => /\ counter.exists
            /\ IsFiniteSet(Above) /\ IsFiniteSet(Below)
            /\ counter.total = Cardinality(Above) - Cardinality(Below)

(* A commit moves the share of one voice by one, and the total with it.      *)
LEMMA SumStep == IInv /\ TotalIsTheSum /\ [Next]_vars => TotalIsTheSum'
<1> SUFFICES ASSUME IInv, TotalIsTheSum, [Next]_vars, Seeded PROVE TotalIsTheSum'
  BY DEF TotalIsTheSum
<1>1. /\ counter.exists /\ IsFiniteSet(Above) /\ IsFiniteSet(Below)
      /\ counter.total = Cardinality(Above) - Cardinality(Below)
      /\ Cardinality(Above) \in Nat /\ Cardinality(Below) \in Nat
  BY FS_CardinalityType DEF TotalIsTheSum
<1>2. (\E r \in Requests : CommitAdjust(r)) \/ UNCHANGED <<counter, net>>
  BY DEF Next, Continue, NewRequest, AllServed, Submit, AnnounceVoice, SendWithdrawalLink,
         ReadByToken, ReadTarget, DismissReport, WriteStatus, LookForCountry,
         InsertCountry, CountCountries, RecordDecision, RecordAudit,
         RemoveVoicesOfMember, Crash, rows, book, vars
<1>3. CASE UNCHANGED <<counter, net>>
  BY <1>1, <1>3 DEF TotalIsTheSum, Above, Below
<1>4. ASSUME NEW r \in Requests, CommitAdjust(r) PROVE TotalIsTheSum'
  <2>1. PICK v \in Voices, d \in {-1, 1} : v = req[r].voice /\ d = req[r].delta
    <3>1. req[r].at = "commit" /\ req[r].delta \in {-1, 0, 1}
      BY <1>4 DEF CommitAdjust, At, IInv, TypeOK, Request
    <3>2. req[r].voice \in Voices /\ req[r].delta # 0
      BY <3>1 DEF IInv, Knowledge, ReqKnows, InFlightKnows, InTx
    <3> QED
      BY <3>1, <3>2
  <2>2. /\ counter'.exists /\ counter'.total = counter.total + d
        /\ net' = [net EXCEPT ![v] = net[v] + d] /\ net \in [Voices -> Int]
    BY <1>1, <1>4, <2>1 DEF CommitAdjust, NewTotal, IInv, TypeOK
  <2>3. /\ net[v] \in Int /\ net'[v] = net[v] + d
        /\ \A u \in Voices : u # v => net'[u] = net[u]
    BY <2>2
  <2> DEFINE up   == <<v, net[v] + 1>>
             top  == <<v, net[v]>>
             down == <<v, -net[v] + 1>>
             last == <<v, -net[v]>>
  <2>4. CASE d = 1 /\ net[v] >= 0
    <3>1. Above' = Above \union {up} /\ up \notin Above
      BY <2>3, <2>4 DEF Above
    <3>2. Below' = Below
      BY <2>3, <2>4 DEF Below
    <3> HIDE DEF up
    <3>3. IsFiniteSet(Above') /\ Cardinality(Above') = Cardinality(Above) + 1
      BY <1>1, <3>1, FS_AddElement
    <3> QED
      BY <1>1, <2>2, <2>4, <3>2, <3>3 DEF TotalIsTheSum
  <2>5. CASE d = 1 /\ net[v] < 0
    <3>1. Above' = Above
      BY <2>3, <2>5 DEF Above
    <3>2. Below' = Below \ {last} /\ last \in Below
      BY <2>3, <2>5 DEF Below
    <3> HIDE DEF last
    <3>3. IsFiniteSet(Below') /\ Cardinality(Below') = Cardinality(Below) - 1
      BY <1>1, <3>2, FS_RemoveElement
    <3> QED
      BY <1>1, <2>2, <2>5, <3>1, <3>3 DEF TotalIsTheSum
  <2>6. CASE d = -1 /\ net[v] > 0
    <3>1. Below' = Below
      BY <2>3, <2>6 DEF Below
    <3>2. Above' = Above \ {top} /\ top \in Above
      BY <2>3, <2>6 DEF Above
    <3> HIDE DEF top
    <3>3. IsFiniteSet(Above') /\ Cardinality(Above') = Cardinality(Above) - 1
      BY <1>1, <3>2, FS_RemoveElement
    <3> QED
      BY <1>1, <2>2, <2>6, <3>1, <3>3 DEF TotalIsTheSum
  <2>7. CASE d = -1 /\ net[v] <= 0
    <3>1. Below' = Below \union {down} /\ down \notin Below
      BY <2>3, <2>7 DEF Below
    <3>2. Above' = Above
      BY <2>3, <2>7 DEF Above
    <3> HIDE DEF down
    <3>3. IsFiniteSet(Below') /\ Cardinality(Below') = Cardinality(Below) + 1
      BY <1>1, <3>1, FS_AddElement
    <3> QED
      BY <1>1, <2>2, <2>7, <3>2, <3>3 DEF TotalIsTheSum
  <2> QED
    BY <2>3, <2>4, <2>5, <2>6, <2>7
<1> QED
  BY <1>2, <1>3, <1>4

LEMMA InitSum == Init => TotalIsTheSum
<1> SUFFICES ASSUME Init, Seeded PROVE TotalIsTheSum
  BY DEF TotalIsTheSum
<1>1. Above = {} /\ Below = {}
  BY DEF Init, Above, Below
<1>2. counter.exists /\ counter.total = 0
  BY DEF Init
<1> QED
  BY <1>1, <1>2, FS_EmptySet DEF TotalIsTheSum

(* Where the voices on the Wall have a share of one and the others none, the *)
(* sum is their number.                                                      *)
LEMMA SumIsTheWall ==
  ASSUME TypeOK, \A v \in Voices : net[v] = IF v \in Published THEN 1 ELSE 0,
         IsFiniteSet(Above)
  PROVE  Below = {} /\ Cardinality(Above) = Cardinality(Published)
<1>1. Below = {}
  BY DEF Below
<1>2. \A p : p \in Above <=> \E v \in Published : p = <<v, 1>>
  <2>1. Published \subseteq Voices
    BY DEF Published
  <2>2. \A v \in Published : <<v, 1>> \in Above
    BY <2>1 DEF Above
  <2>3. ASSUME NEW p \in Above PROVE \E v \in Published : p = <<v, 1>>
    <3>1. PICK v \in Voices, n \in Nat \ {0} : p = <<v, n>> /\ n <= net[v]
      BY DEF Above
    <3> QED
      BY <3>1
  <2> QED
    BY <2>2, <2>3
<1>3. ExistsBijection(Above, Published)
  <2> DEFINE f == [p \in Above |-> p[1]]
  <2>1. f \in [Above -> Published]
    BY <1>2
  <2>2. \A p, q \in Above : f[p] = f[q] => p = q
    BY <1>2
  <2>3. \A v \in Published : <<v, 1>> \in Above /\ f[<<v, 1>>] = v
    BY <1>2
  <2> HIDE DEF f
  <2>4. f \in Bijection(Above, Published)
    BY <2>1, <2>2, <2>3 DEF Bijection, Injection, IsInjective, Surjection
  <2> QED
    BY <2>4 DEF ExistsBijection
<1>4. Cardinality(Published) = Cardinality(Above)
  BY <1>3, FS_Bijection
<1> QED
  BY <1>1, <1>4

(* A-4: with every request served and no adjustment lost, the total is the   *)
(* number of voices on the Wall, for any number of transactions and in       *)
(* whatever order they committed.                                            *)
THEOREM TotalIsTheWall == Spec => []TotalMatchesWall
<1>1. IInv /\ TotalIsTheSum => TotalMatchesWall
  <2> SUFFICES ASSUME IInv, TotalIsTheSum, Seeded, Quiet, drifted = {}
               PROVE  counter.total = Cardinality(Published)
    BY DEF TotalMatchesWall
  <2>1. ASSUME NEW v \in Voices PROVE Adding(v) = {} /\ Removing(v) = {}
    BY RequestTypes DEF Quiet, Adding, Removing
  <2>2. ASSUME NEW v \in Voices PROVE net[v] = IF v \in Published THEN 1 ELSE 0
    <3>1. net[v] + Cardinality(Adding(v)) - Cardinality(Removing(v))
            = IF v \in Published THEN 1 ELSE 0
      BY DEF IInv, CountsWhatIsPublished
    <3>2. net[v] \in Int
      BY DEF IInv, TypeOK
    <3>3. Cardinality(Adding(v)) = 0 /\ Cardinality(Removing(v)) = 0
      BY <2>1, FS_EmptySet
    <3> QED
      BY <3>1, <3>2, <3>3
  <2>3. Below = {} /\ Cardinality(Above) = Cardinality(Published) /\ IsFiniteSet(Above)
    BY <2>2, SumIsTheWall DEF TotalIsTheSum, IInv
  <2> QED
    BY <2>3, FS_EmptySet, FS_CardinalityType DEF TotalIsTheSum
<1>2. Spec => [](IInv /\ TotalIsTheSum)
  BY InitIInv, NextIInv, InitSum, SumStep, PTL DEF Spec
<1> QED
  BY <1>1, <1>2, PTL
=============================================================================
