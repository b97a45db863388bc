--------------------------- MODULE PathCaseProofs ---------------------------
(***************************************************************************)
(* Theorems about PathCase, for any finite set of members, any number of   *)
(* requests in flight, any list of at least three stages and any number of *)
(* crashes.                                                                *)
(***************************************************************************)
EXTENDS PathCase, FiniteSetTheorems, TLAPS

-----------------------------------------------------------------------------
(* The inductive invariant: what the rows and the requests in flight know    *)
(* of each other between two awaits.                                         *)

\* The two-party trigger, stated without a count.
AtMostTwo == \A x, y, z \in parties : x = y \/ y = z \/ x = z

\* Statements are parties' statements; no row precedes the case.
Rows == /\ \A t \in statements : t.party \in parties
        /\ case = NoCase => parties = {}
        /\ invite.exists => parties # {}

\* Both parties have a statement for stage s, released or not.
Spoken(s) == /\ Cardinality(parties) = 2
             /\ \A u \in parties : [party |-> u, stage |-> s] \in statements

HeardBefore(s) == \A k \in Situation..(s - 1) : Complete(k)

\* What request r may rely on: facts read earlier that no other request undoes.
ReqKnows(r) ==
  /\ req[r].op = "none" => req[r] = Free
  /\ req[r].op = "respond" => req[r].user \in Users
  /\ req[r].op \in {"open", "respond"} => parties # {}
  /\ req[r].op \in {"withdraw", "submit"} => req[r].user \in parties
  /\ req[r].op = "release" => Spoken(req[r].stage)
  /\ req[r].op = "advance" => HeardBefore(req[r].stage)
  /\ req[r].op = "advance" /\ req[r].at # "statements" => Complete(req[r].stage)

Knowledge == AtMostTwo /\ Rows /\ \A r \in Requests : ReqKnows(r)

\* What an audit entry about operation op claims to have happened.
Happened(op, u, s) ==
  \/ op \in {"open", "respond"} /\ u \in parties
  \/ op = "withdraw" /\ u \in withdrawn
  \/ op = "submit" /\ [party |-> u, stage |-> s] \in statements
  \/ op \in {"release", "advance"} /\ Complete(s)

\* A request about to be audited has done what its entry will say.
AuditKnows ==
  \A r \in Requests :
    /\ req[r].op = "open" => req[r].user \in parties
    /\ req[r].at = "audit" => Happened(req[r].op, req[r].user, req[r].stage)

IInv == /\ TypeOK
        /\ Knowledge
        /\ ReleasedTogether
        /\ NoStageSkipped
        /\ ClosedMeansHeard
        /\ ActiveHasTwoParties
        /\ SpeakBeforeHearing
        /\ AuditKnows
        /\ AuditIsTrue

-----------------------------------------------------------------------------
(* Type correctness of one step.                                             *)

(* The stages named in the code are stages, and so is the next of a stage.   *)
LEMMA StageTypes ==
  /\ Consent \in Stages /\ Situation \in Stages /\ FollowUp \in Stages
  /\ \A s \in Stages : NextStage(s) \in Stages
  BY StageAssumption DEF Stages, Consent, Situation, FollowUp, NextStage

(* The initial state is well typed.                                          *)
LEMMA InitTypeOK == Init => TypeOK
<1> SUFFICES ASSUME Init PROVE TypeOK
  OBVIOUS
<1>1. Free \in Request
  BY StageTypes DEF Free, Request
<1>2. case \in [status : CaseStatus \union {"NONE"}, stage : Stages,
               due : {"none", "open", "past"}, closed : BOOLEAN]
  BY StageTypes DEF Init, NoCase
<1>3. 0 \in 0..MaxCrashes
  BY CrashAssumption
<1> QED
  BY <1>1, <1>2, <1>3 DEF Init, TypeOK, NoInvite

(* A step of the system keeps the state well typed, where the tables and the *)
(* requests in flight agree.                                                 *)
LEMMA NextTypeOK ==
  ASSUME TypeOK, Knowledge, [Next]_vars
  PROVE  TypeOK'
<1> USE DEF TypeOK
<1>f. Free \in Request
  BY StageTypes DEF Free, Request
<1>b. ASSUME NEW r \in Requests, NEW op \in Operations, NEW at \in AwaitPoints,
             NEW u \in Users \union {Nobody}, NEW s \in Stages, Begin(r, op, at, u, s)
      PROVE  req' \in [Requests -> Request]
  BY <1>b DEF Begin, Request
<1>p. ASSUME NEW r \in Requests, NEW at \in AwaitPoints, Proceed(r, at)
      PROVE  req' \in [Requests -> Request]
  BY <1>p DEF Proceed, Request
<1>n. ASSUME NEW r \in Requests, Finish(r)
      PROVE  req' \in [Requests -> Request]
  BY <1>n, <1>f DEF Finish

<1>1. ASSUME NEW r \in Requests, NEW u \in Users, OpenCase(r, u) PROVE TypeOK'
  BY <1>1, <1>b, StageTypes DEF OpenCase, NoCase, CaseStatus, Operations, AwaitPoints, Knowledge, Rows
<1>2. ASSUME NEW r \in Requests, CreateInvite(r) PROVE TypeOK'
  BY <1>2, <1>p, StageTypes DEF CreateInvite, NoInvite, AwaitPoints
<1>3. ASSUME NEW r \in Requests, SendInvite(r) PROVE TypeOK'
  BY <1>3, <1>p, <1>n, StageTypes DEF SendInvite, AwaitPoints
<1>4. ASSUME NEW r \in Requests, RecordAudit(r) PROVE TypeOK'
  <2>1. req[r] \in Request
    OBVIOUS
  <2>2. req[r].op \in Operations
    BY <1>4, <2>1 DEF RecordAudit, Knowledge, ReqKnows, Free, Request
  <2>3. NextStage(req[r].stage) \in Stages
    BY <2>1, StageTypes DEF Request
  <2>4. audit' \subseteq [action : Operations, user : Users \union {Nobody},
                         stage : Stages]
    BY <1>4, <2>1, <2>2, <2>3 DEF RecordAudit, Request
  <2> QED
    BY <1>4, <1>n, <2>4 DEF RecordAudit
<1>5. ASSUME NEW r \in Requests, NEW u \in Users, ReadInvite(r, u) PROVE TypeOK'
  BY <1>5, <1>b, StageTypes DEF ReadInvite, Assess, Operations, AwaitPoints
<1>6. ASSUME NEW r \in Requests, AcceptInvite(r) PROVE TypeOK'
  <2>1. req[r].user \in Users
    BY <1>6 DEF AcceptInvite, InFlight, Knowledge, ReqKnows
  <2>2. "audit" \in AwaitPoints
    BY DEF AwaitPoints
  <2>3. req' \in [Requests -> Request]
    BY <1>6, <1>p, <1>n, <2>2 DEF AcceptInvite
  <2>4. case' \in [status : CaseStatus \union {"NONE"}, stage : Stages,
                  due : {"none", "open", "past"}, closed : BOOLEAN]
    BY <1>6, StageTypes DEF AcceptInvite, CaseStatus
  <2>5. invite' \in [exists : BOOLEAN, mailed : BOOLEAN, accepted : BOOLEAN,
                    declined : BOOLEAN, expired : BOOLEAN]
    BY <1>6 DEF AcceptInvite
  <2>6. parties' \subseteq Users /\ parties \subseteq parties'
    BY <1>6, <2>1 DEF AcceptInvite
  <2> QED
    BY <1>6, <2>3, <2>4, <2>5, <2>6 DEF AcceptInvite
<1>7. ASSUME NEW r \in Requests, DeclineInvite(r) PROVE TypeOK'
  BY <1>7, <1>n, StageTypes DEF DeclineInvite, CaseStatus
<1>8. ASSUME NEW r \in Requests, RouteOut(r) PROVE TypeOK'
  BY <1>8, <1>n, StageTypes DEF RouteOut, CaseStatus
<1>9. ASSUME NEW r \in Requests, NEW u \in Users, ReadParty(r, u) PROVE TypeOK'
  BY <1>9, <1>b, StageTypes DEF ReadParty, Operations, AwaitPoints
<1>10. ASSUME NEW r \in Requests, WithdrawParty(r) PROVE TypeOK'
  BY <1>10, <1>p, StageTypes DEF WithdrawParty, CaseStatus, AwaitPoints, InFlight, Knowledge, ReqKnows
<1>11. ASSUME NEW r \in Requests, NEW u \in Users, NEW s \in Stages, CheckSubmission(r, u, s) PROVE TypeOK'
  BY <1>11, <1>b, StageTypes DEF CheckSubmission, Operations, AwaitPoints
<1>12. ASSUME NEW r \in Requests, CreateStatement(r) PROVE TypeOK'
  <2>1. [party |-> req[r].user, stage |-> req[r].stage] \in Statement
    BY <1>12 DEF CreateStatement, InFlight, Knowledge, ReqKnows, Statement, Request
  <2>2. "audit" \in AwaitPoints
    BY DEF AwaitPoints
  <2>3. req' \in [Requests -> Request]
    BY <1>12, <1>p, <1>n, <2>2 DEF CreateStatement
  <2>4. statements' \subseteq Statement /\ statements \subseteq statements'
    BY <1>12, <2>1 DEF CreateStatement
  <2> QED
    BY <1>12, <2>3, <2>4 DEF CreateStatement
<1>13. ASSUME NEW r \in Requests, NEW s \in Stages, CountStatements(r, s) PROVE TypeOK'
  BY <1>13, <1>b, StageTypes DEF CountStatements, Operations, AwaitPoints
<1>14. ASSUME NEW r \in Requests, ReleaseStage(r) PROVE TypeOK'
  BY <1>14, <1>p, StageTypes DEF ReleaseStage, ToRelease, StatementsOf, AwaitPoints
<1>15. ASSUME NEW r \in Requests, ReadStage(r) PROVE TypeOK'
  BY <1>15, <1>b, StageTypes DEF ReadStage, Operations, AwaitPoints
<1>16. ASSUME NEW r \in Requests, CheckReleased(r) PROVE TypeOK'
  BY <1>16, <1>p, <1>n, StageTypes DEF CheckReleased, AwaitPoints
<1>17. ASSUME NEW r \in Requests, WriteStage(r) PROVE TypeOK'
  <2>1. NextStage(req[r].stage) \in Stages
    BY StageTypes DEF Request
  <2>2. AfterAdvance(NextStage(req[r].stage)) \in AwaitPoints
    BY DEF AfterAdvance, AwaitPoints
  <2>3. Proceed(r, AfterAdvance(NextStage(req[r].stage)))
    BY <1>17 DEF WriteStage
  <2>4. req' \in [Requests -> Request]
    BY <1>p, <2>2, <2>3
  <2>5. case' \in [status : CaseStatus \union {"NONE"}, stage : Stages,
                  due : {"none", "open", "past"}, closed : BOOLEAN]
    BY <1>17, <2>1 DEF WriteStage, CaseStatus
  <2> QED
    BY <1>17, <2>4, <2>5 DEF WriteStage
<1>18. ASSUME NEW r \in Requests, ScheduleFollowUps(r) PROVE TypeOK'
  BY <1>18, <1>p, StageTypes DEF ScheduleFollowUps, AwaitPoints
<1>19. ASSUME NEW r \in Requests, NEW u \in Users, ReadCase(r, u) PROVE TypeOK'
  BY <1>19, <1>b, StageTypes DEF ReadCase, Operations, AwaitPoints
<1>20. ASSUME NEW r \in Requests, ShowCase(r) PROVE TypeOK'
  <2>1. VisibleToOther(req[r].user, req[r].stage) \subseteq Statement
    BY DEF VisibleToOther
  <2>2. seen' \in [Users -> SUBSET Statement]
    BY <1>20, <2>1 DEF ShowCase
  <2> QED
    BY <1>20, <1>n, <2>2 DEF ShowCase
<1>21. ASSUME NEW r \in Requests, Crash(r) PROVE TypeOK'
  BY <1>21, <1>n, CrashAssumption DEF Crash
<1>22. ASSUME WindowCloses PROVE TypeOK'
  BY <1>22, StageTypes DEF WindowCloses
<1>23. ASSUME InviteExpires PROVE TypeOK'
  BY <1>23, StageTypes DEF InviteExpires
<1>24. ASSUME PurgeStaleInvites PROVE TypeOK'
  BY <1>24, StageTypes DEF PurgeStaleInvites
<1>25. CASE UNCHANGED vars
  BY <1>25 DEF vars
<1> QED
  BY <1>1, <1>2, <1>3, <1>4, <1>5, <1>6, <1>7, <1>8, <1>9, <1>10, <1>11, <1>12, <1>13, <1>14, <1>15, <1>16, <1>17, <1>18, <1>19, <1>20, <1>21, <1>22, <1>23, <1>24, <1>25
     DEF Next, Continue, MemberRequest, FacilitatorRequest

-----------------------------------------------------------------------------
(* Counting parties and statements.                                          *)

(* A set that counts two or more elements has two different ones.            *)
LEMMA TwoDistinct ==
  ASSUME NEW S, Cardinality(S) >= 2
  PROVE  \E x, y \in S : x # y
<1> SUFFICES ASSUME \A x, y \in S : x = y PROVE FALSE
  OBVIOUS
<1>1. CASE S = {}
  BY <1>1, FS_EmptySet
<1>2. CASE \E x : S = {x}
  <2>1. PICK x : S = {x}
    BY <1>2
  <2>2. Cardinality({x}) = 1
    BY FS_Singleton
  <2> QED
    BY <2>1, <2>2
<1> QED
  BY <1>1, <1>2

(* A set of two parties is the two of them.                                  *)
LEMMA TwoParties ==
  ASSUME AtMostTwo, NEW x \in parties, NEW y \in parties, x # y
  PROVE  parties = {x, y} /\ Cardinality(parties) = 2
<1>1. parties = {x, y}
  BY DEF AtMostTwo
<1>2. Cardinality({x, y}) = 2
  <2>1. IsFiniteSet({x}) /\ Cardinality({x}) = 1
    BY FS_Singleton
  <2>2. Cardinality({x} \cup {y}) = IF y \in {x} THEN Cardinality({x}) ELSE Cardinality({x}) + 1
    BY <2>1, FS_AddElement
  <2>3. {x} \cup {y} = {x, y}
    OBVIOUS
  <2> QED
    BY <2>1, <2>2, <2>3
<1> QED
  BY <1>1, <1>2

(* With fewer than two parties there are no two different ones.              *)
LEMMA FewerThanTwo ==
  ASSUME parties \subseteq Users, Cardinality(parties) < 2
  PROVE  \A x, y \in parties : x = y
<1> SUFFICES ASSUME NEW x \in parties, NEW y \in parties, x # y PROVE FALSE
  OBVIOUS
<1>1. IsFiniteSet(parties)
  BY UsersAssumption, FS_Subset
<1>2. {x, y} \in SUBSET parties
  OBVIOUS
<1>3. Cardinality({x, y}) <= Cardinality(parties) /\ IsFiniteSet({x, y})
  BY <1>1, <1>2, FS_Subset
<1>4. Cardinality(parties) \in Nat /\ Cardinality({x, y}) \in Nat
  BY <1>1, <1>3, FS_CardinalityType
<1>5. Cardinality({x, y}) = 0 \/ Cardinality({x, y}) = 1
  BY <1>3, <1>4
<1>6. {x, y} = {} \/ \E z : {x, y} = {z}
  BY <1>3, <1>5, FS_EmptySet, FS_Singleton
<1> QED
  BY <1>6

(* Two statements of one stage are the statements of both parties.           *)
LEMMA TwoStatements ==
  ASSUME TypeOK, AtMostTwo, Rows, NEW s \in Stages, NEW T,
         T \subseteq StatementsOf(s), Cardinality(T) >= 2
  PROVE  /\ Cardinality(parties) = 2
         /\ \A u \in parties : [party |-> u, stage |-> s] \in T
<1>1. PICK t1, t2 \in T : t1 # t2
  BY TwoDistinct
<1>2. /\ t1 \in Statement /\ t1.stage = s /\ t1.party \in parties
      /\ t2 \in Statement /\ t2.stage = s /\ t2.party \in parties
  BY DEF TypeOK, StatementsOf, Rows
<1>3. t1 = [party |-> t1.party, stage |-> s] /\ t2 = [party |-> t2.party, stage |-> s]
  BY <1>2 DEF Statement
<1>4. t1.party # t2.party
  BY <1>1, <1>3
<1>5. parties = {t1.party, t2.party} /\ Cardinality(parties) = 2
  BY <1>2, <1>4, TwoParties
<1> QED
  BY <1>3, <1>5

-----------------------------------------------------------------------------
(* Nothing that was said, released or agreed to is ever undone.              *)

Grows == /\ parties \subseteq parties'
         /\ statements \subseteq statements'
         /\ released \subseteq released'
         /\ AtMostTwo'

(* Every step only adds parties, statements and releases, and never a third  *)
(* party.                                                                    *)
LEMMA StepGrows ==
  ASSUME TypeOK, Knowledge, [Next]_vars
  PROVE  Grows
<1> USE DEF Grows, Knowledge, AtMostTwo
<1>1. ASSUME NEW r \in Requests, NEW u \in Users, OpenCase(r, u) PROVE Grows
  BY <1>1 DEF OpenCase, Rows
<1>2. ASSUME NEW r \in Requests, AcceptInvite(r) PROVE Grows
  <2>1. CASE CanJoin(req[r].user)
    <3>1. \A x, y \in parties : x = y
      BY <2>1, FewerThanTwo DEF CanJoin, TypeOK
    <3> QED
      BY <1>2, <2>1, <3>1 DEF AcceptInvite
  <2>2. CASE ~CanJoin(req[r].user)
    BY <1>2, <2>2 DEF AcceptInvite
  <2> QED
    BY <2>1, <2>2
<1>3. ASSUME NEW r \in Requests, CreateStatement(r) PROVE Grows
  BY <1>3 DEF CreateStatement
<1>4. ASSUME NEW r \in Requests, ReleaseStage(r) PROVE Grows
  BY <1>4 DEF ReleaseStage
<1>5. CASE UNCHANGED <<parties, statements, released>>
  BY <1>5
<1> QED
  BY <1>1, <1>2, <1>3, <1>4, <1>5
     DEF Next, Continue, MemberRequest, FacilitatorRequest, vars,
         CreateInvite, SendInvite, RecordAudit, ReadInvite, DeclineInvite,
         RouteOut, ReadParty, WithdrawParty, CheckSubmission, CountStatements,
         ReadStage, CheckReleased, WriteStage, ScheduleFollowUps, ReadCase,
         ShowCase, Crash, WindowCloses, InviteExpires, PurgeStaleInvites

(* Two parties remain the same two.                                          *)
LEMMA PartiesStay ==
  ASSUME Grows, Cardinality(parties) = 2
  PROVE  parties' = parties
<1>1. PICK x, y \in parties : x # y
  BY TwoDistinct
<1> QED
  BY <1>1 DEF Grows, AtMostTwo

(* A stage that is complete, or spoken, stays so.                            *)
LEMMA CompleteStays ==
  ASSUME Grows
  PROVE  /\ \A s \in Stages : Complete(s) => Complete(s)'
         /\ \A s \in Stages : Spoken(s) => Spoken(s)'
         /\ \A s \in Stages : HeardBefore(s) => HeardBefore(s)'
<1>1. ASSUME NEW s, Complete(s) PROVE Complete(s)'
  BY <1>1, PartiesStay DEF Complete, Grows
<1>2. ASSUME NEW s, Spoken(s) PROVE Spoken(s)'
  BY <1>2, PartiesStay DEF Spoken, Grows
<1> QED
  BY <1>1, <1>2 DEF HeardBefore

-----------------------------------------------------------------------------
(* The rows and the requests' knowledge are preserved.                       *)

(* A statement's author is a party when the row is created, and a case with  *)
(* rows is never NoCase again.                                               *)
LEMMA StepRows ==
  ASSUME TypeOK, Knowledge, Grows, [Next]_vars
  PROVE  Rows'
<1> USE DEF Knowledge, Rows, Grows
<1>1. \A t \in statements' : t.party \in parties'
  <2>1. ASSUME NEW r \in Requests, CreateStatement(r)
        PROVE  \A t \in statements' : t.party \in parties'
    BY <2>1 DEF CreateStatement, InFlight, ReqKnows
  <2>2. CASE UNCHANGED statements
    BY <2>2
  <2> QED
    BY <2>1, <2>2
       DEF Next, Continue, MemberRequest, FacilitatorRequest, vars, OpenCase,
           CreateInvite, SendInvite, RecordAudit, ReadInvite, AcceptInvite,
           DeclineInvite, RouteOut, ReadParty, WithdrawParty, CheckSubmission,
           CountStatements, ReleaseStage, ReadStage, CheckReleased, WriteStage,
           ScheduleFollowUps, ReadCase, ShowCase, Crash, WindowCloses,
           InviteExpires, PurgeStaleInvites
<1>2. case' = NoCase => parties' = {}
  <2>1. ASSUME NEW r \in Requests, NEW u \in Users, OpenCase(r, u) PROVE case' # NoCase
    BY <2>1 DEF OpenCase, NoCase
  <2>2. ASSUME NEW r \in Requests, AcceptInvite(r) PROVE case' = NoCase => parties' = {}
    <3>1. CASE CanJoin(req[r].user)
      <4>1. case'.status = "ACTIVE"
        BY <2>2, <3>1 DEF AcceptInvite, TypeOK
      <4> QED
        BY <4>1 DEF NoCase
    <3> QED
      BY <2>2, <3>1 DEF AcceptInvite
  <2>3. ASSUME NEW r \in Requests, DeclineInvite(r) PROVE case' = NoCase => parties' = {}
    <3>1. CASE invite.exists
      <4>1. case'.status = "WITHDRAWN"
        BY <2>3, <3>1 DEF DeclineInvite, TypeOK
      <4> QED
        BY <4>1 DEF NoCase
    <3> QED
      BY <2>3, <3>1 DEF DeclineInvite
  <2>4. ASSUME NEW r \in Requests, RouteOut(r) PROVE case' # NoCase
    BY <2>4 DEF RouteOut, NoCase, TypeOK
  <2>5. ASSUME NEW r \in Requests, WithdrawParty(r) PROVE case' # NoCase
    BY <2>5 DEF WithdrawParty, NoCase, TypeOK
  <2>6. ASSUME NEW r \in Requests, WriteStage(r) PROVE case' # NoCase
    <3>1. case'.due = "open"
      BY <2>6 DEF WriteStage, TypeOK
    <3> QED
      BY <3>1 DEF NoCase
  <2>7. ASSUME WindowCloses PROVE case' # NoCase
    BY <2>7 DEF WindowCloses, NoCase, TypeOK
  <2>8. CASE UNCHANGED <<case, parties>>
    BY <2>8
  <2> QED
    BY <2>1, <2>2, <2>3, <2>4, <2>5, <2>6, <2>7, <2>8
       DEF Next, Continue, MemberRequest, FacilitatorRequest, vars,
           CreateInvite, SendInvite, RecordAudit, ReadInvite, ReadParty,
           CheckSubmission, CreateStatement, CountStatements, ReleaseStage,
           ReadStage, CheckReleased, ScheduleFollowUps, ReadCase, ShowCase,
           Crash, InviteExpires, PurgeStaleInvites
<1>3. invite'.exists => parties' # {}
  <2>1. ASSUME NEW r \in Requests, CreateInvite(r) PROVE parties' # {}
    BY <2>1 DEF CreateInvite, InFlight, ReqKnows
  <2>2. CASE invite'.exists => invite.exists
    BY <2>2
  <2>3. ASSUME NEW r \in Requests, SendInvite(r) \/ AcceptInvite(r) \/ DeclineInvite(r)
        PROVE  invite'.exists => invite.exists
    BY <2>3 DEF SendInvite, AcceptInvite, DeclineInvite, TypeOK
  <2>4. ASSUME InviteExpires \/ PurgeStaleInvites PROVE invite'.exists => invite.exists
    BY <2>4 DEF InviteExpires, PurgeStaleInvites, TypeOK
  <2> QED
    BY <2>1, <2>2, <2>3, <2>4
       DEF Next, Continue, MemberRequest, FacilitatorRequest, vars, OpenCase,
           RecordAudit, ReadInvite, RouteOut, ReadParty, WithdrawParty,
           CheckSubmission, CreateStatement, CountStatements, ReleaseStage,
           ReadStage, CheckReleased, WriteStage, ScheduleFollowUps, ReadCase,
           ShowCase, Crash, WindowCloses
<1> QED
  BY <1>1, <1>2, <1>3

(* What a request knows stays true while other requests run, and while it    *)
(* moves on, provided an advance moves on only over a complete stage.        *)
LEMMA KnowledgeStays ==
  ASSUME TypeOK, TypeOK', Grows, NEW r \in Requests, ReqKnows(r),
         req'[r].op = req[r].op, req'[r].user = req[r].user,
         req'[r].stage = req[r].stage, req[r].op = "none" => req'[r] = req[r],
         req[r].op = "advance" /\ req'[r].at # "statements" => Complete(req[r].stage)
  PROVE  ReqKnows(r)'
<1>1. req[r].stage \in Stages
  BY DEF TypeOK, Request
<1> QED
  BY <1>1, CompleteStays DEF ReqKnows, Grows

(* A free slot knows nothing.                                                *)
LEMMA FreeKnows ==
  ASSUME NEW r \in Requests, req'[r] = Free
  PROVE  ReqKnows(r)'
  BY DEF ReqKnows, Free

(* Each request still knows what it relies on, after any step of any other.  *)
LEMMA StepKnows ==
  ASSUME TypeOK, TypeOK', Knowledge, NoStageSkipped, Grows, [Next]_vars
  PROVE  \A r \in Requests : ReqKnows(r)'
<1> TAKE r \in Requests
<1>r. req[r] \in Request /\ ReqKnows(r)
  BY DEF TypeOK, Knowledge
<1>s. CASE req'[r] = req[r]
  <2>1. req[r].op = "advance" /\ req'[r].at # "statements" => Complete(req[r].stage)
    BY <1>r, <1>s DEF ReqKnows
  <2> QED
    BY <1>r, <1>s, <2>1, KnowledgeStays
<1>f. CASE req'[r] = Free
  BY <1>f, FreeKnows
<1>p. ASSUME NEW at, Proceed(r, at), req[r].op # "none",
             req[r].op = "advance" /\ at # "statements" => Complete(req[r].stage)
      PROVE  ReqKnows(r)'
  <2>1. /\ req'[r].op = req[r].op /\ req'[r].user = req[r].user
        /\ req'[r].stage = req[r].stage /\ req'[r].at = at
    BY <1>p, <1>r DEF Proceed, Request, TypeOK
  <2> QED
    BY <1>p, <1>r, <2>1, KnowledgeStays
<1>q. ASSUME NEW q \in Requests, q # r,
             \/ Finish(q)
             \/ \E at : Proceed(q, at)
             \/ \E op, at, u, s : Begin(q, op, at, u, s)
      PROVE  ReqKnows(r)'
  BY <1>q, <1>s DEF Finish, Proceed, Begin, TypeOK
<1>g. ASSUME Finish(r) PROVE ReqKnows(r)'
  BY <1>g, <1>f DEF Finish, TypeOK
<1>b. ASSUME NEW op \in Operations, NEW at, NEW u, NEW k, Begin(r, op, at, u, k),
             op = "respond" => u \in Users,
             op \in {"open", "respond"} => parties' # {},
             op \in {"withdraw", "submit"} => u \in parties',
             op = "release" => Spoken(k)',
             op = "advance" => at = "statements" /\ HeardBefore(k)'
      PROVE  ReqKnows(r)'
  <2>1. req'[r] = [op |-> op, at |-> at, user |-> u, stage |-> k]
    BY <1>b DEF Begin, TypeOK
  <2> QED
    BY <1>b, <2>1 DEF ReqKnows, Operations
<1>1. ASSUME NEW q \in Requests, NEW u \in Users, OpenCase(q, u) PROVE ReqKnows(r)'
  <2>1. Begin(q, "open", "invite", u, Consent) /\ parties' = {u}
    BY <1>1 DEF OpenCase
  <2> QED
    BY <2>1, <1>q, <1>b DEF Operations
<1>2. ASSUME NEW q \in Requests, NEW u \in Users, ReadInvite(q, u) PROVE ReqKnows(r)'
  <2>1. PICK answer : Begin(q, "respond", answer, u, Situation)
    BY <1>2 DEF ReadInvite, Assess
  <2>2. parties # {}
    BY <1>2 DEF ReadInvite, InviteOpen, Knowledge, Rows
  <2> QED
    BY <2>1, <2>2, <1>q, <1>b DEF Operations, Grows
<1>3. ASSUME NEW q \in Requests, NEW u \in Users, ReadParty(q, u) PROVE ReqKnows(r)'
  <2>1. Begin(q, "withdraw", "write", u, Consent) /\ u \in parties'
    BY <1>3 DEF ReadParty, RequireParty, Grows
  <2> QED
    BY <2>1, <1>q, <1>b DEF Operations
<1>4. ASSUME NEW q \in Requests, NEW u \in Users, NEW s \in Stages, CheckSubmission(q, u, s) PROVE ReqKnows(r)'
  <2>1. Begin(q, "submit", "write", u, s) /\ u \in parties'
    BY <1>4 DEF CheckSubmission, RequireParty, Grows
  <2> QED
    BY <2>1, <1>q, <1>b DEF Operations
<1>5. ASSUME NEW q \in Requests, NEW s \in Stages, CountStatements(q, s) PROVE ReqKnows(r)'
  <2>1. Spoken(s)
    BY <1>5, TwoStatements DEF CountStatements, BothSpoke, Spoken, Knowledge, StatementsOf
  <2>2. Spoken(s)'
    BY <2>1, CompleteStays
  <2> QED
    BY <1>5, <2>2, <1>q, <1>b DEF CountStatements, Operations
<1>6. ASSUME NEW q \in Requests, ReadStage(q) PROVE ReqKnows(r)'
  <2>1. PICK k \in Stages : k = case.stage
    BY DEF TypeOK
  <2>2. HeardBefore(k)
    BY <2>1 DEF NoStageSkipped, HeardBefore
  <2>3. HeardBefore(k)'
    BY <2>2, CompleteStays
  <2>4. Begin(q, "advance", "statements", Nobody, k)
    BY <1>6, <2>1 DEF ReadStage
  <2> QED
    BY <2>3, <2>4, <1>q, <1>b DEF Operations
<1>7. ASSUME NEW q \in Requests, NEW u \in Users, ReadCase(q, u) PROVE ReqKnows(r)'
  <2>1. PICK k : Begin(q, "view", "statements", u, k)
    BY <1>7 DEF ReadCase
  <2> QED
    BY <2>1, <1>q, <1>b DEF Operations
<1>8. ASSUME NEW q \in Requests, CheckReleased(q) PROVE ReqKnows(r)'
  <2>1. CASE q = r /\ BothReleased(req[r].stage)
    <3>1. req[r].stage \in Stages
      BY <1>r DEF Request
    <3>2. ReleasedOf(req[r].stage) \subseteq StatementsOf(req[r].stage)
      BY DEF TypeOK, ReleasedOf, StatementsOf
    <3>3. Complete(req[r].stage)
      BY <2>1, <3>1, <3>2, TwoStatements
         DEF BothReleased, Knowledge, Complete, ReleasedOf
    <3> QED
      BY <1>8, <2>1, <3>3, <1>p DEF CheckReleased, InFlight
  <2>2. CASE q # r \/ ~BothReleased(req[q].stage)
    BY <1>8, <2>2, <1>q, <1>g DEF CheckReleased
  <2> QED
    BY <2>1, <2>2
<1>9. ASSUME NEW q \in Requests, WriteStage(q) PROVE ReqKnows(r)'
  BY <1>9, <1>p, <1>q, <1>r DEF WriteStage, InFlight, ReqKnows
<1>10. ASSUME NEW q \in Requests, ScheduleFollowUps(q) PROVE ReqKnows(r)'
  BY <1>10, <1>p, <1>q, <1>r DEF ScheduleFollowUps, InFlight, ReqKnows
<1>11. ASSUME NEW q \in Requests, CreateInvite(q) PROVE ReqKnows(r)'
  BY <1>11, <1>p, <1>q, <1>g DEF CreateInvite, InFlight
<1>12. ASSUME NEW q \in Requests, SendInvite(q) PROVE ReqKnows(r)'
  BY <1>12, <1>p, <1>q, <1>g DEF SendInvite, InFlight
<1>13. ASSUME NEW q \in Requests, AcceptInvite(q) PROVE ReqKnows(r)'
  BY <1>13, <1>p, <1>q, <1>g DEF AcceptInvite, InFlight
<1>14. ASSUME NEW q \in Requests, WithdrawParty(q) PROVE ReqKnows(r)'
  BY <1>14, <1>p, <1>q, <1>g DEF WithdrawParty, InFlight
<1>15. ASSUME NEW q \in Requests, CreateStatement(q) PROVE ReqKnows(r)'
  BY <1>15, <1>p, <1>q, <1>g DEF CreateStatement, InFlight
<1>16. ASSUME NEW q \in Requests, ReleaseStage(q) PROVE ReqKnows(r)'
  BY <1>16, <1>p, <1>q, <1>g DEF ReleaseStage, InFlight
<1>17. ASSUME NEW q \in Requests,
             \/ DeclineInvite(q) \/ RouteOut(q) \/ RecordAudit(q)
             \/ ShowCase(q) \/ Crash(q)
      PROVE  ReqKnows(r)'
  BY <1>17, <1>q, <1>g DEF DeclineInvite, RouteOut, RecordAudit, ShowCase, Crash
<1>18. CASE UNCHANGED req
  BY <1>18, <1>s
<1> QED
  BY <1>1, <1>2, <1>3, <1>4, <1>5, <1>6, <1>7, <1>8, <1>9, <1>10, <1>11, <1>12, <1>13, <1>14, <1>15, <1>16, <1>17, <1>18
     DEF Next, Continue, MemberRequest, FacilitatorRequest, vars,
         WindowCloses, InviteExpires, PurgeStaleInvites

-----------------------------------------------------------------------------
(* The safety properties are preserved.                                      *)

(* Only release adds to the released statements, and it knows that both      *)
(* parties have spoken.                                                      *)
LEMMA StepReleasedTogether ==
  ASSUME TypeOK, TypeOK', Knowledge, ReleasedTogether, Grows, [Next]_vars
  PROVE  ReleasedTogether'
<1>1. ASSUME NEW r \in Requests, ReleaseStage(r) PROVE ReleasedTogether'
  <2>1. PICK s \in Stages : s = req[r].stage
    BY DEF TypeOK, Request
  <2>2. Spoken(s)
    BY <1>1, <2>1 DEF ReleaseStage, InFlight, Knowledge, ReqKnows
  <2>3. parties' = parties /\ released' = released \union StatementsOf(s)
    BY <1>1, <2>1 DEF ReleaseStage, ToRelease
  <2>4. \A u \in parties : [party |-> u, stage |-> s] \in StatementsOf(s)
    BY <2>2 DEF Spoken, StatementsOf
  <2>5. Complete(s)'
    BY <2>2, <2>3, <2>4 DEF Spoken, Complete
  <2>6. ASSUME NEW t \in released' PROVE Complete(t.stage)'
    <3>1. CASE t \in released
      <4>1. Complete(t.stage) /\ t.stage \in Stages
        BY <3>1 DEF ReleasedTogether, TypeOK, Statement
      <4> QED
        BY <4>1, CompleteStays
    <3>2. CASE t \in StatementsOf(s)
      BY <3>2, <2>5 DEF StatementsOf
    <3> QED
      BY <2>3, <2>6, <3>1, <3>2
  <2> QED
    BY <2>6 DEF ReleasedTogether
<1>2. CASE UNCHANGED released
  <2> SUFFICES ASSUME NEW t \in released PROVE Complete(t.stage)'
    BY <1>2 DEF ReleasedTogether
  <2>1. Complete(t.stage) /\ t.stage \in Stages
    BY DEF ReleasedTogether, TypeOK, Statement
  <2> QED
    BY <2>1, CompleteStays
<1> QED
  BY <1>1, <1>2
     DEF Next, Continue, MemberRequest, FacilitatorRequest, vars, OpenCase,
         CreateInvite, SendInvite, RecordAudit, ReadInvite, AcceptInvite,
         DeclineInvite, RouteOut, ReadParty, WithdrawParty, CheckSubmission,
         CreateStatement, CountStatements, ReadStage, CheckReleased, WriteStage,
         ScheduleFollowUps, ReadCase, ShowCase, Crash, WindowCloses,
         InviteExpires, PurgeStaleInvites

(* The case row as a step may leave it: as it was, at an earlier stage, or   *)
(* at the stage after one that is complete.                                  *)
LEMMA StepCaseRow ==
  ASSUME TypeOK, Knowledge, NoStageSkipped, Grows, [Next]_vars
  PROVE  \/ case'.stage = case.stage /\ case'.status = case.status
         \/ case'.stage = case.stage /\ case'.status \in {"WITHDRAWN", "ROUTED_OUT"}
         \/ case'.stage = Consent /\ case'.status = "AWAITING_CONSENT"
         \/ case'.stage = Situation /\ case'.status = "ACTIVE" /\ Cardinality(parties') = 2
         \/ \E s \in Stages :
              /\ HeardBefore(s) /\ Complete(s)
              /\ case'.stage = NextStage(s)
              /\ case'.status = IF NextStage(s) = FollowUp THEN "CLOSED" ELSE case.status
<1>1. ASSUME NEW r \in Requests, NEW u \in Users, OpenCase(r, u)
      PROVE  case'.stage = Consent /\ case'.status = "AWAITING_CONSENT"
  BY <1>1 DEF OpenCase, NoCase
<1>2. ASSUME NEW r \in Requests, AcceptInvite(r)
      PROVE  \/ case' = case
             \/ case'.stage = Situation /\ case'.status = "ACTIVE" /\ Cardinality(parties') = 2
  <2>1. CASE CanJoin(req[r].user)
    <3>1. PICK x \in parties : x # req[r].user
      BY <1>2, <2>1 DEF AcceptInvite, InFlight, CanJoin, Knowledge, ReqKnows
    <3>2. \A y \in parties : y = x
      BY <2>1, FewerThanTwo DEF CanJoin, TypeOK
    <3>3. parties' = {x} \cup {req[r].user}
      BY <1>2, <2>1, <3>2 DEF AcceptInvite
    <3>4. IsFiniteSet({x}) /\ Cardinality({x}) = 1
      BY FS_Singleton
    <3>5. Cardinality({x} \cup {req[r].user}) = Cardinality({x}) + 1
      BY <3>1, <3>4, FS_AddElement
    <3>6. case'.stage = Situation /\ case'.status = "ACTIVE"
      BY <1>2, <2>1 DEF AcceptInvite, TypeOK
    <3> QED
      BY <3>3, <3>4, <3>5, <3>6
  <2> QED
    BY <1>2, <2>1 DEF AcceptInvite
<1>3. ASSUME NEW r \in Requests, DeclineInvite(r) \/ RouteOut(r) \/ WithdrawParty(r)
      PROVE  \/ case' = case
             \/ case'.stage = case.stage /\ case'.status \in {"WITHDRAWN", "ROUTED_OUT"}
  BY <1>3 DEF DeclineInvite, RouteOut, WithdrawParty, TypeOK
<1>4. ASSUME NEW r \in Requests, WriteStage(r)
      PROVE  \E s \in Stages :
               /\ HeardBefore(s) /\ Complete(s)
               /\ case'.stage = NextStage(s)
               /\ case'.status = IF NextStage(s) = FollowUp THEN "CLOSED" ELSE case.status
  <2>1. PICK s \in Stages : s = req[r].stage
    BY DEF TypeOK, Request
  <2>2. HeardBefore(s) /\ Complete(s)
    BY <1>4, <2>1 DEF WriteStage, InFlight, Knowledge, ReqKnows
  <2>3. case'.stage = NextStage(s)
    BY <1>4, <2>1 DEF WriteStage, TypeOK
  <2>4. case'.status = IF NextStage(s) = FollowUp THEN "CLOSED" ELSE case.status
    BY <1>4, <2>1 DEF WriteStage, TypeOK
  <2> QED
    BY <2>2, <2>3, <2>4
<1>5. ASSUME WindowCloses PROVE case'.stage = case.stage /\ case'.status = case.status
  BY <1>5 DEF WindowCloses, TypeOK
<1>6. CASE UNCHANGED case
  BY <1>6
<1> QED
  BY <1>1, <1>2, <1>3, <1>4, <1>5, <1>6
     DEF Next, Continue, MemberRequest, FacilitatorRequest, vars, CreateInvite,
         SendInvite, RecordAudit, ReadInvite, ReadParty, CheckSubmission,
         CreateStatement, CountStatements, ReleaseStage, ReadStage,
         CheckReleased, ScheduleFollowUps, ReadCase, ShowCase, Crash,
         InviteExpires, PurgeStaleInvites

(* The stages behind a case are complete after every step.                   *)
LEMMA StepStages ==
  ASSUME TypeOK, TypeOK', Knowledge, NoStageSkipped, ClosedMeansHeard,
         ActiveHasTwoParties, Grows, [Next]_vars
  PROVE  NoStageSkipped' /\ ClosedMeansHeard' /\ ActiveHasTwoParties'
<1> DEFINE Same     == case'.stage = case.stage /\ case'.status = case.status
           Ended    == case'.stage = case.stage /\ case'.status \in {"WITHDRAWN", "ROUTED_OUT"}
           Opened   == case'.stage = Consent /\ case'.status = "AWAITING_CONSENT"
           Accepted == case'.stage = Situation /\ case'.status = "ACTIVE" /\ Cardinality(parties') = 2
<1>r. Situation..(FollowUp - 1) \subseteq Stages /\ case.stage \in Stages
  BY StageAssumption DEF TypeOK, Stages, Situation, FollowUp
<1>s. \A k \in Stages : Situation..(k - 1) \subseteq Stages
  BY StageAssumption DEF Stages, Situation
<1>e. HeardBefore(case.stage) /\ (case.status = "CLOSED" => HeardBefore(FollowUp))
  BY DEF NoStageSkipped, ClosedMeansHeard, Understood, HeardBefore
<1>k. \A k \in Stages : HeardBefore(k) => \A j \in Situation..(k - 1) : Complete(j)'
  BY <1>s, CompleteStays DEF HeardBefore
<1>p. Cardinality(parties) = 2 => Cardinality(parties') = 2
  BY PartiesStay
<1>f. FollowUp \in Stages /\ FollowUp >= 3 /\ FollowUp = StageCount
  BY StageAssumption DEF FollowUp, Stages
<1>1. CASE Same
  <2>1. NoStageSkipped'
    BY <1>1, <1>r, <1>e, <1>k DEF NoStageSkipped
  <2>2. ClosedMeansHeard'
    BY <1>1, <1>e, <1>k, <1>f DEF ClosedMeansHeard, Understood
  <2>3. ActiveHasTwoParties'
    BY <1>1, <1>p DEF ActiveHasTwoParties
  <2> QED
    BY <2>1, <2>2, <2>3
<1>2. CASE Ended
  BY <1>2, <1>r, <1>e, <1>k DEF NoStageSkipped, ClosedMeansHeard, Understood, ActiveHasTwoParties
<1>3. CASE Opened
  BY <1>3 DEF NoStageSkipped, ClosedMeansHeard, Understood, ActiveHasTwoParties, Consent, Situation
<1>4. CASE Accepted
  <2>1. \A j \in Situation..(Situation - 1) : FALSE
    BY DEF Situation
  <2>2. NoStageSkipped'
    BY <1>4, <2>1 DEF NoStageSkipped
  <2>3. ClosedMeansHeard'
    BY <1>4 DEF ClosedMeansHeard, Understood
  <2>4. Situation \in Situation..(FollowUp - 1)
    BY <1>f DEF Situation, Stages
  <2>5. ActiveHasTwoParties'
    BY <1>4, <2>4 DEF ActiveHasTwoParties
  <2> QED
    BY <2>2, <2>3, <2>5
<1>5. ASSUME NEW s \in Stages, HeardBefore(s), Complete(s), case'.stage = NextStage(s),
             case'.status = IF NextStage(s) = FollowUp THEN "CLOSED" ELSE case.status
      PROVE  NoStageSkipped' /\ ClosedMeansHeard' /\ ActiveHasTwoParties'
  <2>1. NextStage(s) \in Stages /\ NextStage(s) >= Situation /\ NextStage(s) <= s + 1
    BY <1>f DEF NextStage, Stages, Situation
  <2>2. \A j \in Situation..(NextStage(s) - 1) : j \in Situation..(s - 1) \/ j = s
    BY <2>1 DEF Stages, Situation
  <2>3. \A j \in Situation..(NextStage(s) - 1) : Complete(j)'
    BY <1>5, <1>k, <2>2, CompleteStays
  <2>4. NoStageSkipped'
    BY <1>5, <2>3 DEF NoStageSkipped
  <2>5. ClosedMeansHeard'
    <3>1. CASE NextStage(s) = FollowUp
      BY <1>f, <2>3, <3>1 DEF ClosedMeansHeard, Understood
    <3>2. CASE NextStage(s) # FollowUp
      BY <1>5, <1>e, <1>k, <1>f, <3>2 DEF ClosedMeansHeard, Understood
    <3> QED
      BY <3>1, <3>2
  <2>6. ActiveHasTwoParties'
    <3>1. Cardinality(parties') = 2
      BY <1>5, <1>p DEF Complete
    <3>2. NextStage(s) # FollowUp => NextStage(s) \in Situation..(FollowUp - 1)
      BY <1>f, <2>1 DEF Stages, Situation
    <3> QED
      BY <1>5, <3>1, <3>2 DEF ActiveHasTwoParties
  <2> QED
    BY <2>4, <2>5, <2>6
<1> QED
  BY <1>1, <1>2, <1>3, <1>4, <1>5, StepCaseRow

(* A party is only shown released words, and has spoken when they are.       *)
LEMMA StepSpeakBeforeHearing ==
  ASSUME TypeOK, ReleasedTogether, SpeakBeforeHearing, Grows, [Next]_vars
  PROVE  SpeakBeforeHearing'
<1>1. ASSUME NEW r \in Requests, ShowCase(r) PROVE SpeakBeforeHearing'
  <2>1. UNCHANGED <<statements, released>>
    BY <1>1 DEF ShowCase
  <2>2. SUFFICES ASSUME NEW u \in Users, NEW t \in seen'[u], t \notin seen[u]
                 PROVE  /\ t.party # u
                        /\ t \in released
                        /\ [party |-> u, stage |-> t.stage] \in statements
    BY <2>1 DEF SpeakBeforeHearing
  <2>3. u = req[r].user /\ u \in parties /\ t \in VisibleToOther(u, req[r].stage)
    BY <1>1, <2>2 DEF ShowCase, TypeOK
  <2>4. t \in released /\ t.party # u
    BY <2>3 DEF VisibleToOther
  <2>5. [party |-> u, stage |-> t.stage] \in released
    BY <2>3, <2>4 DEF ReleasedTogether, Complete
  <2> QED
    BY <2>4, <2>5 DEF TypeOK
<1>2. CASE UNCHANGED seen
  BY <1>2 DEF SpeakBeforeHearing, Grows
<1> QED
  BY <1>1, <1>2
     DEF Next, Continue, MemberRequest, FacilitatorRequest, vars, OpenCase,
         CreateInvite, SendInvite, RecordAudit, ReadInvite, AcceptInvite,
         DeclineInvite, RouteOut, ReadParty, WithdrawParty, CheckSubmission,
         CreateStatement, CountStatements, ReleaseStage, ReadStage,
         CheckReleased, WriteStage, ScheduleFollowUps, ReadCase, Crash,
         WindowCloses, InviteExpires, PurgeStaleInvites

(* What happened once stays so.                                              *)
LEMMA HappenedStays ==
  ASSUME Grows, withdrawn \subseteq withdrawn',
         NEW op, NEW u, NEW s, Happened(op, u, s)
  PROVE  Happened(op, u, s)'
<1>1. Complete(s) => Complete(s)'
  BY PartiesStay DEF Complete, Grows
<1> QED
  BY <1>1 DEF Happened, Grows

(* A withdrawal is not taken back.                                           *)
LEMMA WithdrawnGrows ==
  ASSUME [Next]_vars
  PROVE  withdrawn \subseteq withdrawn'
BY DEF Next, Continue, MemberRequest, FacilitatorRequest, vars, OpenCase,
       CreateInvite, SendInvite, RecordAudit, ReadInvite, AcceptInvite,
       DeclineInvite, RouteOut, ReadParty, WithdrawParty, CheckSubmission,
       CreateStatement, CountStatements, ReleaseStage, ReadStage, CheckReleased,
       WriteStage, ScheduleFollowUps, ReadCase, ShowCase, Crash, WindowCloses,
       InviteExpires, PurgeStaleInvites

(* A request reaches its audit only over the change that the entry names.    *)
LEMMA StepAuditKnows ==
  ASSUME TypeOK, TypeOK', Knowledge, AuditKnows, Grows, [Next]_vars
  PROVE  AuditKnows'
<1> DEFINE Knows(r) == /\ req[r].op = "open" => req[r].user \in parties
                       /\ req[r].at = "audit" =>
                            Happened(req[r].op, req[r].user, req[r].stage)
<1> SUFFICES ASSUME NEW r \in Requests PROVE Knows(r)'
  BY DEF AuditKnows
<1>r. req[r] \in Request /\ ReqKnows(r) /\ Knows(r)
  BY DEF TypeOK, Knowledge, AuditKnows
<1>o. PICK o, w, k : o = req[r].op /\ w = req[r].user /\ k = req[r].stage
  OBVIOUS
<1>w. withdrawn \subseteq withdrawn'
  BY WithdrawnGrows
<1>s. CASE req'[r] = req[r]
  <2>1. Happened(o, w, k) => Happened(o, w, k)'
    BY <1>w, HappenedStays
  <2>2. o = req'[r].op /\ w = req'[r].user /\ k = req'[r].stage
    BY <1>o, <1>s
  <2>3. Knows(r)' <=> /\ o = "open" => w \in parties'
                      /\ req'[r].at = "audit" => Happened(o, w, k)'
    BY <2>2 DEF Happened, Complete
  <2>4. Knows(r) <=> /\ o = "open" => w \in parties
                     /\ req[r].at = "audit" => Happened(o, w, k)
    BY <1>o
  <2> QED
    BY <1>r, <1>s, <2>1, <2>3, <2>4 DEF Grows
<1>g. ASSUME req'[r] = Free PROVE Knows(r)'
  BY <1>g DEF Free
<1>p. ASSUME NEW at, Proceed(r, at),
             at = "audit" => Happened(o, w, k)'
      PROVE  Knows(r)'
  <2>1. /\ req'[r].op = req[r].op /\ req'[r].user = req[r].user
        /\ req'[r].stage = req[r].stage /\ req'[r].at = at
    BY <1>p, <1>r DEF Proceed, Request, TypeOK
  <2> QED
    BY <1>o, <1>p, <1>r, <2>1 DEF Grows, Happened, Complete
<1>q. ASSUME NEW q \in Requests, q # r,
             \/ Finish(q)
             \/ \E at : Proceed(q, at)
             \/ \E op, at, u, s : Begin(q, op, at, u, s)
      PROVE  Knows(r)'
  BY <1>q, <1>s DEF Finish, Proceed, Begin, TypeOK
<1>f. ASSUME Finish(r) PROVE Knows(r)'
  BY <1>f, <1>g DEF Finish, TypeOK
<1>b. ASSUME NEW op, NEW at, NEW u, NEW s, Begin(r, op, at, u, s),
             at # "audit", op = "open" => u \in parties'
      PROVE  Knows(r)'
  <2>1. req'[r] = [op |-> op, at |-> at, user |-> u, stage |-> s]
    BY <1>b DEF Begin, TypeOK
  <2> QED
    BY <1>b, <2>1
<1> HIDE DEF Knows
<1>1. ASSUME NEW q \in Requests, NEW u \in Users, OpenCase(q, u) PROVE Knows(r)'
  <2>1. Begin(q, "open", "invite", u, Consent) /\ u \in parties'
    BY <1>1 DEF OpenCase
  <2> QED
    BY <2>1, <1>q, <1>b
<1>2. ASSUME NEW q \in Requests,
             \/ \E u \in Users : \/ ReadInvite(q, u) \/ ReadParty(q, u) \/ ReadCase(q, u)
                                 \/ \E s \in Stages : CheckSubmission(q, u, s)
             \/ ReadStage(q) \/ \E s \in Stages : CountStatements(q, s)
      PROVE  Knows(r)'
  <2>1. \E op, at, u, s : op # "open" /\ at # "audit" /\ Begin(q, op, at, u, s)
    BY <1>2 DEF ReadInvite, Assess, ReadParty, ReadCase, CheckSubmission, ReadStage, CountStatements
  <2> QED
    BY <2>1, <1>q, <1>b
<1>3. ASSUME NEW q \in Requests, CreateInvite(q) \/ CheckReleased(q) PROVE Knows(r)'
  <2>1. Finish(q) \/ \E at : at # "audit" /\ Proceed(q, at)
    BY <1>3 DEF CreateInvite, CheckReleased
  <2> QED
    BY <2>1, <1>f, <1>p, <1>q
<1>4. ASSUME NEW q \in Requests, SendInvite(q) PROVE Knows(r)'
  <2>1. CASE q = r
    <3>1. Happened(o, w, k)'
      BY <1>o, <1>4, <1>r, <2>1 DEF SendInvite, InFlight, Happened, Knows
    <3> QED
      BY <1>4, <1>f, <1>p, <2>1, <3>1 DEF SendInvite
  <2> QED
    BY <1>4, <1>q, <2>1 DEF SendInvite
<1>5. ASSUME NEW q \in Requests, AcceptInvite(q) PROVE Knows(r)'
  <2>1. CASE q = r /\ CanJoin(req[r].user)
    <3>1. Happened(o, w, k)'
      BY <1>o, <1>5, <2>1 DEF AcceptInvite, InFlight, Happened
    <3> QED
      BY <1>5, <1>p, <2>1, <3>1 DEF AcceptInvite
  <2> QED
    BY <1>5, <1>f, <1>q, <2>1 DEF AcceptInvite
<1>6. ASSUME NEW q \in Requests, WithdrawParty(q) PROVE Knows(r)'
  <2>1. CASE q = r
    <3>1. Happened(o, w, k)'
      BY <1>o, <1>6, <2>1 DEF WithdrawParty, InFlight, Happened
    <3> QED
      BY <1>6, <1>p, <2>1, <3>1 DEF WithdrawParty
  <2> QED
    BY <1>6, <1>q, <2>1 DEF WithdrawParty
<1>7. ASSUME NEW q \in Requests, CreateStatement(q) PROVE Knows(r)'
  <2>1. CASE q = r /\ [party |-> req[r].user, stage |-> req[r].stage] \notin statements
    <3>1. Happened(o, w, k)'
      BY <1>o, <1>7, <2>1 DEF CreateStatement, InFlight, Happened
    <3> QED
      BY <1>7, <1>p, <2>1, <3>1 DEF CreateStatement
  <2> QED
    BY <1>7, <1>f, <1>q, <2>1 DEF CreateStatement
<1>8. ASSUME NEW q \in Requests, ReleaseStage(q) PROVE Knows(r)'
  <2>1. CASE q = r
    <3>1. Spoken(req[r].stage) /\ req[r].op = "release"
      BY <1>8, <1>r, <2>1 DEF ReleaseStage, InFlight, ReqKnows
    <3>2. Complete(k)'
      BY <1>8, <1>o, <2>1, <3>1 DEF ReleaseStage, ToRelease, StatementsOf, Spoken, Complete
    <3>3. Happened(o, w, k)'
      BY <1>o, <3>1, <3>2 DEF Happened
    <3> QED
      BY <1>8, <1>p, <2>1, <3>3 DEF ReleaseStage
  <2> QED
    BY <1>8, <1>q, <2>1 DEF ReleaseStage
<1>9. ASSUME NEW q \in Requests, WriteStage(q) \/ ScheduleFollowUps(q) PROVE Knows(r)'
  <2>0. \E at : Proceed(q, at)
    BY <1>9 DEF WriteStage, ScheduleFollowUps
  <2>1. CASE q = r
    <3>1. Complete(req[r].stage) /\ req[r].op = "advance"
      BY <1>9, <1>r, <2>1 DEF WriteStage, ScheduleFollowUps, InFlight, ReqKnows
    <3>2. Happened(o, w, k)
      BY <1>o, <3>1 DEF Happened
    <3>3. Happened(o, w, k)'
      BY <1>w, <3>2, HappenedStays
    <3> QED
      BY <1>p, <2>0, <2>1, <3>3
  <2> QED
    BY <1>q, <2>0, <2>1
<1>10. ASSUME NEW q \in Requests,
              DeclineInvite(q) \/ RouteOut(q) \/ RecordAudit(q) \/ ShowCase(q) \/ Crash(q)
       PROVE  Knows(r)'
  BY <1>10, <1>q, <1>f DEF DeclineInvite, RouteOut, RecordAudit, ShowCase, Crash
<1>11. CASE UNCHANGED req
  BY <1>11, <1>s
<1> QED
  BY <1>1, <1>2, <1>3, <1>4, <1>5, <1>6, <1>7, <1>8, <1>9, <1>10, <1>11
     DEF Next, Continue, MemberRequest, FacilitatorRequest, vars,
         WindowCloses, InviteExpires, PurgeStaleInvites

(* An entry says what happened when it is written, and nothing it says is    *)
(* undone.                                                                   *)
LEMMA StepAuditIsTrue ==
  ASSUME TypeOK, TypeOK', Knowledge, AuditKnows, AuditIsTrue, Grows, [Next]_vars
  PROVE  AuditIsTrue'
<1> DEFINE Entry(e) == IF e.action = "advance" THEN Happened("advance", e.user, e.stage - 1)
                                               ELSE Happened(e.action, e.user, e.stage)
<1>1. AuditIsTrue <=> \A e \in audit : Entry(e)
  BY DEF AuditIsTrue, Happened
<1>2. AuditIsTrue' <=> \A e \in audit' : Entry(e)'
  BY DEF AuditIsTrue, Happened
<1>w. withdrawn \subseteq withdrawn'
  BY WithdrawnGrows
<1>3. ASSUME NEW e \in audit PROVE Entry(e)'
  <2>1. \A s : Complete(s) => Complete(s)'
    BY PartiesStay DEF Complete, Grows
  <2> QED
    BY <1>1, <1>3, <1>w, <2>1 DEF Happened, Grows
<1>4. ASSUME NEW r \in Requests, RecordAudit(r), NEW e \in audit' \ audit
      PROVE  Entry(e)'
  <2>1. /\ e = [action |-> req[r].op, user |-> req[r].user,
                stage |-> IF req[r].op = "advance" THEN NextStage(req[r].stage)
                                                   ELSE req[r].stage]
        /\ req[r].at = "audit"
    BY <1>4 DEF RecordAudit
  <2>2. Happened(req[r].op, req[r].user, req[r].stage)
    BY <2>1 DEF AuditKnows
  <2>3. UNCHANGED <<parties, withdrawn, statements, released>>
    BY <1>4 DEF RecordAudit
  <2>4. CASE req[r].op # "advance"
    BY <2>1, <2>2, <2>3, <2>4 DEF Happened, Complete
  <2>5. CASE req[r].op = "advance"
    <3>1. /\ req[r].stage \in Stages /\ Complete(req[r].stage)
          /\ HeardBefore(req[r].stage)
      BY <2>1, <2>2, <2>5 DEF TypeOK, Request, Happened, Knowledge, ReqKnows
    <3>2. CASE req[r].stage = StageCount
      <4>1. NextStage(req[r].stage) - 1 = StageCount - 1
            /\ StageCount - 1 \in Situation..(StageCount - 1)
        BY <3>2, StageAssumption DEF NextStage, Situation
      <4>2. Complete(StageCount - 1)
        BY <3>1, <3>2, <4>1 DEF HeardBefore
      <4> QED
        BY <2>1, <2>3, <2>5, <4>1, <4>2 DEF Happened, Complete
    <3>3. CASE req[r].stage # StageCount
      <4>1. NextStage(req[r].stage) - 1 = req[r].stage
        BY <3>1, <3>3, StageAssumption DEF NextStage, Stages
      <4> QED
        BY <2>1, <2>3, <2>5, <3>1, <4>1 DEF Happened, Complete
    <3> QED
      BY <3>2, <3>3
  <2> QED
    BY <2>4, <2>5
<1>5. audit' = audit \/ \E r \in Requests : RecordAudit(r)
  BY DEF Next, Continue, MemberRequest, FacilitatorRequest, vars, OpenCase,
         CreateInvite, SendInvite, ReadInvite, AcceptInvite, DeclineInvite,
         RouteOut, ReadParty, WithdrawParty, CheckSubmission, CreateStatement,
         CountStatements, ReleaseStage, ReadStage, CheckReleased, WriteStage,
         ScheduleFollowUps, ReadCase, ShowCase, Crash, WindowCloses,
         InviteExpires, PurgeStaleInvites
<1> HIDE DEF Entry
<1> QED
  BY <1>2, <1>3, <1>4, <1>5

-----------------------------------------------------------------------------
(* The invariant is inductive, and what it implies holds in every behaviour. *)

(* IInv holds initially.                                                     *)
LEMMA InitIInv == Init => IInv
<1> SUFFICES ASSUME Init PROVE IInv
  OBVIOUS
<1>1. Knowledge
  BY DEF Init, Knowledge, AtMostTwo, Rows, ReqKnows, NoInvite, Free
<1>2. NoStageSkipped /\ ClosedMeansHeard /\ ActiveHasTwoParties
  BY DEF Init, NoCase, Consent, Situation, NoStageSkipped, ClosedMeansHeard, Understood,
         ActiveHasTwoParties
<1>3. ReleasedTogether /\ SpeakBeforeHearing
  BY DEF Init, ReleasedTogether, SpeakBeforeHearing
<1>4. AuditKnows /\ AuditIsTrue
  BY DEF Init, Free, AuditKnows, AuditIsTrue
<1> QED
  BY <1>1, <1>2, <1>3, <1>4, InitTypeOK DEF IInv

(* IInv is kept by every step.                                               *)
LEMMA StepIInv == IInv /\ [Next]_vars => IInv'
<1> SUFFICES ASSUME IInv, [Next]_vars PROVE IInv'
  OBVIOUS
<1>1. TypeOK'
  BY NextTypeOK DEF IInv
<1>2. Grows
  BY StepGrows DEF IInv
<1>3. Knowledge'
  BY <1>1, <1>2, StepRows, StepKnows DEF IInv, Knowledge, Grows
<1>4. ReleasedTogether'
  BY <1>1, <1>2, StepReleasedTogether DEF IInv
<1>5. NoStageSkipped' /\ ClosedMeansHeard' /\ ActiveHasTwoParties'
  BY <1>1, <1>2, StepStages DEF IInv
<1>6. SpeakBeforeHearing'
  BY <1>2, StepSpeakBeforeHearing DEF IInv
<1>7. AuditKnows' /\ AuditIsTrue'
  BY <1>1, <1>2, StepAuditKnows, StepAuditIsTrue DEF IInv
<1> QED
  BY <1>1, <1>3, <1>4, <1>5, <1>6, <1>7 DEF IInv

(* The inductive invariant holds in every behaviour of the case.             *)
THEOREM Invariance == Spec => []IInv
  BY InitIInv, StepIInv, PTL DEF Spec

(* Type correctness, and a withdrawal marks a party's row only.              *)
THEOREM TypeCorrect == Spec => []TypeOK
<1>1. IInv => TypeOK
  BY DEF IInv
<1> QED
  BY <1>1, Invariance, PTL

(* D-2: both statements of a stage are released together, or neither.        *)
THEOREM ReleaseSymmetry == Spec => []ReleasedTogether
<1>1. IInv => ReleasedTogether
  BY DEF IInv
<1> QED
  BY <1>1, Invariance, PTL

(* D-2/D-3: no party sees the other's words of a stage before giving theirs. *)
THEOREM NobodyHearsFirst == Spec => []SpeakBeforeHearing
<1>1. IInv => SpeakBeforeHearing
  BY DEF IInv
<1> QED
  BY <1>1, Invariance, PTL

(* D-4: every stage behind a case was completed by both parties, also under  *)
(* overlapping and stale advances.                                           *)
THEOREM EveryStageHeard == Spec => []NoStageSkipped
<1>1. IInv => NoStageSkipped
  BY DEF IInv
<1> QED
  BY <1>1, Invariance, PTL

(* What the statistics report as an understanding went through every stage,  *)
(* both parties heard in each.                                               *)
THEOREM UnderstandingIsHeard == Spec => []ClosedMeansHeard
<1>1. IInv => ClosedMeansHeard
  BY DEF IInv
<1> QED
  BY <1>1, Invariance, PTL

(* D-1: an active case has two consenting parties and a stage to speak in.   *)
THEOREM ActiveIsMutual == Spec => []ActiveHasTwoParties
<1>1. IInv => ActiveHasTwoParties
  BY DEF IInv
<1> QED
  BY <1>1, Invariance, PTL

(* The audit log records nothing that did not happen, whatever failed or     *)
(* overlapped.                                                               *)
THEOREM AuditNeverForged == Spec => []AuditIsTrue
<1>1. IInv => AuditIsTrue
  BY DEF IInv
<1> QED
  BY <1>1, Invariance, PTL

-----------------------------------------------------------------------------
(* The case implements the sealed exchange.                                  *)

(* An empty case is an exchange in which nothing was written.                *)
LEMMA InitExchange == Init => Exchange!Init
  BY DEF Init, Exchange!Init

(* Creating a statement writes under seal, releasing a stage breaks both its *)
(* seals, showing the case reads, and every other step is a stutter.         *)
LEMMA StepExchange ==
  ASSUME IInv, IInv', [Next]_vars
  PROVE  [Exchange!Next]_(Exchange!vars)
<1> USE DEF IInv
<1>1. ASSUME NEW r \in Requests, CreateStatement(r)
      PROVE  Exchange!Next \/ UNCHANGED Exchange!vars
  <2> DEFINE mine == [party |-> req[r].user, stage |-> req[r].stage]
  <2>1. UNCHANGED <<parties, released, seen>>
    BY <1>1 DEF CreateStatement
  <2>2. CASE mine \in statements
    BY <1>1, <2>1, <2>2 DEF CreateStatement, Exchange!vars
  <2>3. CASE mine \notin statements
    <3>1. statements' = statements \union {mine} /\ mine.party \in parties
      BY <1>1, <2>3 DEF CreateStatement, InFlight, Knowledge, ReqKnows
    <3>2. mine \in Exchange!Words
      BY <3>1 DEF TypeOK, Statement, Exchange!Words
    <3>3. \A o \in released : o.stage # mine.stage
      BY <2>3, <3>1 DEF ReleasedTogether, Complete, TypeOK
    <3>4. Exchange!TwoSides(statements \union {mine})
      <4>1. \A t \in statements \union {mine} : t.party \in parties
        BY <3>1 DEF Knowledge, Rows
      <4>2. mine.party \in Users /\ parties \subseteq Users
        BY <3>1 DEF TypeOK
      <4>3. \E y \in parties : \A z \in parties : z \in {mine.party, y}
        BY <3>1 DEF Knowledge, AtMostTwo
      <4> QED
        BY <4>1, <4>2, <4>3 DEF Exchange!TwoSides
    <3> QED
      BY <2>1, <2>3, <3>1, <3>2, <3>3, <3>4 DEF Exchange!Next, Exchange!Write
  <2> QED
    BY <2>2, <2>3
<1>2. ASSUME NEW r \in Requests, ReleaseStage(r)
      PROVE  Exchange!Next
  <2>1. PICK s \in Stages : s = req[r].stage
    BY DEF TypeOK, Request
  <2>2. Spoken(s)
    BY <1>2, <2>1 DEF ReleaseStage, InFlight, Knowledge, ReqKnows
  <2>3. PICK x, y \in parties : x # y
    BY <2>2, TwoDistinct DEF Spoken
  <2>4. /\ [party |-> x, stage |-> s] \in Exchange!Of(s)
        /\ [party |-> y, stage |-> s] \in Exchange!Of(s)
    BY <2>2 DEF Spoken, Exchange!Of
  <2>5. \E v, w \in Exchange!Of(s) : v.party # w.party
    BY <2>3, <2>4
  <2>6. released' = released \union Exchange!Of(s) /\ UNCHANGED <<statements, seen>>
    BY <1>2, <2>1 DEF ReleaseStage, ToRelease, StatementsOf, Exchange!Of
  <2> QED
    BY <2>5, <2>6 DEF Exchange!Next, Exchange!Open
<1>3. ASSUME NEW r \in Requests, ShowCase(r)
      PROVE  Exchange!Next \/ UNCHANGED Exchange!vars
  <2>1. UNCHANGED <<statements, released>> /\ seen = [u \in Users |-> seen[u]]
    BY <1>3 DEF ShowCase, TypeOK
  <2>2. CASE req[r].user \notin parties \/ ~BothSubmitted(req[r].stage)
    <3>1. seen' = seen
      <4>1. CASE req[r].user \notin parties
        BY <1>3, <4>1 DEF ShowCase
      <4>2. CASE req[r].user \in parties
        <5>1. VisibleToOther(req[r].user, req[r].stage) = {}
          BY <2>2, <4>2 DEF VisibleToOther
        <5>2. seen' = [seen EXCEPT ![req[r].user] = @ \union {}]
          BY <1>3, <4>2, <5>1 DEF ShowCase
        <5> QED
          BY <2>1, <5>2
      <4> QED
        BY <4>1, <4>2
    <3> QED
      BY <2>1, <3>1 DEF Exchange!vars
  <2>3. CASE req[r].user \in parties /\ BothSubmitted(req[r].stage)
    <3>1. PICK u \in Users : u = req[r].user /\ u \in parties
      BY <2>3 DEF TypeOK
    <3>2. seen' = [seen EXCEPT ![u] = @ \union {o \in released : o.party # u}]
      BY <1>3, <2>3, <3>1 DEF ShowCase, VisibleToOther
    <3>3. \A o \in released : [party |-> u, stage |-> o.stage] \in statements
      BY <3>1 DEF ReleasedTogether, Complete, TypeOK
    <3> QED
      BY <2>1, <3>1, <3>2, <3>3 DEF Exchange!Next, Exchange!Read
  <2> QED
    BY <2>2, <2>3
<1>4. ASSUME UNCHANGED <<statements, released, seen>>
      PROVE  UNCHANGED Exchange!vars
  BY <1>4 DEF Exchange!vars
<1> QED
  BY <1>1, <1>2, <1>3, <1>4
     DEF Next, Continue, MemberRequest, FacilitatorRequest, vars, OpenCase,
         CreateInvite, SendInvite, RecordAudit, ReadInvite, AcceptInvite,
         DeclineInvite, RouteOut, ReadParty, WithdrawParty, CheckSubmission,
         CountStatements, ReadStage, CheckReleased, WriteStage,
         ScheduleFollowUps, ReadCase, Crash, WindowCloses, InviteExpires,
         PurgeStaleInvites

(* D-2/D-3: the handlers of a case, overlapping in any way and cut short     *)
(* anywhere, implement the sealed exchange.                                  *)
THEOREM Refinement == Spec => ExchangeIsSealed
<1>1. IInv /\ IInv' /\ [Next]_vars => [Exchange!Next]_(Exchange!vars)
  BY StepExchange
<1> QED
  BY <1>1, InitExchange, Invariance, PTL DEF Spec, ExchangeIsSealed, Exchange!Spec
=============================================================================
