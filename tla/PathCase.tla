------------------------------ MODULE PathCase ------------------------------
(***************************************************************************)
(* One case of The Path (module D): the opener's intake, the invitation,   *)
(* the two parties' statements stage by stage, their release and the       *)
(* advance to the next stage, and withdrawal.                              *)
(*                                                                         *)
(* The handlers of CasesService, CaseInvitesService and StatementsService  *)
(* are split at their awaits: a request reads in one step and writes in a  *)
(* later one, and any number of requests of the set Requests is in flight. *)
(* A stage is its position in CASE_STAGES.                                 *)
(*                                                                         *)
(* The definitions CanJoinAgain, RequireNobody, OneSpoke, FirstOf,         *)
(* NextStagePlusTwo, BothSubmittedOnly, NoFollowUps, VisibleOnceSubmitted  *)
(* are plausible mistakes in the definition that follows each of them;     *)
(* nothing uses them but the mutation runs.                                *)
(***************************************************************************)
EXTENDS Integers, FiniteSets

CONSTANTS Users,        \* signed-in members that may hold a token or a party row
          Requests,     \* slots for the requests in flight
          StageCount,   \* length of CASE_STAGES
          MaxCrashes    \* how many requests may be cut short between two awaits

ASSUME UsersAssumption    == IsFiniteSet(Users)
ASSUME StageAssumption    == StageCount \in Nat /\ StageCount >= 3
ASSUME CrashAssumption    == MaxCrashes \in Nat

Stages    == 1..StageCount
Consent   == 1
Situation == 2
FollowUp  == StageCount

CaseStatus == {"AWAITING_CONSENT", "ACTIVE", "WITHDRAWN", "CLOSED", "ROUTED_OUT"}
Statement  == [party : Users, stage : Stages]
Operations == {"open", "respond", "withdraw", "submit", "release", "advance", "view"}
AwaitPoints == {"invite", "mail", "accept", "decline", "route", "write",
                "statements", "followUps", "audit"}

\* A request in flight: its operation, the await it stands at, who asks (Nobody
\* for the facilitator) and the stage it named or read. Free is an empty slot.
Nobody  == "nobody"
Request == [op : Operations \union {"none"}, at : AwaitPoints \union {"none"},
            user : Users \union {Nobody}, stage : Stages]
Free    == [op |-> "none", at |-> "none", user |-> Nobody, stage |-> Consent]

VARIABLES case,        \* the row of cases: status, stage, stageDueAt, closedAt
          invite,      \* the row of case_invites, and whether its mail went out
          parties,     \* users with a row in case_parties (consentedAt is set)
          withdrawn,   \* those whose row has withdrawnAt
          statements,  \* rows of case_statements
          released,    \* those with releasedAt
          followUps,   \* the rows of case_follow_ups exist
          audit,       \* the entries of audit_logs about this case
          seen,        \* history: the other side's statements each user was shown
          req,         \* requests in flight
          crashes      \* requests cut short so far

vars == <<case, invite, parties, withdrawn, statements, released, followUps,
          audit, seen, req, crashes>>

-----------------------------------------------------------------------------
NoCase == [status |-> "NONE", stage |-> Consent, due |-> "none", closed |-> FALSE]
NoInvite == [exists |-> FALSE, mailed |-> FALSE, accepted |-> FALSE,
             declined |-> FALSE, expired |-> FALSE]

Init ==
  /\ case = NoCase
  /\ invite = NoInvite
  /\ parties = {} /\ withdrawn = {}
  /\ statements = {} /\ released = {}
  /\ followUps = FALSE
  /\ audit = {}
  /\ seen = [u \in Users |-> {}]
  /\ req = [r \in Requests |-> Free]
  /\ crashes = 0

InFlight(r, op, at) == req[r].op = op /\ req[r].at = at

Begin(r, op, at, u, s) ==
  /\ req[r] = Free
  /\ req' = [req EXCEPT ![r] = [op |-> op, at |-> at, user |-> u, stage |-> s]]

Proceed(r, at) == req' = [req EXCEPT ![r] = [@ EXCEPT !.at = at]]

Finish(r) == req' = [req EXCEPT ![r] = Free]

StatementsOf(s) == {t \in statements : t.stage = s}
ReleasedOf(s)   == {t \in released : t.stage = s}

\* CasesService.nextStage: the last stage is its own successor.
NextStagePlusTwo(s) == IF s + 2 <= StageCount THEN s + 2 ELSE StageCount
NextStage(s) == IF s + 1 <= StageCount THEN s + 1 ELSE StageCount

-----------------------------------------------------------------------------
(* CasesService.open: an out-of-scope intake leaves no row at all (D-8), so  *)
(* only the in-scope one is a step. The party row is nested in case.create.  *)
OpenCase(r, u) ==
  /\ case = NoCase
  /\ Begin(r, "open", "invite", u, Consent)
  /\ case' = [NoCase EXCEPT !.status = "AWAITING_CONSENT"]
  /\ parties' = {u}
  /\ UNCHANGED <<invite, withdrawn, statements, released, followUps, audit,
                 seen, crashes>>

CreateInvite(r) ==
  /\ InFlight(r, "open", "invite")
  /\ invite' = [NoInvite EXCEPT !.exists = TRUE]
  /\ Proceed(r, "mail")
  /\ UNCHANGED <<case, parties, withdrawn, statements, released, followUps,
                 audit, seen, crashes>>

\* The mail leaves, or its failure ends the request with the rows in place.
SendInvite(r) ==
  /\ InFlight(r, "open", "mail")
  /\ \/ invite' = [invite EXCEPT !.mailed = TRUE] /\ Proceed(r, "audit")
     \/ UNCHANGED invite /\ Finish(r)
  /\ UNCHANGED <<case, parties, withdrawn, statements, released, followUps,
                 audit, seen, crashes>>

(* AuditService.record, the last await of every handler that has one; the    *)
(* metadata of advance is the stage moved to.                                *)
RecordAudit(r) ==
  /\ req[r].at = "audit"
  /\ audit' = audit \union
       {[action |-> req[r].op, user |-> req[r].user,
         stage |-> IF req[r].op = "advance" THEN NextStage(req[r].stage)
                                            ELSE req[r].stage]}
  /\ Finish(r)
  /\ UNCHANGED <<case, invite, parties, withdrawn, statements, released,
                 followUps, seen, crashes>>

-----------------------------------------------------------------------------
(* CaseInvitesService.respond: the invitation is read, judged open, and only *)
(* a later statement writes the answer. The case row is never read.          *)
InviteOpen == /\ invite.exists /\ invite.mailed
              /\ ~invite.accepted /\ ~invite.declined /\ ~invite.expired

\* ScopeRoutingService.assess: one pattern that matches routes the answer out;
\* the words themselves are not modelled, either verdict can be theirs.
Assess == {"accept", "route"}

ReadInvite(r, u) ==
  /\ InviteOpen
  /\ \E answer \in {"decline"} \union Assess :
        Begin(r, "respond", answer, u, Situation)
  /\ UNCHANGED <<case, invite, parties, withdrawn, statements, released,
                 followUps, audit, seen, crashes>>

\* What the tables let the transaction commit: the invitation was not purged,
\* the user has no row yet (unique index), and two parties at most (trigger).
CanJoinAgain(u) == invite.exists
CanJoin(u) == invite.exists /\ u \notin parties /\ Cardinality(parties) < 2

\* One transaction: party row, acceptedAt and the case row, or none of them.
AcceptInvite(r) ==
  /\ InFlight(r, "respond", "accept")
  /\ IF CanJoin(req[r].user)
       THEN /\ parties' = parties \union {req[r].user}
            /\ invite' = [invite EXCEPT !.accepted = TRUE]
            /\ case' = [case EXCEPT !.status = "ACTIVE", !.stage = Situation,
                                    !.due = "open"]
            /\ Proceed(r, "audit")
       ELSE /\ UNCHANGED <<parties, invite, case>>
            /\ Finish(r)
  /\ UNCHANGED <<withdrawn, statements, released, followUps, audit, seen, crashes>>

DeclineInvite(r) ==
  /\ InFlight(r, "respond", "decline")
  /\ IF invite.exists
       THEN /\ invite' = [invite EXCEPT !.declined = TRUE]
            /\ case' = [case EXCEPT !.status = "WITHDRAWN", !.closed = TRUE]
       ELSE UNCHANGED <<invite, case>>
  /\ Finish(r)
  /\ UNCHANGED <<parties, withdrawn, statements, released, followUps, audit,
                 seen, crashes>>

\* D-8 from the invited side: the case is routed out, the invitation stays open.
RouteOut(r) ==
  /\ InFlight(r, "respond", "route")
  /\ case' = [case EXCEPT !.status = "ROUTED_OUT", !.closed = TRUE]
  /\ Finish(r)
  /\ UNCHANGED <<invite, parties, withdrawn, statements, released, followUps,
                 audit, seen, crashes>>

-----------------------------------------------------------------------------
RequireNobody(u) == TRUE
RequireParty(u) == u \in parties

(* CasesService.withdraw: a party row is enough, whatever the case's status. *)
ReadParty(r, u) ==
  /\ RequireParty(u)
  /\ Begin(r, "withdraw", "write", u, Consent)
  /\ UNCHANGED <<case, invite, parties, withdrawn, statements, released,
                 followUps, audit, seen, crashes>>

WithdrawParty(r) ==
  /\ InFlight(r, "withdraw", "write")
  /\ withdrawn' = withdrawn \union {req[r].user}
  /\ case' = [case EXCEPT !.status = "WITHDRAWN", !.closed = TRUE]
  /\ Proceed(r, "audit")
  /\ UNCHANGED <<invite, parties, statements, released, followUps, seen, audit,
                 crashes>>

-----------------------------------------------------------------------------
OpenAtStage(s) == case.status = "ACTIVE" /\ case.stage = s /\ case.due # "past"

(* StatementsService.submit. The reads of the party and of an existing       *)
(* statement are one step with the read of the case: those rows are never    *)
(* deleted, and the unique index decides again when the row is created.      *)
CheckSubmission(r, u, s) ==
  /\ OpenAtStage(s)
  /\ RequireParty(u)
  /\ Begin(r, "submit", "write", u, s)
  /\ UNCHANGED <<case, invite, parties, withdrawn, statements, released,
                 followUps, audit, seen, crashes>>

CreateStatement(r) ==
  /\ InFlight(r, "submit", "write")
  /\ LET mine == [party |-> req[r].user, stage |-> req[r].stage]
     IN IF mine \in statements
          THEN UNCHANGED statements /\ Finish(r)
          ELSE statements' = statements \union {mine} /\ Proceed(r, "audit")
  /\ UNCHANGED <<case, invite, parties, withdrawn, released, followUps, audit,
                 seen, crashes>>

OneSpoke(s)  == Cardinality(StatementsOf(s)) >= 1
BothSpoke(s) == Cardinality(StatementsOf(s)) >= 2

FirstOf(s)   == {t \in StatementsOf(s) : t = CHOOSE x \in StatementsOf(s) : TRUE}
ToRelease(s) == StatementsOf(s)

(* StatementsService.release: the facilitator names the stage in the URL.    *)
CountStatements(r, s) ==
  /\ BothSpoke(s)
  /\ Begin(r, "release", "write", Nobody, s)
  /\ UNCHANGED <<case, invite, parties, withdrawn, statements, released,
                 followUps, audit, seen, crashes>>

ReleaseStage(r) ==
  /\ InFlight(r, "release", "write")
  /\ released' = released \union ToRelease(req[r].stage)
  /\ Proceed(r, "audit")
  /\ UNCHANGED <<case, invite, parties, withdrawn, statements, followUps,
                 audit, seen, crashes>>

-----------------------------------------------------------------------------
(* StatementsService.advance. findUnique with an include is one query per    *)
(* relation, so the statements are read after the case row. The update       *)
(* writes the stage computed from the row read first.                        *)
BothSubmittedOnly(s) == BothSpoke(s)
BothReleased(s) == Cardinality(ReleasedOf(s)) >= 2

NoFollowUps(next)  == "audit"
AfterAdvance(next) == IF next = FollowUp THEN "followUps" ELSE "audit"

ReadStage(r) ==
  /\ case # NoCase
  /\ Begin(r, "advance", "statements", Nobody, case.stage)
  /\ UNCHANGED <<case, invite, parties, withdrawn, statements, released,
                 followUps, audit, seen, crashes>>

CheckReleased(r) ==
  /\ InFlight(r, "advance", "statements")
  /\ IF BothReleased(req[r].stage)
       THEN Proceed(r, "write")
       ELSE Finish(r)
  /\ UNCHANGED <<case, invite, parties, withdrawn, statements, released,
                 followUps, audit, seen, crashes>>

WriteStage(r) ==
  /\ InFlight(r, "advance", "write")
  /\ LET next   == NextStage(req[r].stage)
         opened == [case EXCEPT !.stage = next, !.due = "open"]
     IN /\ case' = IF next = FollowUp
                     THEN [opened EXCEPT !.status = "CLOSED", !.closed = TRUE]
                     ELSE opened
        /\ Proceed(r, AfterAdvance(next))
  /\ UNCHANGED <<invite, parties, withdrawn, statements, released, followUps,
                 audit, seen, crashes>>

\* CasesService.scheduleFollowUps: createMany, duplicates skipped.
ScheduleFollowUps(r) ==
  /\ InFlight(r, "advance", "followUps")
  /\ followUps' = TRUE
  /\ Proceed(r, "audit")
  /\ UNCHANGED <<case, invite, parties, withdrawn, statements, released, audit,
                 seen, crashes>>

-----------------------------------------------------------------------------
(* StatementsService.view: again the case row first, the relations after it. *)
(* The parties are read with the statements: two statements of a stage need  *)
(* two parties, so an earlier read could only show less.                     *)
ReadCase(r, u) ==
  /\ case # NoCase
  /\ Begin(r, "view", "statements", u, case.stage)
  /\ UNCHANGED <<case, invite, parties, withdrawn, statements, released,
                 followUps, audit, seen, crashes>>

BothSubmitted(s) == /\ Cardinality(parties) = 2
                    /\ Cardinality(StatementsOf(s)) = 2

\* SymmetryService.visibleStatements, for the words of the other side.
VisibleOnceSubmitted(viewer, s) ==
  {t \in statements : t.party # viewer /\ BothSubmitted(s)}

VisibleToOther(viewer, s) ==
  {t \in released : t.party # viewer /\ BothSubmitted(s)}

ShowCase(r) ==
  /\ InFlight(r, "view", "statements")
  /\ LET u == req[r].user
     IN IF u \in parties
          THEN seen' = [seen EXCEPT ![u] = @ \union VisibleToOther(u, req[r].stage)]
          ELSE UNCHANGED seen
  /\ Finish(r)
  /\ UNCHANGED <<case, invite, parties, withdrawn, statements, released,
                 followUps, audit, crashes>>

-----------------------------------------------------------------------------
(* The clock, the nightly purge of stale invitations, and a process that     *)
(* stops: the request goes no further, what it wrote stays.                  *)
WindowCloses ==
  /\ case.due = "open"
  /\ case' = [case EXCEPT !.due = "past"]
  /\ UNCHANGED <<invite, parties, withdrawn, statements, released, followUps,
                 audit, seen, req, crashes>>

InviteExpires ==
  /\ invite.exists /\ ~invite.expired
  /\ invite' = [invite EXCEPT !.expired = TRUE]
  /\ UNCHANGED <<case, parties, withdrawn, statements, released, followUps,
                 audit, seen, req, crashes>>

PurgeStaleInvites ==
  /\ invite.exists /\ invite.expired /\ ~invite.accepted
  /\ invite' = [invite EXCEPT !.exists = FALSE]
  /\ UNCHANGED <<case, parties, withdrawn, statements, released, followUps,
                 audit, seen, req, crashes>>

Crash(r) ==
  /\ req[r] # Free
  /\ crashes < MaxCrashes
  /\ crashes' = crashes + 1
  /\ Finish(r)
  /\ UNCHANGED <<case, invite, parties, withdrawn, statements, released,
                 followUps, audit, seen>>

-----------------------------------------------------------------------------
(* What the server does by itself once a request has begun.                  *)
Continue(r) ==
  \/ CreateInvite(r) \/ SendInvite(r)
  \/ AcceptInvite(r) \/ DeclineInvite(r) \/ RouteOut(r)
  \/ WithdrawParty(r) \/ CreateStatement(r) \/ ReleaseStage(r)
  \/ CheckReleased(r) \/ WriteStage(r) \/ ScheduleFollowUps(r)
  \/ ShowCase(r) \/ RecordAudit(r)

MemberRequest(r, u) ==
  \/ OpenCase(r, u) \/ ReadInvite(r, u) \/ ReadParty(r, u) \/ ReadCase(r, u)
  \/ \E s \in Stages : CheckSubmission(r, u, s)

FacilitatorRequest(r) ==
  \/ ReadStage(r)
  \/ \E s \in Stages : CountStatements(r, s)

Next ==
  \/ \E r \in Requests :
       \/ Continue(r)
       \/ \E u \in Users : MemberRequest(r, u)
       \/ FacilitatorRequest(r)
       \/ Crash(r)
  \/ WindowCloses \/ InviteExpires \/ PurgeStaleInvites

Spec == Init /\ [][Next]_vars

(* The server runs every handler it has begun to its end.                    *)
FairSpec == Spec /\ \A r \in Requests : WF_vars(Continue(r))

(* Besides, the people do their part: each party keeps trying to give the    *)
(* statement the case waits for, the facilitator to release and to advance.  *)
DiligentSpec ==
  /\ FairSpec
  /\ \A r \in Requests :
       /\ SF_vars(ReadStage(r))
       /\ \A s \in Stages : SF_vars(CountStatements(r, s))
       /\ \A u \in Users : SF_vars(\E s \in Stages : CheckSubmission(r, u, s))

-----------------------------------------------------------------------------
TypeOK ==
  /\ case \in [status : CaseStatus \union {"NONE"}, stage : Stages,
               due : {"none", "open", "past"}, closed : BOOLEAN]
  /\ invite \in [exists : BOOLEAN, mailed : BOOLEAN, accepted : BOOLEAN,
                 declined : BOOLEAN, expired : BOOLEAN]
  /\ parties \subseteq Users
  /\ withdrawn \subseteq parties
  /\ statements \subseteq Statement
  /\ released \subseteq statements
  /\ followUps \in BOOLEAN
  /\ audit \subseteq [action : Operations, user : Users \union {Nobody},
                      stage : Stages]
  /\ seen \in [Users -> SUBSET Statement]
  /\ req \in [Requests -> Request]
  /\ crashes \in 0..MaxCrashes

\* Both parties of the case have spoken at stage s and both are released.
Complete(s) == /\ Cardinality(parties) = 2
               /\ \A u \in parties : [party |-> u, stage |-> s] \in released

(* D-2: "the facilitator releases both statements together, or neither": at  *)
(* no moment is exactly one side's statement of a stage released, whatever   *)
(* submit arrives between release's count and its update.                    *)
ReleasedTogether == \A t \in released : Complete(t.stage)

(* D-2/D-3: whoever was shown the other side's words of a stage had given    *)
(* their own for that stage, and the words had been released (view,          *)
(* visibleStatements, release and submit interleaved in any way, whichever   *)
(* stage the case is at when the view is answered).                          *)
SpeakBeforeHearing ==
  \A u \in Users : \A t \in seen[u] :
     /\ t.party # u
     /\ t \in released
     /\ [party |-> u, stage |-> t.stage] \in statements

(* D-4: a case at a stage has been through every stage before it, with both  *)
(* parties heard in each, however requests to advance overlap or repeat.     *)
NoStageSkipped == \A s \in Situation..(case.stage - 1) : Complete(s)

\* StatsService.aggregate: the cases it counts as casesReachingUnderstanding.
Understood == case.status = "CLOSED"

(* A case that counts as closed went through every stage, both heard: this   *)
(* is what stats.aggregate reports as having reached an understanding.       *)
ClosedMeansHeard ==
  Understood => \A s \in Situation..(FollowUp - 1) : Complete(s)

(* D-1: an active case has two parties that consented and is at a stage in   *)
(* which both can speak.                                                     *)
ActiveHasTwoParties ==
  case.status = "ACTIVE" =>
    /\ Cardinality(parties) = 2
    /\ case.stage \in Situation..(FollowUp - 1)

(* The audit log never records what did not happen: every entry is written   *)
(* after the change it names, so a failure can lose an entry, not forge one. *)
AuditIsTrue ==
  \A e \in audit :
    CASE e.action \in {"open", "respond"} -> e.user \in parties
      [] e.action = "withdraw" -> e.user \in withdrawn
      [] e.action = "submit"   -> [party |-> e.user, stage |-> e.stage] \in statements
      [] e.action = "release"  -> Complete(e.stage)
      [] e.action = "advance"  -> Complete(e.stage - 1)
      [] OTHER -> FALSE

-----------------------------------------------------------------------------
(* The exchange that the case's rows are to be: statements under seal.       *)
Exchange == INSTANCE SealedExchange
              WITH said <- statements, opened <- released, heard <- seen

(* D-2/D-3: however the handlers overlap, the statements are exchanged as    *)
(* two sides break seals at once: no words are added to a stage that is      *)
(* released, both are released in one step, and whoever reads has written.   *)
ExchangeIsSealed == Exchange!Spec

-----------------------------------------------------------------------------
(* What must happen in the end.                                              *)

(* D-4 stage 7: a case that closes gets its follow-ups scheduled, provided   *)
(* the process does not stop between the two writes.                         *)
ClosedIsFollowedUp == (case.status = "CLOSED") ~> followUps

(* D-3/D-4: with both parties and the facilitator doing their part, an       *)
(* active case either leaves the active state (closed by its last stage, or  *)
(* withdrawn) or runs into a response window that has passed.                *)
ActiveCaseProceeds ==
  (case.status = "ACTIVE") ~> (case.status # "ACTIVE" \/ case.due = "past")

-----------------------------------------------------------------------------
(* What the repository's comments and screens say and these handlers do not  *)
(* keep; each is the property of a run of its own.                           *)

(* D-1 and D-7: a case proceeds only while every party consents to it. The   *)
(* invitation can be accepted after the opener has withdrawn.                *)
ActiveWhileNobodyWithdrew == case.status = "ACTIVE" => withdrawn = {}

(* D-7: a party's withdrawal ends the case. advance does not read the status *)
(* and can turn a withdrawn case into a closed one.                          *)
ClosedWhileNobodyWithdrew == case.status = "CLOSED" => withdrawn = {}

(* D-8: "it stops the case and shows referral information". The invitation   *)
(* stays open, and a second answer to it that is in scope starts the case.   *)
StoppedStaysStopped ==
  [][case.status = "ROUTED_OUT" => case'.status # "ACTIVE"]_vars

(* "The window for this stage has closed. Your facilitator can reopen it."   *)
WindowIsReopened ==
  (case.status = "ACTIVE" /\ case.due = "past")
     ~> (case.due = "open" \/ case.status # "ACTIVE")
=============================================================================
