------------------------------ MODULE Moderation ------------------------------
(***************************************************************************)
(* Reports, decisions and appeals about what members write: report and     *)
(* decide of ModerationService, AppealsService, over posts and over the    *)
(* kinds of target that applyToTarget does not know (circles, events,      *)
(* messages, media). Decisions about voices are in VoiceLedger, about      *)
(* members in Accounts. A request is the sequence of its statements:       *)
(* others run between two of them, and it may fail at any of them.         *)
(*                                                                         *)
(* Bounds: MaxArrivals decisions, appeals and answers, MaxFaults of them   *)
(* cut short. RecordFirst, ForgetReport and AuditFirst are plausible       *)
(* mistakes in the definition that follows; only the mutation runs use     *)
(* them.                                                                   *)
(***************************************************************************)
EXTENDS Integers, Sequences, FiniteSets

CONSTANTS Posts,
          Stories,      \* the posts of type STORY
          Others,       \* targets of the other kinds
          Requests,     \* requests in flight
          Moderators,   \* moderators and administrators
          Actions,      \* of a decision: the kinds of action the instance has
          Reports, Appeals, MaxArrivals, MaxFaults

None == "none"

ASSUME ModerationAssumption ==
  /\ Stories \subseteq Posts /\ Others \intersect Posts = {}
  /\ Actions \subseteq {"APPROVE", "HIDE", "REJECT", "DISMISS_REPORT"}
  /\ None \notin Reports
  /\ MaxArrivals \in Nat /\ MaxFaults \in Nat

Answers  == {"UPHELD", "DECLINED"}
Absent   == "absent"
Targets  == Posts \union Others
Status   == {"PENDING", "PUBLISHED", "HIDDEN", "REJECTED"}
NoAppeal == [of |-> 0, status |-> None]

Idle == [op |-> "idle", at |-> "idle", who |-> None, on |-> None, action |-> None,
         report |-> None, decision |-> 0]

VARIABLES status,     \* of a post; the other targets stay as they were created
          req,        \* the requests in flight
          report,     \* how a report stands; nothing compares what it is about with a decision
          decisions,  \* the rows of moderation_decisions, in their order
          appeal,     \* the decision an appeal is against, and how it stands
          audit,      \* the log: decisions, appeals opened, the last answer to each
          arrived, faults,
          mixed,      \* history: posts and appeals with requests that overlapped
          cut         \* history: the requests cut short, each at the step it did not do

moderation == <<report, decisions, appeal, audit>>
vars == <<status, req, moderation, arrived, faults, mixed, cut>>

TypeOK ==
  /\ status \in [Targets -> Status \union {Absent}]
  /\ report \in [Reports -> {None, "OPEN", "RESOLVED"}]
  /\ decisions \in Seq([on : Targets, action : Actions, by : Moderators,
                        report : Reports \union {None}])
  /\ Len(decisions) <= MaxArrivals
  /\ appeal \in [Appeals -> [of : 0..MaxArrivals, status : {None, "OPEN"} \union Answers]]
  /\ audit \in [decisions : SUBSET (1..MaxArrivals), opened : SUBSET Appeals,
                answer : [Appeals -> Answers \union {None}]]
  /\ arrived \in 0..MaxArrivals /\ faults \in 0..MaxFaults /\ Cardinality(cut) <= faults
  /\ mixed \subseteq Targets \union Appeals

Init ==
  /\ status = [t \in Targets |-> IF t \in Posts THEN Absent ELSE "PUBLISHED"]
  /\ req = [r \in Requests |-> Idle]
  /\ report = [n \in Reports |-> None] /\ decisions = <<>>
  /\ appeal = [a \in Appeals |-> NoAppeal]
  /\ audit = [decisions |-> {}, opened |-> {}, answer |-> [a \in Appeals |-> None]]
  /\ arrived = 0 /\ faults = 0 /\ mixed = {} /\ cut = {}

Begin(r, fields) == req[r] = Idle /\ req' = [req EXCEPT ![r] = fields]
Working(op, x) == {r \in Requests : req[r].op = op /\ req[r].on = x}
Arrive         == arrived < MaxArrivals /\ arrived' = arrived + 1
Mixing(op, x)  == mixed' = IF Working(op, x) = {} THEN mixed ELSE mixed \union {x}

-----------------------------------------------------------------------------
(* The statements of each handler, in their order                            *)

RecordFirst == <<"record", "apply", "settle", "audit">>
ForgetReport == <<"apply", "record", "audit">>
DecideSteps == <<"apply", "record", "settle", "audit">>

AuditFirst == <<"audit", "answer">>
AnswerSteps == <<"answer", "audit">>

AppealSteps == <<"open", "audit">>

StepsOf(op) == CASE op = "decide" -> DecideSteps
                 [] op = "answer" -> AnswerSteps
                 [] op = "appeal" -> AppealSteps
                 [] OTHER         -> <<>>

At(r, op, step) == req[r].op = op /\ req[r].at = step

\* The request goes on to the statement after this one, or ends.
GoOn(r, fields) ==
  LET steps == StepsOf(fields.op)
      next  == {k \in 2..Len(steps) : steps[k - 1] = fields.at}
  IN req' = [req EXCEPT ![r] = IF next = {} THEN Idle
                               ELSE [fields EXCEPT !.at = steps[CHOOSE k \in next : TRUE]]]

-----------------------------------------------------------------------------
(* ModerationService, and the posts it decides about                         *)

FirstStatus(p) == IF p \in Stories THEN "PENDING" ELSE "PUBLISHED"

\* create of PostsService.
CreatePost(p) ==
  /\ status[p] = Absent
  /\ status' = [status EXCEPT ![p] = FirstStatus(p)]
  /\ UNCHANGED <<req, moderation, arrived, faults, mixed, cut>>

Report(n) ==
  /\ report[n] = None
  /\ report' = [report EXCEPT ![n] = "OPEN"]
  /\ UNCHANGED <<status, req, decisions, appeal, audit, arrived, faults, mixed, cut>>

\* A moderator may decide whatever the status is, without a report or with any.
Decide(r, m, t, action, n) ==
  /\ status[t] # Absent /\ (n # None => report[n] # None)
  /\ Arrive
  /\ Begin(r, [Idle EXCEPT !.op = "decide", !.at = Head(DecideSteps), !.who = m, !.on = t,
                           !.action = action, !.report = n])
  /\ Mixing("decide", t)
  /\ UNCHANGED <<status, moderation, faults, cut>>

Effect(action) == CASE action = "APPROVE" -> "PUBLISHED"
                    [] action = "HIDE"    -> "HIDDEN"
                    [] OTHER              -> "REJECTED"

\* applyToTarget: a dismissal changes nothing, and only posts of these targets change.
ApplyToTarget(r) ==
  LET q == req[r] IN
  /\ At(r, "decide", "apply")
  /\ status' = IF q.on \in Posts /\ q.action # "DISMISS_REPORT"
               THEN [status EXCEPT ![q.on] = Effect(q.action)] ELSE status
  /\ GoOn(r, q)
  /\ UNCHANGED <<moderation, arrived, faults, mixed, cut>>

RecordDecision(r) ==
  LET q == req[r] IN
  /\ At(r, "decide", "record")
  /\ decisions' = Append(decisions, [on |-> q.on, action |-> q.action, by |-> q.who,
                                     report |-> q.report])
  /\ GoOn(r, [q EXCEPT !.decision = Len(decisions) + 1])
  /\ UNCHANGED <<status, report, appeal, audit, arrived, faults, mixed, cut>>

SettleReport(r) ==
  LET q == req[r] IN
  /\ At(r, "decide", "settle")
  /\ report' = IF q.report = None THEN report ELSE [report EXCEPT ![q.report] = "RESOLVED"]
  /\ GoOn(r, q)
  /\ UNCHANGED <<status, decisions, appeal, audit, arrived, faults, mixed, cut>>

\* queue: the work that waits for a moderator. Of these targets only the posts
\* have a queue; it holds stories that were not decided about.
Queue(kind) ==
  CASE kind = "REPORTS" -> {n \in Reports : report[n] = "OPEN"}
    [] kind = "STORIES" -> {p \in Stories : status[p] = "PENDING"}

-----------------------------------------------------------------------------
(* AppealsService                                                            *)

\* Any member may appeal against a decision that exists, as often as they like.
OpenAppeal(r, a, k) ==
  /\ appeal[a] = NoAppeal /\ k \in DOMAIN decisions
  /\ appeal' = [appeal EXCEPT ![a] = [of |-> k, status |-> "OPEN"]]
  /\ req[r] = Idle /\ Arrive
  /\ GoOn(r, [Idle EXCEPT !.op = "appeal", !.at = "open", !.on = a])
  /\ UNCHANGED <<status, report, decisions, audit, faults, mixed, cut>>

\* resolve: not by the moderator of the decision; an answered appeal may be answered again.
Review(r, m, a, answer) ==
  /\ appeal[a] # NoAppeal /\ decisions[appeal[a].of].by # m
  /\ Arrive
  /\ Begin(r, [Idle EXCEPT !.op = "answer", !.at = Head(AnswerSteps), !.who = m, !.on = a,
                           !.action = answer])
  /\ Mixing("answer", a)
  /\ UNCHANGED <<status, moderation, faults, cut>>

Answer(r) ==
  LET q == req[r] IN
  /\ At(r, "answer", "answer")
  /\ appeal' = [appeal EXCEPT ![q.on].status = q.action]
  /\ GoOn(r, q)
  /\ UNCHANGED <<status, report, decisions, audit, arrived, faults, mixed, cut>>

\* audit.record, the last statement of all three.
Audit(r) ==
  LET q == req[r] IN
  /\ q.at = "audit"
  /\ audit' = CASE q.op = "decide" -> [audit EXCEPT !.decisions = @ \union {q.decision}]
                [] q.op = "appeal" -> [audit EXCEPT !.opened = @ \union {q.on}]
                [] q.op = "answer" -> [audit EXCEPT !.answer[q.on] = q.action]
  /\ GoOn(r, q)
  /\ UNCHANGED <<status, report, decisions, appeal, arrived, faults, mixed, cut>>

\* A statement fails, or the process stops: the statements before it stay done.
Fail(r) ==
  /\ req[r].op \in {"decide", "appeal", "answer"}
  /\ faults < MaxFaults /\ faults' = faults + 1
  /\ cut' = cut \union {req[r]} /\ req' = [req EXCEPT ![r] = Idle]
  /\ UNCHANGED <<status, moderation, arrived, mixed>>

Next ==
  \/ \E p \in Posts : CreatePost(p)
  \/ \E n \in Reports : Report(n)
  \/ \E r \in Requests :
       \/ ApplyToTarget(r) \/ RecordDecision(r) \/ SettleReport(r)
       \/ Answer(r) \/ Audit(r) \/ Fail(r)
       \/ \E a \in Appeals, k \in 1..MaxArrivals : OpenAppeal(r, a, k)
       \/ \E m \in Moderators, a \in Appeals, answer \in Answers : Review(r, m, a, answer)
       \/ \E m \in Moderators, t \in Targets, action \in Actions, n \in Reports \union {None} :
            Decide(r, m, t, action, n)

Spec == Init /\ [][Next]_vars

-----------------------------------------------------------------------------
(* Properties                                                                *)

\* The requests under way, and the ones that were cut short.
Unfinished(op) == {q \in {req[r] : r \in Requests} \union cut : q.op = op}

Decisive(t) == {k \in DOMAIN decisions : decisions[k].on = t /\ decisions[k].action # "DISMISS_REPORT"}
Latest(K)   == CHOOSE k \in K : \A j \in K : j <= k

\* A post shows what the last decision about it says, or what it was created
\* with: no decision is on record whose effect is missing, even when a request
\* is cut short after the record. Only a request cut short before the record,
\* or two that overlap, leave the post otherwise.
LastDecisionStands ==
  \A p \in Posts : status[p] # Absent /\ p \notin mixed
                   /\ (\A q \in Unfinished("decide") : ~ (q.on = p /\ q.at = "record")) =>
    status[p] = IF Decisive(p) = {} THEN FirstStatus(p)
                ELSE Effect(decisions[Latest(Decisive(p))].action)

\* A decision on record takes the report it answers from the queue and is in
\* the audit log,
\* and a report is only closed by a decision that names it; unless the request
\* is still at work or was cut short in between.
DecisionLeavesItsTrace ==
  /\ \A k \in DOMAIN decisions : (\A q \in Unfinished("decide") : q.decision # k) =>
       /\ k \in audit.decisions
       /\ decisions[k].report \notin Queue("REPORTS")
  /\ \A n \in Reports : report[n] = "RESOLVED" =>
       \E k \in DOMAIN decisions : decisions[k].report = n

\* What the log says of an appeal is how the appeal stands: it was opened, and
\* the answer last logged is the one its author reads, although an appeal may
\* be answered more than once.
AnswerIsOnRecord ==
  \A a \in Appeals : appeal[a] # NoAppeal /\ a \notin mixed
                     /\ (\A q \in Unfinished("answer") \union Unfinished("appeal") :
                           ~ (q.on = a /\ q.at = "audit")) =>
    /\ a \in audit.opened
    /\ appeal[a].status = IF audit.answer[a] = None THEN "OPEN" ELSE audit.answer[a]

\* Reports, the log and appeals agree with what was decided and answered.
RecordMatchesDeeds == DecisionLeavesItsTrace /\ AnswerIsOnRecord

\* "Anything a moderator may act on has to be findable in the interface": a post
\* that was hidden is in no listing, neither the queue nor the circle's own.
ActionableIsFindable ==
  \A p \in Posts : status[p] \in {Absent, "PUBLISHED"} \/ p \in Queue("STORIES")

\* What the comment on decide says of every kind of target: a decision that
\* takes something down takes it down.
DecisionsTakeEffect ==
  \A t \in Targets : Working("decide", t) = {} /\ cut = {} /\ t \notin mixed /\ Decisive(t) # {} =>
    status[t] = Effect(decisions[Latest(Decisive(t))].action)
=============================================================================
