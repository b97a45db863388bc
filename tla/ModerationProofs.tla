--------------------------- MODULE ModerationProofs ---------------------------
(***************************************************************************)
(* Theorems about Moderation, for any posts, other targets, reports,       *)
(* appeals, moderators and requests in flight, and any number of them cut  *)
(* short.                                                                  *)
(***************************************************************************)
EXTENDS Moderation, FiniteSetTheorems, TLAPS

-----------------------------------------------------------------------------
(* The inductive invariant.                                                  *)

\* The requests under way, whatever they do, and the ones that were cut short.
Decides == [op : {"decide"}, at : {"apply", "record", "settle", "audit"}, who : Moderators,
            on : Targets, action : Actions, report : Reports \union {None},
            decision : 0..MaxArrivals]
Opens   == [op : {"appeal"}, at : {"audit"}, who : {None}, on : Appeals, action : {None},
            report : {None}, decision : {0}]
Replies == [op : {"answer"}, at : {"answer", "audit"}, who : Moderators, on : Appeals,
            action : Answers, report : {None}, decision : {0}]
Active  == Decides \union Opens \union Replies
Live    == {req[r] : r \in Requests} \union cut

\* The requests that have a decision still to record.
Deciding == {r \in Requests : req[r].op = "decide" /\ req[r].at \in {"apply", "record"}}

RequestsAreCounted ==
  /\ req \in [Requests -> Active \union {Idle}]
  /\ cut \subseteq Active /\ IsFiniteSet(cut)
  /\ IsFiniteSet(Deciding) /\ Len(decisions) + Cardinality(Deciding) <= arrived

\* Two requests that decide about one thing, or answer one appeal, are noticed.
OneAtATime ==
  \A r, s \in Requests :
    r # s /\ req[r].op \in {"decide", "answer"} /\ req[s].op = req[r].op
          /\ req[s].on = req[r].on => req[r].on \in mixed

\* What is decided about, reported or appealed against was there before.
ComesAfter ==
  /\ \A q \in Live : q.op = "decide" =>
       status[q.on] # Absent /\ (q.report # None => report[q.report] # None)
  /\ \A q \in Live : q.op = "answer" => appeal[q.on] # NoAppeal
  /\ \A k \in DOMAIN decisions :
       /\ status[decisions[k].on] # Absent
       /\ decisions[k].report # None => report[decisions[k].report] # None
  /\ \A a \in Appeals : IF appeal[a] = NoAppeal THEN audit.answer[a] = None
                        ELSE appeal[a].of \in DOMAIN decisions /\ appeal[a].status # None

\* A request that has recorded its decision knows it, and its report is settled
\* before its line of the log.
DecisionsAreKnown ==
  \A q \in Live : q.op = "decide" =>
    IF q.at \in {"apply", "record"} THEN q.decision = 0
    ELSE /\ q.decision \in DOMAIN decisions /\ decisions[q.decision].report = q.report
         /\ q.at = "audit" /\ q.report # None => report[q.report] = "RESOLVED"

\* s is what the last decision about p says, or what p was created with.
Stands(p, s) ==
  \/ Decisive(p) = {} /\ s = FirstStatus(p)
  \/ \E k \in Decisive(p) : (\A j \in Decisive(p) : j <= k) /\ s = Effect(decisions[k].action)

\* A request that has changed p and not recorded why.
Unrecorded(q, p) == q.op = "decide" /\ q.on = p /\ q.at = "record"
Applied(p) == {r \in Requests : Unrecorded(req[r], p) /\ req[r].action # "DISMISS_REPORT"}

PostsStand ==
  \A p \in Posts \ mixed :
    status[p] # Absent /\ (\A q \in cut : ~Unrecorded(q, p)) =>
      IF Applied(p) = {} THEN Stands(p, status[p])
      ELSE \A r \in Applied(p) : status[p] = Effect(req[r].action)

\* A decision leaves its trace, or a request is still to leave it.
TracesAreLeft ==
  /\ \A k \in DOMAIN decisions :
       \/ \E q \in Live : q.op = "decide" /\ q.decision = k
       \/ k \in audit.decisions /\ decisions[k].report \notin Queue("REPORTS")
  /\ \A n \in Reports : report[n] = "RESOLVED" =>
       \E k \in DOMAIN decisions : decisions[k].report = n

\* A request that has answered a and not logged it.
Unlogged(q, a) == q.op = "answer" /\ q.on = a /\ q.at = "audit"
Answered(a) == {r \in Requests : Unlogged(req[r], a)}

AppealsStand ==
  \A a \in Appeals : appeal[a] # NoAppeal =>
    /\ a \in audit.opened \/ \E q \in Live : q.op = "appeal" /\ q.on = a
    /\ a \notin mixed /\ (\A q \in cut : ~Unlogged(q, a)) =>
         IF Answered(a) = {}
         THEN appeal[a].status = IF audit.answer[a] = None THEN "OPEN" ELSE audit.answer[a]
         ELSE \A r \in Answered(a) : appeal[a].status = req[r].action

IInv == /\ TypeOK
        /\ RequestsAreCounted
        /\ OneAtATime
        /\ ComesAfter
        /\ DecisionsAreKnown
        /\ PostsStand
        /\ TracesAreLeft
        /\ AppealsStand

-----------------------------------------------------------------------------
(* What the operators of the model give.                                     *)

(* The fields of a request.                                                  *)
LEMMA Shapes ==
  /\ Idle.op = "idle" /\ Idle.at = "idle" /\ Idle \notin Active
  /\ \A q \in Active :
       /\ q.op \in {"decide", "appeal", "answer"}
       /\ q.op = "decide" => q \in Decides
       /\ q.op = "appeal" => q \in Opens
       /\ q.op = "answer" => q \in Replies
  /\ \A q \in Decides :
       /\ q.op = "decide" /\ q.at \in {"apply", "record", "settle", "audit"}
       /\ q.who \in Moderators /\ q.on \in Targets /\ q.action \in Actions
       /\ q.report \in Reports \union {None} /\ q.decision \in 0..MaxArrivals
  /\ \A q \in Opens : q.op = "appeal" /\ q.at = "audit" /\ q.on \in Appeals
  /\ \A q \in Replies : /\ q.op = "answer" /\ q.at \in {"answer", "audit"} /\ q.on \in Appeals
                        /\ q.action \in Answers
<1>1. Idle.op = "idle" /\ Idle.at = "idle"
  BY DEF Idle
<1>2. \A q \in Decides :
       /\ q.op = "decide" /\ q.at \in {"apply", "record", "settle", "audit"}
       /\ q.who \in Moderators /\ q.on \in Targets /\ q.action \in Actions
       /\ q.report \in Reports \union {None} /\ q.decision \in 0..MaxArrivals
  BY DEF Decides
<1>3. \A q \in Opens : q.op = "appeal" /\ q.at = "audit" /\ q.on \in Appeals
  BY DEF Opens
<1>4. \A q \in Replies : /\ q.op = "answer" /\ q.at \in {"answer", "audit"} /\ q.on \in Appeals
                         /\ q.action \in Answers
  BY DEF Replies
<1> QED
  BY <1>1, <1>2, <1>3, <1>4 DEF Active

(* The rows of moderation_decisions.                                         *)
LEMMA Rows ==
  ASSUME TypeOK
  PROVE  /\ Len(decisions) \in 0..MaxArrivals /\ DOMAIN decisions = 1..Len(decisions)
         /\ \A k \in DOMAIN decisions :
              /\ decisions[k].on \in Targets /\ decisions[k].action \in Actions
              /\ decisions[k].by \in Moderators /\ decisions[k].report \in Reports \union {None}
<1> DEFINE Row == [on : Targets, action : Actions, by : Moderators, report : Reports \union {None}]
<1>1. decisions \in Seq(Row) /\ Len(decisions) <= MaxArrivals
  BY DEF TypeOK
<1>2. \A y \in Row : /\ y.on \in Targets /\ y.action \in Actions /\ y.by \in Moderators
                     /\ y.report \in Reports \union {None}
  OBVIOUS
<1> HIDE DEF Row
<1>3. DOMAIN decisions = 1..Len(decisions) /\ Len(decisions) \in Nat
      /\ \A k \in DOMAIN decisions : decisions[k] \in Row
  BY <1>1
<1> QED
  BY <1>1, <1>2, <1>3, ModerationAssumption

(* A request goes on to the statement after the one it has done.             *)
LEMMA GoesOn ==
  ASSUME NEW r \in Requests, NEW q, GoOn(r, q)
  PROVE  /\ q.op = "decide" /\ q.at = "apply" => req' = [req EXCEPT ![r] = [q EXCEPT !.at = "record"]]
         /\ q.op = "decide" /\ q.at = "record" => req' = [req EXCEPT ![r] = [q EXCEPT !.at = "settle"]]
         /\ q.op = "decide" /\ q.at = "settle" => req' = [req EXCEPT ![r] = [q EXCEPT !.at = "audit"]]
         /\ q.op = "appeal" /\ q.at = "open" => req' = [req EXCEPT ![r] = [q EXCEPT !.at = "audit"]]
         /\ q.op = "answer" /\ q.at = "answer" => req' = [req EXCEPT ![r] = [q EXCEPT !.at = "audit"]]
         /\ q.op \in {"decide", "appeal", "answer"} /\ q.at = "audit" => req' = [req EXCEPT ![r] = Idle]
<1> DEFINE steps == StepsOf(q.op)
           next  == {k \in 2..Len(steps) : steps[k - 1] = q.at}
<1>1. req' = [req EXCEPT ![r] = IF next = {} THEN Idle
                                ELSE [q EXCEPT !.at = steps[CHOOSE k \in next : TRUE]]]
  BY DEF GoOn
<1>2. \A k : next = {k} => req' = [req EXCEPT ![r] = [q EXCEPT !.at = steps[k]]]
  BY <1>1
<1>3. next = {} => req' = [req EXCEPT ![r] = Idle]
  BY <1>1
<1>4. CASE q.op = "decide"
  <2>1. steps = <<"apply", "record", "settle", "audit">>
    BY <1>4 DEF StepsOf, DecideSteps
  <2>2. /\ Len(steps) = 4 /\ steps[1] = "apply" /\ steps[2] = "record"
        /\ steps[3] = "settle" /\ steps[4] = "audit"
    BY <2>1
  <2> HIDE DEF steps
  <2>3. \A k : k \in next <=> k \in {2, 3, 4} /\ steps[k - 1] = q.at
    BY <2>2
  <2>4. /\ q.at = "apply" => next = {2}
        /\ q.at = "record" => next = {3}
        /\ q.at = "settle" => next = {4}
        /\ q.at = "audit" => next = {}
    BY <2>2, <2>3
  <2> HIDE DEF next
  <2> QED
    BY <1>2, <1>3, <1>4, <2>2, <2>4
<1>5. CASE q.op = "appeal"
  <2>1. steps = <<"open", "audit">>
    BY <1>5 DEF StepsOf, AppealSteps
  <2>2. Len(steps) = 2 /\ steps[1] = "open" /\ steps[2] = "audit"
    BY <2>1
  <2> HIDE DEF steps
  <2>3. \A k : k \in next <=> k = 2 /\ steps[k - 1] = q.at
    BY <2>2
  <2>4. /\ q.at = "open" => next = {2}
        /\ q.at = "audit" => next = {}
    BY <2>2, <2>3
  <2> HIDE DEF next
  <2> QED
    BY <1>2, <1>3, <1>5, <2>2, <2>4
<1>6. CASE q.op = "answer"
  <2>1. steps = <<"answer", "audit">>
    BY <1>6 DEF StepsOf, AnswerSteps
  <2>2. Len(steps) = 2 /\ steps[1] = "answer" /\ steps[2] = "audit"
    BY <2>1
  <2> HIDE DEF steps
  <2>3. \A k : k \in next <=> k = 2 /\ steps[k - 1] = q.at
    BY <2>2
  <2>4. /\ q.at = "answer" => next = {2}
        /\ q.at = "audit" => next = {}
    BY <2>2, <2>3
  <2> HIDE DEF next
  <2> QED
    BY <1>2, <1>3, <1>6, <2>2, <2>4
<1> QED
  BY <1>4, <1>5, <1>6

(* What a step leaves of the requests when it gives one of them a new state. *)
LEMMA Moves ==
  ASSUME RequestsAreCounted, NEW r \in Requests, NEW x \in Active \union {Idle},
         req' = [req EXCEPT ![r] = x]
  PROVE  /\ req' \in [Requests -> Active \union {Idle}] /\ req'[r] = x
         /\ \A s \in Requests : s # r => req'[s] = req[s]
         /\ Deciding' = IF x.op = "decide" /\ x.at \in {"apply", "record"}
                        THEN Deciding \union {r} ELSE Deciding \ {r}
         /\ cut' = cut => /\ \A q \in Live' : q = x \/ q \in Live
                          /\ \A q \in Live : q = req[r] \/ q \in Live'
                          /\ x \in Live'
         /\ \A p : ~Unrecorded(req[r], p) /\ ~Unrecorded(x, p) => Applied(p)' = Applied(p)
         /\ \A a : ~Unlogged(req[r], a) /\ ~Unlogged(x, a) => Answered(a)' = Answered(a)
<1>1. /\ req' \in [Requests -> Active \union {Idle}] /\ req'[r] = x
      /\ \A s \in Requests : s # r => req'[s] = req[s]
  BY DEF RequestsAreCounted
<1>2. Deciding' = IF x.op = "decide" /\ x.at \in {"apply", "record"}
                  THEN Deciding \union {r} ELSE Deciding \ {r}
  BY <1>1 DEF Deciding
<1>3. ASSUME cut' = cut
      PROVE  /\ \A q \in Live' : q = x \/ q \in Live
             /\ \A q \in Live : q = req[r] \/ q \in Live'
             /\ x \in Live'
  BY <1>1, <1>3 DEF Live
<1>4. ASSUME NEW p, ~Unrecorded(req[r], p), ~Unrecorded(x, p)
      PROVE  Applied(p)' = Applied(p)
  BY <1>1, <1>4 DEF Applied
<1>5. ASSUME NEW a, ~Unlogged(req[r], a), ~Unlogged(x, a)
      PROVE  Answered(a)' = Answered(a)
  BY <1>1, <1>5 DEF Answered
<1> QED
  BY <1>1, <1>2, <1>3, <1>4, <1>5

(* Before the first step.                                                    *)
LEMMA InitIInv == Init => IInv
<1> SUFFICES ASSUME Init PROVE IInv
  OBVIOUS
<1>1. /\ \A r \in Requests : req[r] = Idle
      /\ cut = {} /\ decisions = <<>> /\ DOMAIN decisions = {}
      /\ \A a \in Appeals : appeal[a] = NoAppeal /\ audit.answer[a] = None
      /\ \A n \in Reports : report[n] = None
      /\ \A p \in Posts : status[p] = Absent
  BY DEF Init, Targets
<1>2. Live \subseteq {Idle} /\ Deciding = {}
  BY <1>1, Shapes DEF Live, Deciding
<1>3. TypeOK
  <2>1. NoAppeal \in [of : 0..MaxArrivals, status : {None, "OPEN"} \union Answers]
    BY ModerationAssumption DEF NoAppeal
  <2>2. /\ audit \in [decisions : SUBSET (1..MaxArrivals), opened : SUBSET Appeals,
                      answer : [Appeals -> Answers \union {None}]]
    BY DEF Init
  <2>3. status \in [Targets -> Status \union {Absent}]
    BY DEF Init, Status
  <2>4. decisions \in Seq([on : Targets, action : Actions, by : Moderators,
                           report : Reports \union {None}]) /\ Len(decisions) = 0
    BY <1>1
  <2>5. Cardinality(cut) = 0
    BY <1>1, FS_EmptySet
  <2> QED
    BY <2>1, <2>2, <2>3, <2>4, <2>5, ModerationAssumption DEF Init, TypeOK
<1>4. RequestsAreCounted
  BY <1>1, <1>2, FS_EmptySet DEF Init, RequestsAreCounted
<1>5. OneAtATime
  BY <1>1, Shapes DEF OneAtATime
<1>6. ComesAfter /\ DecisionsAreKnown
  BY <1>1, <1>2, Shapes DEF ComesAfter, DecisionsAreKnown
<1>7. PostsStand /\ AppealsStand
  BY <1>1 DEF PostsStand, AppealsStand
<1>8. TracesAreLeft
  BY <1>1 DEF TracesAreLeft, None
<1> QED
  BY <1>3, <1>4, <1>5, <1>6, <1>7, <1>8 DEF IInv

-----------------------------------------------------------------------------
(* Steps of members.                                                         *)

(* A post is created: nothing was decided about it.                          *)
LEMMA CreatePostStep ==
  ASSUME IInv, NEW p \in Posts, CreatePost(p)
  PROVE  IInv'
<1>1. /\ p \in Targets /\ status[p] = Absent /\ status \in [Targets -> Status \union {Absent}]
      /\ status' = [status EXCEPT ![p] = FirstStatus(p)]
      /\ UNCHANGED <<req, report, decisions, appeal, audit, arrived, faults, mixed, cut>>
  BY DEF CreatePost, moderation, Targets, IInv, TypeOK
<1>2. FirstStatus(p) \in Status /\ FirstStatus(p) # Absent
  BY DEF FirstStatus, Status, Absent
<1>3. /\ status' \in [Targets -> Status \union {Absent}] /\ status'[p] = FirstStatus(p)
      /\ \A t \in Targets : t # p => status'[t] = status[t]
  BY <1>1, <1>2
<1>4. Live' = Live /\ Deciding' = Deciding
  BY <1>1 DEF Live, Deciding
<1>5. TypeOK'
  BY <1>1, <1>3 DEF IInv, TypeOK
<1>6. (RequestsAreCounted /\ OneAtATime /\ DecisionsAreKnown)'
  BY <1>1, <1>4 DEF IInv, RequestsAreCounted, OneAtATime, DecisionsAreKnown
<1>7. /\ \A q \in Live : q.op = "decide" => q.on # p
      /\ \A k \in DOMAIN decisions : decisions[k].on # p
  BY <1>1 DEF IInv, ComesAfter
<1>8. ComesAfter'
  <2>1. \A q \in Live : q.op = "decide" => status'[q.on] # Absent
    <3> SUFFICES ASSUME NEW q \in Live, q.op = "decide" PROVE status'[q.on] # Absent
      OBVIOUS
    <3>1. q.on \in Targets
      BY Shapes DEF Live, IInv, RequestsAreCounted
    <3> QED
      BY <1>3, <1>7, <3>1 DEF IInv, ComesAfter
  <2>2. \A k \in DOMAIN decisions : status'[decisions[k].on] # Absent
    <3> SUFFICES ASSUME NEW k \in DOMAIN decisions PROVE status'[decisions[k].on] # Absent
      OBVIOUS
    <3>1. decisions[k].on \in Targets
      BY Rows DEF IInv
    <3> QED
      BY <1>3, <1>7, <3>1 DEF IInv, ComesAfter
  <2> QED
    BY <1>1, <1>4, <2>1, <2>2 DEF IInv, ComesAfter
<1>9. PostsStand'
  <2>1. \A q \in Posts : Applied(q)' = Applied(q) /\ Decisive(q)' = Decisive(q)
    BY <1>1 DEF Applied, Decisive
  <2>2. Applied(p) = {} /\ Decisive(p) = {}
    BY <1>7 DEF Applied, Decisive, Unrecorded, Live
  <2>3. Stands(p, FirstStatus(p))'
    BY <2>1, <2>2 DEF Stands, FirstStatus
  <2>4. \A q \in Posts : q # p => status'[q] = status[q]
    BY <1>3 DEF Targets
  <2>5. ASSUME NEW q \in Posts, Stands(q, status[q]), q # p
        PROVE  Stands(q, status[q])'
    <3>1. decisions' = decisions /\ status'[q] = status[q] /\ Decisive(q)' = Decisive(q)
      BY <1>1, <2>1, <2>4, <2>5
    <3> QED
      BY <2>5, <3>1 DEF Stands, FirstStatus
  <2>6. ASSUME NEW q \in Posts, q \notin mixed, status'[q] # Absent,
               \A z \in cut : ~Unrecorded(z, q), q # p
        PROVE  IF Applied(q)' = {} THEN Stands(q, status[q])'
               ELSE \A r \in Applied(q)' : status'[q] = Effect(req'[r].action)
    BY <1>1, <2>1, <2>4, <2>5, <2>6 DEF IInv, PostsStand
  <2>7. Applied(p)' = {} /\ Stands(p, status[p])'
    BY <1>3, <2>1, <2>2, <2>3 DEF Stands, FirstStatus
  <2> QED
    BY <1>1, <2>6, <2>7 DEF PostsStand, Unrecorded
<1>10. (TracesAreLeft /\ AppealsStand)'
  BY <1>1, <1>4 DEF IInv, TracesAreLeft, AppealsStand, Queue, Answered, Unlogged
<1> QED
  BY <1>5, <1>6, <1>8, <1>9, <1>10 DEF IInv

(* Something is reported.                                                    *)
LEMMA ReportStep ==
  ASSUME IInv, NEW n \in Reports, Report(n)
  PROVE  IInv'
<1>1. /\ report \in [Reports -> {None, "OPEN", "RESOLVED"}] /\ report[n] = None
      /\ report' = [report EXCEPT ![n] = "OPEN"]
      /\ UNCHANGED <<status, req, decisions, appeal, audit, arrived, faults, mixed, cut>>
  BY DEF Report, IInv, TypeOK
<1>2. /\ report' \in [Reports -> {None, "OPEN", "RESOLVED"}] /\ report'[n] = "OPEN"
      /\ \A m \in Reports : m # n => report'[m] = report[m]
  BY <1>1
<1>3. Live' = Live /\ Deciding' = Deciding
  BY <1>1 DEF Live, Deciding
<1>4. TypeOK'
  BY <1>1, <1>2 DEF IInv, TypeOK
<1>5. (RequestsAreCounted /\ OneAtATime)'
  BY <1>1, <1>3 DEF IInv, RequestsAreCounted, OneAtATime
<1>6. \A q \in Live : q.op = "decide" => q.report \in Reports \union {None}
  BY Shapes DEF Live, IInv, RequestsAreCounted
<1>7. \A k \in DOMAIN decisions : decisions[k].report \in Reports \union {None}
  BY Rows DEF IInv
<1>8. "RESOLVED" # None /\ "OPEN" # None
  BY DEF None
<1>9. ComesAfter'
  BY <1>1, <1>2, <1>3, <1>6, <1>7, <1>8 DEF IInv, ComesAfter
<1>10. DecisionsAreKnown'
  BY <1>1, <1>2, <1>3, <1>6, <1>8 DEF IInv, DecisionsAreKnown
<1>11. PostsStand'
  BY <1>1 DEF IInv, PostsStand, Applied, Unrecorded, Stands, Decisive
<1>12. TracesAreLeft'
  <2>1. \A k \in DOMAIN decisions : decisions[k].report # n
    BY <1>1, ModerationAssumption DEF IInv, ComesAfter
  <2>2. \A k \in DOMAIN decisions : decisions[k].report \notin Queue("REPORTS")
                                    => decisions[k].report \notin Queue("REPORTS")'
    BY <1>2, <2>1 DEF Queue
  <2>3. \A m \in Reports : report'[m] = "RESOLVED" => report[m] = "RESOLVED"
    BY <1>1, <1>2
  <2> QED
    BY <1>1, <1>3, <2>2, <2>3 DEF IInv, TracesAreLeft
<1>13. AppealsStand'
  BY <1>1, <1>3 DEF IInv, AppealsStand, Answered, Unlogged
<1> QED
  BY <1>4, <1>5, <1>9, <1>10, <1>11, <1>12, <1>13 DEF IInv

-----------------------------------------------------------------------------
(* Steps of a decision.                                                      *)

(* A moderator decides.                                                      *)
LEMMA DecideStep ==
  ASSUME IInv, NEW r \in Requests, NEW m \in Moderators, NEW t \in Targets,
         NEW action \in Actions, NEW n \in Reports \union {None}, Decide(r, m, t, action, n)
  PROVE  IInv'
<1> DEFINE x == [Idle EXCEPT !.op = "decide", !.at = "apply", !.who = m, !.on = t,
                             !.action = action, !.report = n]
<1>1. x \in Decides /\ x.op = "decide" /\ x.at = "apply" /\ x.on = t /\ x.report = n /\ x.decision = 0
  <2>1. 0 \in 0..MaxArrivals
    BY ModerationAssumption
  <2> QED
    BY <2>1 DEF Idle, Decides
<1>2. /\ status[t] # Absent /\ (n # None => report[n] # None)
      /\ req[r] = Idle /\ req' = [req EXCEPT ![r] = x]
      /\ arrived < MaxArrivals /\ arrived' = arrived + 1
      /\ mixed' = IF Working("decide", t) = {} THEN mixed ELSE mixed \union {t}
      /\ UNCHANGED <<status, report, decisions, appeal, audit, faults, cut>>
  <2>1. Head(DecideSteps) = "apply"
    BY DEF DecideSteps
  <2> QED
    BY <2>1 DEF Decide, Begin, Arrive, Mixing, moderation
<1> HIDE DEF x
<1>3. /\ req' \in [Requests -> Active \union {Idle}] /\ req'[r] = x
      /\ \A s \in Requests : s # r => req'[s] = req[s]
      /\ Deciding' = Deciding \union {r}
      /\ \A q \in Live' : q = x \/ q \in Live
      /\ \A q \in Live : q = Idle \/ q \in Live'
      /\ \A p : Applied(p)' = Applied(p)
      /\ \A a : Answered(a)' = Answered(a)
  <2>1. x \in Active /\ RequestsAreCounted
    BY <1>1 DEF Active, IInv
  <2>2. /\ \A p : ~Unrecorded(req[r], p) /\ ~Unrecorded(x, p)
        /\ \A a : ~Unlogged(req[r], a) /\ ~Unlogged(x, a)
    BY <1>1, <1>2, Shapes DEF Unrecorded, Unlogged
  <2>3. Deciding' = Deciding \union {r}
    BY <1>1, <1>2, <2>1, Moves
  <2> QED
    BY <1>2, <2>1, <2>2, <2>3, Moves
<1>4. r \notin Deciding /\ Idle.op = "idle"
  BY <1>2, Shapes DEF Deciding
<1>5. TypeOK'
  BY <1>2, <1>3, ModerationAssumption DEF IInv, TypeOK
<1>6. RequestsAreCounted'
  <2>1. IsFiniteSet(Deciding') /\ Cardinality(Deciding') = Cardinality(Deciding) + 1
    BY <1>3, <1>4, FS_AddElement DEF IInv, RequestsAreCounted
  <2>2. Cardinality(Deciding) \in Nat /\ arrived \in 0..MaxArrivals /\ Len(decisions) \in Nat
    BY FS_CardinalityType DEF IInv, RequestsAreCounted, TypeOK
  <2>3. Len(decisions) + Cardinality(Deciding') <= arrived'
    BY <1>2, <2>1, <2>2 DEF IInv, RequestsAreCounted
  <2> QED
    BY <1>2, <1>3, <2>1, <2>3 DEF IInv, RequestsAreCounted
<1>7. OneAtATime'
  <2>1. mixed \subseteq mixed'
    BY <1>2
  <2>2. \A s \in Requests : req[s].op = "decide" /\ req[s].on = t => t \in mixed'
    BY <1>2 DEF Working
  <2> QED
    BY <1>1, <1>3, <2>1, <2>2 DEF IInv, OneAtATime
<1>8. ComesAfter'
  BY <1>1, <1>2, <1>3 DEF IInv, ComesAfter
<1>9. DecisionsAreKnown'
  BY <1>1, <1>2, <1>3 DEF IInv, DecisionsAreKnown
<1>10. mixed \subseteq mixed'
  BY <1>2
<1>11. PostsStand'
  <2>1. \A p \in Posts : Applied(p)' = Applied(p) /\ Decisive(p)' = Decisive(p)
                         /\ \A z \in Applied(p) : req'[z] = req[z]
    BY <1>2, <1>3, <1>4 DEF Decisive, Applied, Unrecorded
  <2>2. \A p \in Posts : Stands(p, status[p]) => Stands(p, status[p])'
    BY <1>2, <2>1 DEF Stands
  <2> QED
    BY <1>2, <1>10, <2>1, <2>2 DEF IInv, PostsStand, Unrecorded
<1>12. TracesAreLeft'
  BY <1>2, <1>3, <1>4 DEF IInv, TracesAreLeft, Queue
<1>13. AppealsStand'
  <2>1. \A a \in Appeals : \A z \in Answered(a) : req'[z] = req[z]
    BY <1>3, <1>4, <1>2 DEF Answered, Unlogged
  <2> QED
    BY <1>2, <1>3, <1>4, <1>10, <2>1 DEF IInv, AppealsStand, Unlogged
<1> QED
  BY <1>5, <1>6, <1>7, <1>8, <1>9, <1>11, <1>12, <1>13 DEF IInv

(* The decision is applied to its target: nothing else is under way on it.   *)
LEMMA ApplyStep ==
  ASSUME IInv, NEW r \in Requests, ApplyToTarget(r)
  PROVE  IInv'
<1>1. PICK q \in Decides : q = req[r] /\ q.op = "decide" /\ q.at = "apply"
  BY Shapes DEF ApplyToTarget, At, IInv, RequestsAreCounted
<1> DEFINE x == [q EXCEPT !.at = "record"]
<1>2. /\ x \in Decides /\ x.op = "decide" /\ x.at = "record" /\ x.on = q.on /\ x.action = q.action
      /\ x.report = q.report /\ x.decision = q.decision
  BY DEF Decides
<1>3. req' = [req EXCEPT ![r] = x]
  BY <1>1, GoesOn DEF ApplyToTarget
<1> HIDE DEF x
<1>4. /\ UNCHANGED <<report, decisions, appeal, audit, arrived, faults, mixed, cut>>
      /\ status' = IF q.on \in Posts /\ q.action # "DISMISS_REPORT"
                   THEN [status EXCEPT ![q.on] = Effect(q.action)] ELSE status
  BY <1>1 DEF ApplyToTarget, moderation
<1>5. /\ req' \in [Requests -> Active \union {Idle}] /\ req'[r] = x
      /\ \A s \in Requests : s # r => req'[s] = req[s]
      /\ Deciding' = Deciding
      /\ \A z \in Live' : z = x \/ z \in Live
      /\ \A z \in Live : z = q \/ z \in Live'
      /\ x \in Live' /\ q \in Live
      /\ \A p : q.on # p => Applied(p)' = Applied(p)
      /\ \A a : Answered(a)' = Answered(a)
  <2>1. x \in Active /\ RequestsAreCounted
    BY <1>2 DEF Active, IInv
  <2>2. /\ \A p : q.on # p => ~Unrecorded(req[r], p) /\ ~Unrecorded(x, p)
        /\ \A a : ~Unlogged(req[r], a) /\ ~Unlogged(x, a)
    BY <1>1, <1>2 DEF Unrecorded, Unlogged
  <2>3. Deciding' = Deciding \union {r} /\ r \in Deciding
    BY <1>1, <1>2, <1>3, <2>1, Moves DEF Deciding
  <2>4. q \in Live /\ Deciding' = Deciding
    BY <1>1, <2>3 DEF Live
  <2>5. /\ req' \in [Requests -> Active \union {Idle}] /\ req'[r] = x
        /\ \A s \in Requests : s # r => req'[s] = req[s]
        /\ \A z \in Live' : z = x \/ z \in Live
        /\ \A z \in Live : z = q \/ z \in Live'
        /\ x \in Live'
    BY <1>1, <1>3, <1>4, <2>1, Moves
  <2>6. \A p : ~Unrecorded(req[r], p) /\ ~Unrecorded(x, p) => Applied(p)' = Applied(p)
    BY <1>3, <2>1, Moves
  <2>7. \A a : ~Unlogged(req[r], a) /\ ~Unlogged(x, a) => Answered(a)' = Answered(a)
    BY <1>3, <2>1, Moves
  <2> QED
    BY <2>2, <2>4, <2>5, <2>6, <2>7
<1>6. Effect(q.action) \in Status /\ Effect(q.action) # Absent /\ q.on \in Targets
  BY Shapes DEF Effect, Status, Absent
<1>7. /\ status \in [Targets -> Status \union {Absent}]
      /\ status' \in [Targets -> Status \union {Absent}]
      /\ \A t \in Targets : t # q.on => status'[t] = status[t]
      /\ \A t \in Targets : status[t] # Absent => status'[t] # Absent
      /\ q.on \in Posts /\ q.action # "DISMISS_REPORT" => status'[q.on] = Effect(q.action)
      /\ q.action = "DISMISS_REPORT" => status' = status
  BY <1>4, <1>6 DEF IInv, TypeOK
<1>8. TypeOK'
  BY <1>4, <1>7 DEF IInv, TypeOK
<1>9. RequestsAreCounted'
  BY <1>4, <1>5 DEF IInv, RequestsAreCounted
<1>10. OneAtATime'
  BY <1>1, <1>2, <1>4, <1>5 DEF IInv, OneAtATime
<1>11. ComesAfter'
  <2>1. \A z \in Live : z.op = "decide" => z.on \in Targets
    BY Shapes DEF Live, IInv, RequestsAreCounted
  <2>2. \A k \in DOMAIN decisions : decisions[k].on \in Targets
    BY Rows DEF IInv
  <2>3. /\ \A z \in Live : z.op = "decide" => status'[z.on] # Absent
        /\ \A k \in DOMAIN decisions : status'[decisions[k].on] # Absent
    BY <1>7, <2>1, <2>2 DEF IInv, ComesAfter
  <2> QED
    BY <1>1, <1>2, <1>4, <1>5, <2>3 DEF IInv, ComesAfter
<1>12. DecisionsAreKnown'
  BY <1>1, <1>2, <1>4, <1>5 DEF IInv, DecisionsAreKnown
<1>13. PostsStand'
  <2> SUFFICES ASSUME NEW p \in Posts \ mixed, status'[p] # Absent, \A z \in cut : ~Unrecorded(z, p)
               PROVE  IF Applied(p)' = {} THEN Stands(p, status[p])'
                      ELSE \A s \in Applied(p)' : status'[p] = Effect(req'[s].action)
    BY <1>4 DEF PostsStand, Unrecorded
  <2>1. p \in Targets /\ Decisive(p)' = Decisive(p) /\ FirstStatus(p)' = FirstStatus(p)
    BY <1>4 DEF Targets, Decisive, FirstStatus
  <2>2. CASE q.on # p
    <3>1. status'[p] = status[p] /\ Applied(p)' = Applied(p)
      BY <1>5, <1>7, <2>1, <2>2
    <3>2. \A s \in Applied(p) : req'[s] = req[s]
      BY <1>1, <1>5, <2>2 DEF Applied, Unrecorded
    <3>3. Stands(p, status[p]) => Stands(p, status[p])'
      BY <1>4, <2>1, <3>1 DEF Stands
    <3> QED
      BY <3>1, <3>2, <3>3 DEF IInv, PostsStand
  <2>3. CASE q.on = p
    <3>1. \A s \in Requests : s # r => ~Unrecorded(req[s], p)
      BY <1>1, <2>3 DEF IInv, OneAtATime, Unrecorded
    <3>2. Applied(p) = {}
      BY <1>1, <3>1 DEF Applied, Unrecorded
    <3>3. Applied(p)' \subseteq {r} /\ (q.action = "DISMISS_REPORT" => Applied(p)' = {})
          /\ (q.action # "DISMISS_REPORT" => Applied(p)' = {r})
      BY <1>2, <1>5, <2>3, <3>1 DEF Applied, Unrecorded
    <3>4. CASE q.action = "DISMISS_REPORT"
      <4>1. status' = status /\ Stands(p, status[p])
        BY <1>7, <3>2, <3>4 DEF IInv, PostsStand
      <4>2. Stands(p, status[p])'
        BY <1>4, <2>1, <4>1 DEF Stands
      <4> QED
        BY <3>3, <3>4, <4>2
    <3>5. CASE q.action # "DISMISS_REPORT"
      BY <1>2, <1>5, <1>7, <2>3, <3>3, <3>5
    <3> QED
      BY <3>4, <3>5
  <2> QED
    BY <2>2, <2>3
<1>14. TracesAreLeft'
  BY <1>1, <1>2, <1>4, <1>5 DEF IInv, TracesAreLeft, Queue
<1>15. AppealsStand'
  <2>1. \A a : \A z \in Answered(a) : req'[z] = req[z]
    BY <1>1, <1>5 DEF Answered, Unlogged
  <2> QED
    BY <1>1, <1>4, <1>5, <2>1 DEF IInv, AppealsStand, Unlogged
<1> QED
  BY <1>8, <1>9, <1>10, <1>11, <1>12, <1>13, <1>14, <1>15 DEF IInv

(* The decision is recorded: it is the last one about its target.            *)
LEMMA RecordStep ==
  ASSUME IInv, NEW r \in Requests, RecordDecision(r)
  PROVE  IInv'
<1>1. PICK q \in Decides : q = req[r] /\ q.op = "decide" /\ q.at = "record"
  BY Shapes DEF RecordDecision, At, IInv, RequestsAreCounted
<1> DEFINE n == Len(decisions) + 1
<1>2. PICK l : l = n
  OBVIOUS
<1> DEFINE w == [q EXCEPT !.decision = l]
           x == [w EXCEPT !.at = "settle"]
           row == [on |-> q.on, action |-> q.action, by |-> q.who, report |-> q.report]
<1>3. r \in Deciding
  BY <1>1 DEF Deciding
<1>4. /\ Len(decisions) \in 0..MaxArrivals /\ l \in 1..MaxArrivals /\ l = Len(decisions) + 1
      /\ Cardinality(Deciding) \in Nat /\ Cardinality(Deciding \ {r}) = Cardinality(Deciding) - 1
      /\ IsFiniteSet(Deciding \ {r}) /\ arrived \in 0..MaxArrivals
      /\ Cardinality(Deciding \ {r}) \in Nat
  <2>1. /\ IsFiniteSet(Deciding \ {r}) /\ Cardinality(Deciding \ {r}) = Cardinality(Deciding) - 1
        /\ Cardinality(Deciding) \in Nat /\ Cardinality(Deciding \ {r}) \in Nat
    BY <1>3, FS_RemoveElement, FS_CardinalityType DEF IInv, RequestsAreCounted
  <2>2. Len(decisions) \in 0..MaxArrivals /\ arrived \in 0..MaxArrivals
    BY Rows DEF IInv, TypeOK
  <2>3. Len(decisions) + Cardinality(Deciding) <= arrived
    BY DEF IInv, RequestsAreCounted
  <2>4. l \in 1..MaxArrivals /\ l = Len(decisions) + 1
    BY <1>2, <2>1, <2>2, <2>3, ModerationAssumption
  <2> QED
    BY <2>1, <2>2, <2>4
<1>5. /\ x \in Decides /\ x.op = "decide" /\ x.at = "settle" /\ x.on = q.on /\ x.action = q.action
      /\ x.report = q.report /\ x.decision = l /\ w.op = "decide" /\ w.at = "record"
  <2>1. l \in 0..MaxArrivals
    BY <1>4, ModerationAssumption
  <2> QED
    BY <1>1, <2>1 DEF Decides
<1>6. req' = [req EXCEPT ![r] = x]
  <2>1. GoOn(r, w)
    BY <1>1, <1>2 DEF RecordDecision
  <2> HIDE DEF w
  <2> QED
    BY <1>5, <2>1, GoesOn
<1>7. /\ UNCHANGED <<status, report, appeal, audit, arrived, faults, mixed, cut>>
      /\ decisions' = Append(decisions, row)
  BY <1>1 DEF RecordDecision
<1> HIDE DEF w, x
<1>8. /\ row \in [on : Targets, action : Actions, by : Moderators, report : Reports \union {None}]
      /\ row.on = q.on /\ row.action = q.action /\ row.report = q.report
  BY Shapes
<1> HIDE DEF row
<1>9. /\ decisions' \in Seq([on : Targets, action : Actions, by : Moderators,
                            report : Reports \union {None}])
      /\ Len(decisions') = l /\ DOMAIN decisions' = DOMAIN decisions \union {l}
      /\ decisions'[l] = row /\ l \notin DOMAIN decisions
      /\ \A k \in DOMAIN decisions : decisions'[k] = decisions[k] /\ k <= l /\ k # 0
  <2> DEFINE Row == [on : Targets, action : Actions, by : Moderators, report : Reports \union {None}]
  <2>1. decisions \in Seq(Row) /\ row \in Row
    BY <1>8 DEF IInv, TypeOK
  <2> HIDE DEF Row
  <2>2. /\ decisions' \in Seq(Row) /\ Len(decisions') = Len(decisions) + 1
        /\ DOMAIN decisions' = 1..(Len(decisions) + 1) /\ DOMAIN decisions = 1..Len(decisions)
        /\ decisions'[Len(decisions) + 1] = row
        /\ \A k \in 1..Len(decisions) : decisions'[k] = decisions[k]
    BY <1>7, <2>1
  <2>3. decisions' \in Seq(Row)
    BY <2>2
  <2> USE DEF Row
  <2> QED
    BY <1>4, <2>2, <2>3
<1>10. /\ req' \in [Requests -> Active \union {Idle}] /\ req'[r] = x
       /\ \A s \in Requests : s # r => req'[s] = req[s]
       /\ Deciding' = Deciding \ {r}
       /\ \A z \in Live' : z = x \/ z \in Live
       /\ \A z \in Live : z = q \/ z \in Live'
       /\ x \in Live' /\ q \in Live
       /\ \A p : q.on # p => Applied(p)' = Applied(p)
       /\ \A a : Answered(a)' = Answered(a)
  <2>1. x \in Active /\ RequestsAreCounted
    BY <1>5 DEF Active, IInv
  <2>2. /\ \A p : q.on # p => ~Unrecorded(req[r], p) /\ ~Unrecorded(x, p)
        /\ \A a : ~Unlogged(req[r], a) /\ ~Unlogged(x, a)
    BY <1>1, <1>5 DEF Unrecorded, Unlogged
  <2>3. Deciding' = Deciding \ {r}
    BY <1>5, <1>6, <2>1, Moves
  <2>4. q \in Live
    BY <1>1 DEF Live
  <2> QED
    BY <1>1, <1>6, <1>7, <2>1, <2>2, <2>3, <2>4, Moves
<1>11. TypeOK'
  BY <1>4, <1>7, <1>9 DEF IInv, TypeOK
<1>12. RequestsAreCounted'
  <2>1. Len(decisions') + Cardinality(Deciding') <= arrived'
    BY <1>4, <1>7, <1>9, <1>10 DEF IInv, RequestsAreCounted
  <2> QED
    BY <1>4, <1>7, <1>10, <2>1 DEF IInv, RequestsAreCounted
<1>13. OneAtATime'
  BY <1>1, <1>5, <1>7, <1>10 DEF IInv, OneAtATime
<1>14. ComesAfter'
  BY <1>1, <1>5, <1>7, <1>8, <1>9, <1>10 DEF IInv, ComesAfter
<1>15. DecisionsAreKnown'
  BY <1>1, <1>5, <1>7, <1>8, <1>9, <1>10 DEF IInv, DecisionsAreKnown
<1>16. PostsStand'
  <2> SUFFICES ASSUME NEW p \in Posts \ mixed, status[p] # Absent, \A z \in cut : ~Unrecorded(z, p)
               PROVE  IF Applied(p)' = {} THEN Stands(p, status[p])'
                      ELSE \A s \in Applied(p)' : status[p] = Effect(req'[s].action)
    BY <1>7 DEF PostsStand, Unrecorded
  <2>1. FirstStatus(p)' = FirstStatus(p)
    BY DEF FirstStatus
  <2>2. CASE q.on # p \/ q.action = "DISMISS_REPORT"
    <3>1. Decisive(p)' = Decisive(p) /\ \A k \in Decisive(p) : decisions'[k] = decisions[k]
      BY <1>8, <1>9, <2>2 DEF Decisive
    <3>2. Stands(p, status[p]) => Stands(p, status[p])'
      BY <1>7, <2>1, <3>1 DEF Stands
    <3>3. Applied(p)' = Applied(p) /\ r \notin Applied(p)
      BY <1>1, <1>5, <1>10, <2>2 DEF Applied, Unrecorded
    <3>4. \A s \in Applied(p) : req'[s] = req[s]
      BY <1>10, <3>3 DEF Applied
    <3> QED
      BY <3>2, <3>3, <3>4 DEF IInv, PostsStand
  <2>3. CASE q.on = p /\ q.action # "DISMISS_REPORT"
    <3>1. status[p] = Effect(q.action)
      <4>1. r \in Applied(p)
        BY <1>1, <2>3 DEF Applied, Unrecorded
      <4> QED
        BY <1>1, <4>1 DEF IInv, PostsStand
    <3>2. Applied(p)' = {}
      BY <1>1, <1>5, <1>10, <2>3 DEF IInv, OneAtATime, Applied, Unrecorded
    <3>3. l \in Decisive(p)' /\ \A j \in Decisive(p)' : j <= l
      BY <1>4, <1>8, <1>9, <2>3 DEF Decisive
    <3>4. Effect(decisions[l].action)' = Effect(q.action)
      BY <1>8, <1>9 DEF Effect
    <3>5. Stands(p, status[p])'
      BY <1>7, <3>1, <3>3, <3>4 DEF Stands, Effect
    <3> QED
      BY <3>2, <3>5
  <2> QED
    BY <2>2, <2>3
<1>17. TracesAreLeft'
  <2>1. \A z \in Live : z.op = "decide" /\ z.decision # 0 => z \in Live'
    BY <1>1, <1>10 DEF IInv, DecisionsAreKnown
  <2>2. Queue("REPORTS")' = Queue("REPORTS")
    BY <1>7 DEF Queue
  <2>3. ASSUME NEW k \in DOMAIN decisions'
        PROVE  \/ \E z \in Live' : z.op = "decide" /\ z.decision = k
               \/ k \in audit'.decisions /\ decisions'[k].report \notin Queue("REPORTS")'
    <3>1. CASE k = l
      BY <1>5, <1>10, <3>1
    <3>2. CASE k \in DOMAIN decisions
      BY <1>7, <1>9, <2>1, <2>2, <3>2 DEF IInv, TracesAreLeft
    <3> QED
      BY <1>9, <3>1, <3>2
  <2> QED
    BY <1>7, <1>9, <2>3 DEF IInv, TracesAreLeft
<1>18. AppealsStand'
  <2>1. \A a : \A z \in Answered(a) : req'[z] = req[z]
    BY <1>1, <1>10 DEF Answered, Unlogged
  <2> QED
    BY <1>1, <1>7, <1>10, <2>1 DEF IInv, AppealsStand, Unlogged
<1> QED
  BY <1>11, <1>12, <1>13, <1>14, <1>15, <1>16, <1>17, <1>18 DEF IInv

(* The report the decision answers leaves the queue.                         *)
LEMMA SettleStep ==
  ASSUME IInv, NEW r \in Requests, SettleReport(r)
  PROVE  IInv'
<1>1. PICK q \in Decides : q = req[r] /\ q.op = "decide" /\ q.at = "settle"
  BY Shapes DEF SettleReport, At, IInv, RequestsAreCounted
<1> DEFINE x == [q EXCEPT !.at = "audit"]
<1>2. /\ x \in Decides /\ x.op = "decide" /\ x.at = "audit" /\ x.on = q.on /\ x.action = q.action
      /\ x.report = q.report /\ x.decision = q.decision
  BY DEF Decides
<1>3. req' = [req EXCEPT ![r] = x]
  BY <1>1, GoesOn DEF SettleReport
<1> HIDE DEF x
<1>4. /\ UNCHANGED <<status, decisions, appeal, audit, arrived, faults, mixed, cut>>
      /\ report' = IF q.report = None THEN report ELSE [report EXCEPT ![q.report] = "RESOLVED"]
  BY <1>1 DEF SettleReport
<1>5. /\ report \in [Reports -> {None, "OPEN", "RESOLVED"}]
      /\ report' \in [Reports -> {None, "OPEN", "RESOLVED"}]
      /\ q.report # None => q.report \in Reports /\ report'[q.report] = "RESOLVED"
      /\ \A m \in Reports : /\ m # q.report => report'[m] = report[m]
                            /\ report[m] # None => report'[m] # None
                            /\ report[m] = "RESOLVED" => report'[m] = "RESOLVED"
                            /\ report'[m] = "OPEN" => report[m] = "OPEN"
  BY <1>4, Shapes DEF IInv, TypeOK, None
<1>6. /\ req' \in [Requests -> Active \union {Idle}] /\ req'[r] = x
      /\ \A s \in Requests : s # r => req'[s] = req[s]
      /\ Deciding' = Deciding
      /\ \A z \in Live' : z = x \/ z \in Live
      /\ \A z \in Live : z = q \/ z \in Live'
      /\ x \in Live' /\ q \in Live
      /\ \A p : Applied(p)' = Applied(p)
      /\ \A a : Answered(a)' = Answered(a)
  <2>1. x \in Active /\ RequestsAreCounted
    BY <1>2 DEF Active, IInv
  <2>2. /\ \A p : ~Unrecorded(req[r], p) /\ ~Unrecorded(x, p)
        /\ \A a : ~Unlogged(req[r], a) /\ ~Unlogged(x, a)
    BY <1>1, <1>2 DEF Unrecorded, Unlogged
  <2>3. Deciding' = Deciding \ {r} /\ r \notin Deciding
    BY <1>1, <1>2, <1>3, <2>1, Moves DEF Deciding
  <2>4. q \in Live /\ Deciding' = Deciding
    BY <1>1, <2>3 DEF Live
  <2>5. /\ req' \in [Requests -> Active \union {Idle}] /\ req'[r] = x
        /\ \A s \in Requests : s # r => req'[s] = req[s]
        /\ \A z \in Live' : z = x \/ z \in Live
        /\ \A z \in Live : z = q \/ z \in Live'
        /\ x \in Live'
    BY <1>1, <1>3, <1>4, <2>1, Moves
  <2>6. \A p : ~Unrecorded(req[r], p) /\ ~Unrecorded(x, p) => Applied(p)' = Applied(p)
    BY <1>3, <2>1, Moves
  <2>7. \A a : ~Unlogged(req[r], a) /\ ~Unlogged(x, a) => Answered(a)' = Answered(a)
    BY <1>3, <2>1, Moves
  <2> QED
    BY <2>2, <2>4, <2>5, <2>6, <2>7
<1>7. TypeOK'
  BY <1>4, <1>5 DEF IInv, TypeOK
<1>8. RequestsAreCounted'
  BY <1>4, <1>6 DEF IInv, RequestsAreCounted
<1>9. OneAtATime'
  BY <1>1, <1>2, <1>4, <1>6 DEF IInv, OneAtATime
<1>10. \A z \in Live : z.op = "decide" => z.report \in Reports \union {None}
  BY Shapes DEF Live, IInv, RequestsAreCounted
<1>11. \A k \in DOMAIN decisions : decisions[k].report \in Reports \union {None}
  BY Rows DEF IInv
<1>12. ComesAfter'
  BY <1>1, <1>2, <1>4, <1>5, <1>6, <1>10, <1>11 DEF IInv, ComesAfter
<1>13. DecisionsAreKnown'
  BY <1>1, <1>2, <1>4, <1>5, <1>6, <1>10 DEF IInv, DecisionsAreKnown
<1>14. PostsStand'
  <2>1. \A p \in Posts : Decisive(p)' = Decisive(p) /\ \A z \in Applied(p) : req'[z] = req[z]
    BY <1>1, <1>4, <1>6 DEF Decisive, Applied, Unrecorded
  <2>2. \A p \in Posts : Stands(p, status[p]) => Stands(p, status[p])'
    BY <1>4, <2>1 DEF Stands, FirstStatus
  <2> QED
    BY <1>4, <1>6, <2>1, <2>2 DEF IInv, PostsStand, Unrecorded
<1>15. TracesAreLeft'
  <2>1. ASSUME NEW k \in DOMAIN decisions
        PROVE  \/ \E z \in Live' : z.op = "decide" /\ z.decision = k
               \/ k \in audit.decisions /\ decisions[k].report \notin Queue("REPORTS")'
    BY <1>2, <1>5, <1>6 DEF IInv, TracesAreLeft, Queue
  <2>2. ASSUME NEW m \in Reports, report'[m] = "RESOLVED"
        PROVE  \E k \in DOMAIN decisions : decisions[k].report = m
    <3>1. CASE m = q.report
      BY <1>1, <1>6, <3>1 DEF IInv, DecisionsAreKnown
    <3>2. CASE m # q.report
      BY <1>5, <2>2, <3>2 DEF IInv, TracesAreLeft
    <3> QED
      BY <3>1, <3>2
  <2> QED
    BY <1>4, <2>1, <2>2 DEF TracesAreLeft
<1>16. AppealsStand'
  <2>1. \A a : \A z \in Answered(a) : req'[z] = req[z]
    BY <1>1, <1>6 DEF Answered, Unlogged
  <2> QED
    BY <1>1, <1>4, <1>6, <2>1 DEF IInv, AppealsStand, Unlogged
<1> QED
  BY <1>7, <1>8, <1>9, <1>12, <1>13, <1>14, <1>15, <1>16 DEF IInv

-----------------------------------------------------------------------------
(* Steps of an appeal.                                                       *)

(* An appeal is opened: nobody has answered it.                              *)
LEMMA OpenAppealStep ==
  ASSUME IInv, NEW r \in Requests, NEW a \in Appeals, NEW k \in 1..MaxArrivals, OpenAppeal(r, a, k)
  PROVE  IInv'
<1> DEFINE w == [Idle EXCEPT !.op = "appeal", !.at = "open", !.on = a]
           x == [w EXCEPT !.at = "audit"]
           y == [of |-> k, status |-> "OPEN"]
<1>1. /\ x \in Opens /\ x.op = "appeal" /\ x.at = "audit" /\ x.on = a
      /\ w.op = "appeal" /\ w.at = "open"
  BY DEF Idle, Opens
<1>2. req' = [req EXCEPT ![r] = x]
  <2>1. GoOn(r, w)
    BY DEF OpenAppeal
  <2> HIDE DEF w
  <2> QED
    BY <1>1, <2>1, GoesOn
<1> HIDE DEF w, x
<1>3. /\ appeal[a] = NoAppeal /\ k \in DOMAIN decisions /\ req[r] = Idle
      /\ appeal' = [appeal EXCEPT ![a] = y]
      /\ arrived < MaxArrivals /\ arrived' = arrived + 1
      /\ UNCHANGED <<status, report, decisions, audit, faults, mixed, cut>>
  BY DEF OpenAppeal, Arrive
<1>4. /\ y \in [of : 0..MaxArrivals, status : {None, "OPEN"} \union Answers]
      /\ y.of = k /\ y.status = "OPEN" /\ y # NoAppeal /\ "OPEN" # None
  <2>1. k \in 0..MaxArrivals /\ k # 0 /\ NoAppeal.of = 0
    BY ModerationAssumption DEF NoAppeal
  <2> QED
    BY <2>1 DEF None
<1> HIDE DEF y
<1>5. /\ appeal' \in [Appeals -> [of : 0..MaxArrivals, status : {None, "OPEN"} \union Answers]]
      /\ appeal'[a] = y /\ \A b \in Appeals : b # a => appeal'[b] = appeal[b]
  BY <1>3, <1>4 DEF IInv, TypeOK
<1>6. /\ req' \in [Requests -> Active \union {Idle}] /\ req'[r] = x
      /\ \A s \in Requests : s # r => req'[s] = req[s]
      /\ Deciding' = Deciding
      /\ \A z \in Live' : z = x \/ z \in Live
      /\ \A z \in Live : z = Idle \/ z \in Live'
      /\ x \in Live'
      /\ \A p : Applied(p)' = Applied(p)
      /\ \A b : Answered(b)' = Answered(b)
  <2>1. x \in Active /\ RequestsAreCounted
    BY <1>1 DEF Active, IInv
  <2>2. /\ \A p : ~Unrecorded(req[r], p) /\ ~Unrecorded(x, p)
        /\ \A b : ~Unlogged(req[r], b) /\ ~Unlogged(x, b)
    BY <1>1, <1>3, Shapes DEF Unrecorded, Unlogged
  <2>3. Deciding' = Deciding \ {r} /\ r \notin Deciding
    BY <1>1, <1>2, <1>3, <2>1, Shapes, Moves DEF Deciding
  <2>4. Deciding' = Deciding
    BY <2>3
  <2>5. /\ req' \in [Requests -> Active \union {Idle}] /\ req'[r] = x
        /\ \A s \in Requests : s # r => req'[s] = req[s]
        /\ \A z \in Live' : z = x \/ z \in Live
        /\ \A z \in Live : z = Idle \/ z \in Live'
        /\ x \in Live'
    BY <1>2, <1>3, <2>1, Moves
  <2>6. \A p : ~Unrecorded(req[r], p) /\ ~Unrecorded(x, p) => Applied(p)' = Applied(p)
    BY <1>2, <2>1, Moves
  <2>7. \A b : ~Unlogged(req[r], b) /\ ~Unlogged(x, b) => Answered(b)' = Answered(b)
    BY <1>2, <2>1, Moves
  <2> QED
    BY <2>2, <2>4, <2>5, <2>6, <2>7
<1>7. Idle.op = "idle"
  BY Shapes
<1>8. TypeOK'
  BY <1>3, <1>5, ModerationAssumption DEF IInv, TypeOK
<1>9. RequestsAreCounted'
  <2>1. arrived \in 0..MaxArrivals /\ Cardinality(Deciding) \in Nat /\ Len(decisions) \in Nat
    BY Rows, FS_CardinalityType DEF IInv, RequestsAreCounted, TypeOK
  <2>2. Len(decisions) + Cardinality(Deciding) <= arrived'
    BY <1>3, <2>1 DEF IInv, RequestsAreCounted
  <2> QED
    BY <1>3, <1>6, <2>2 DEF IInv, RequestsAreCounted
<1>10. OneAtATime'
  BY <1>1, <1>3, <1>6 DEF IInv, OneAtATime
<1>11. ComesAfter'
  <2>1. \A z \in Live : z.op = "answer" => appeal'[z.on] # NoAppeal
    <3> SUFFICES ASSUME NEW z \in Live, z.op = "answer" PROVE appeal'[z.on] # NoAppeal
      OBVIOUS
    <3>1. z.on \in Appeals /\ appeal[z.on] # NoAppeal
      BY Shapes DEF Live, IInv, RequestsAreCounted, ComesAfter
    <3> QED
      BY <1>4, <1>5, <3>1
  <2>2. \A b \in Appeals : IF appeal'[b] = NoAppeal THEN audit.answer[b] = None
                           ELSE appeal'[b].of \in DOMAIN decisions /\ appeal'[b].status # None
    BY <1>3, <1>4, <1>5 DEF IInv, ComesAfter
  <2> QED
    BY <1>1, <1>3, <1>6, <2>1, <2>2 DEF IInv, ComesAfter
<1>12. DecisionsAreKnown'
  BY <1>1, <1>3, <1>6 DEF IInv, DecisionsAreKnown
<1>13. PostsStand'
  <2>1. \A p \in Posts : Decisive(p)' = Decisive(p) /\ \A z \in Applied(p) : req'[z] = req[z]
    BY <1>3, <1>6, <1>7 DEF Decisive, Applied, Unrecorded
  <2>2. \A p \in Posts : Stands(p, status[p]) => Stands(p, status[p])'
    BY <1>3, <2>1 DEF Stands, FirstStatus
  <2> QED
    BY <1>3, <1>6, <2>1, <2>2 DEF IInv, PostsStand, Unrecorded
<1>14. TracesAreLeft'
  BY <1>3, <1>6, <1>7 DEF IInv, TracesAreLeft, Queue
<1>15. AppealsStand'
  <2>1. Answered(a) = {}
    BY <1>3 DEF IInv, ComesAfter, Answered, Unlogged, Live
  <2>2. audit.answer[a] = None
    BY <1>3 DEF IInv, ComesAfter
  <2>3. \A b \in Appeals : \A z \in Answered(b) : req'[z] = req[z]
    BY <1>3, <1>6, <1>7 DEF Answered, Unlogged
  <2>4. \A b \in Appeals : b # a /\ appeal[b] # NoAppeal =>
          b \in audit.opened \/ \E z \in Live' : z.op = "appeal" /\ z.on = b
    BY <1>6, <1>7 DEF IInv, AppealsStand
  <2>5. \E z \in Live' : z.op = "appeal" /\ z.on = a
    BY <1>1, <1>6
  <2>6. ASSUME NEW b \in Appeals, appeal'[b] # NoAppeal, b \notin mixed, \A q \in cut : ~Unlogged(q, b)
        PROVE  IF Answered(b)' = {}
               THEN appeal'[b].status = IF audit.answer[b] = None THEN "OPEN" ELSE audit.answer[b]
               ELSE \A z \in Answered(b)' : appeal'[b].status = req'[z].action
    <3>1. CASE b = a
      BY <1>4, <1>5, <1>6, <2>1, <2>2, <3>1
    <3>2. CASE b # a
      BY <1>5, <1>6, <2>3, <2>6, <3>2 DEF IInv, AppealsStand
    <3> QED
      BY <3>1, <3>2
  <2> QED
    BY <1>3, <1>5, <2>4, <2>5, <2>6 DEF AppealsStand, Unlogged
<1> QED
  BY <1>8, <1>9, <1>10, <1>11, <1>12, <1>13, <1>14, <1>15 DEF IInv

(* A moderator takes up an appeal.                                           *)
LEMMA ReviewStep ==
  ASSUME IInv, NEW r \in Requests, NEW m \in Moderators, NEW a \in Appeals, NEW answer \in Answers,
         Review(r, m, a, answer)
  PROVE  IInv'
<1> DEFINE x == [Idle EXCEPT !.op = "answer", !.at = "answer", !.who = m, !.on = a,
                             !.action = answer]
<1>1. x \in Replies /\ x.op = "answer" /\ x.at = "answer" /\ x.on = a /\ x.action = answer
  BY DEF Idle, Replies
<1>2. /\ appeal[a] # NoAppeal /\ req[r] = Idle /\ req' = [req EXCEPT ![r] = x]
      /\ arrived < MaxArrivals /\ arrived' = arrived + 1
      /\ mixed' = IF Working("answer", a) = {} THEN mixed ELSE mixed \union {a}
      /\ UNCHANGED <<status, report, decisions, appeal, audit, faults, cut>>
  <2>1. Head(AnswerSteps) = "answer"
    BY DEF AnswerSteps
  <2> QED
    BY <2>1 DEF Review, Begin, Arrive, Mixing, moderation
<1> HIDE DEF x
<1>3. /\ req' \in [Requests -> Active \union {Idle}] /\ req'[r] = x
      /\ \A s \in Requests : s # r => req'[s] = req[s]
      /\ Deciding' = Deciding
      /\ \A q \in Live' : q = x \/ q \in Live
      /\ \A q \in Live : q = Idle \/ q \in Live'
      /\ \A p : Applied(p)' = Applied(p)
      /\ \A b : Answered(b)' = Answered(b)
  <2>1. x \in Active /\ RequestsAreCounted
    BY <1>1 DEF Active, IInv
  <2>2. /\ \A p : ~Unrecorded(req[r], p) /\ ~Unrecorded(x, p)
        /\ \A b : ~Unlogged(req[r], b) /\ ~Unlogged(x, b)
    BY <1>1, <1>2, Shapes DEF Unrecorded, Unlogged
  <2>3. Deciding' = Deciding \ {r} /\ r \notin Deciding
    BY <1>1, <1>2, <2>1, Shapes, Moves DEF Deciding
  <2>4. Deciding' = Deciding
    BY <2>3
  <2>5. /\ req' \in [Requests -> Active \union {Idle}] /\ req'[r] = x
        /\ \A s \in Requests : s # r => req'[s] = req[s]
        /\ \A z \in Live' : z = x \/ z \in Live
        /\ \A z \in Live : z = Idle \/ z \in Live'
    BY <1>2, <2>1, Moves
  <2>6. \A p : ~Unrecorded(req[r], p) /\ ~Unrecorded(x, p) => Applied(p)' = Applied(p)
    BY <1>2, <2>1, Moves
  <2>7. \A b : ~Unlogged(req[r], b) /\ ~Unlogged(x, b) => Answered(b)' = Answered(b)
    BY <1>2, <2>1, Moves
  <2> QED
    BY <2>2, <2>4, <2>5, <2>6, <2>7
<1>4. Idle.op = "idle" /\ mixed \subseteq mixed'
  BY <1>2, Shapes
<1>5. TypeOK'
  BY <1>2, <1>3, ModerationAssumption DEF IInv, TypeOK
<1>6. RequestsAreCounted'
  <2>1. arrived \in 0..MaxArrivals /\ Cardinality(Deciding) \in Nat /\ Len(decisions) \in Nat
    BY Rows, FS_CardinalityType DEF IInv, RequestsAreCounted, TypeOK
  <2>2. Len(decisions) + Cardinality(Deciding) <= arrived'
    BY <1>2, <2>1 DEF IInv, RequestsAreCounted
  <2> QED
    BY <1>2, <1>3, <2>2 DEF IInv, RequestsAreCounted
<1>7. OneAtATime'
  <2>1. \A s \in Requests : req[s].op = "answer" /\ req[s].on = a => a \in mixed'
    BY <1>2 DEF Working
  <2> QED
    BY <1>1, <1>3, <1>4, <2>1 DEF IInv, OneAtATime
<1>8. ComesAfter'
  BY <1>1, <1>2, <1>3 DEF IInv, ComesAfter
<1>9. DecisionsAreKnown'
  BY <1>1, <1>2, <1>3 DEF IInv, DecisionsAreKnown
<1>10. PostsStand'
  <2>1. \A p \in Posts : Decisive(p)' = Decisive(p) /\ \A z \in Applied(p) : req'[z] = req[z]
    BY <1>2, <1>3, <1>4 DEF Decisive, Applied, Unrecorded
  <2>2. \A p \in Posts : Stands(p, status[p]) => Stands(p, status[p])'
    BY <1>2, <2>1 DEF Stands, FirstStatus
  <2> QED
    BY <1>2, <1>3, <1>4, <2>1, <2>2 DEF IInv, PostsStand, Unrecorded
<1>11. TracesAreLeft'
  BY <1>2, <1>3, <1>4 DEF IInv, TracesAreLeft, Queue
<1>12. AppealsStand'
  <2>1. \A b \in Appeals : \A z \in Answered(b) : req'[z] = req[z]
    BY <1>2, <1>3, <1>4 DEF Answered, Unlogged
  <2> QED
    BY <1>2, <1>3, <1>4, <2>1 DEF IInv, AppealsStand, Unlogged
<1> QED
  BY <1>5, <1>6, <1>7, <1>8, <1>9, <1>10, <1>11, <1>12 DEF IInv

(* The appeal is answered: nobody else is answering it.                      *)
LEMMA AnswerStep ==
  ASSUME IInv, NEW r \in Requests, Answer(r)
  PROVE  IInv'
<1>1. PICK q \in Replies : q = req[r] /\ q.op = "answer" /\ q.at = "answer"
  BY Shapes DEF Answer, At, IInv, RequestsAreCounted
<1>2. PICK a \in Appeals, c \in Answers : a = q.on /\ c = q.action
  BY Shapes
<1> DEFINE x == [q EXCEPT !.at = "audit"]
           y == [appeal[a] EXCEPT !.status = c]
<1>3. x \in Replies /\ x.op = "answer" /\ x.at = "audit" /\ x.on = a /\ x.action = c
  BY <1>2 DEF Replies
<1>4. req' = [req EXCEPT ![r] = x]
  BY <1>1, GoesOn DEF Answer
<1>5. /\ appeal' = [appeal EXCEPT ![a] = y]
      /\ UNCHANGED <<status, report, decisions, audit, arrived, faults, mixed, cut>>
  BY <1>1, <1>2 DEF Answer
<1> HIDE DEF x
<1>6. /\ appeal[a] # NoAppeal /\ appeal[a].of \in DOMAIN decisions
      /\ y \in [of : 0..MaxArrivals, status : {None, "OPEN"} \union Answers]
      /\ y.of = appeal[a].of /\ y.status = c /\ c # None /\ NoAppeal.of = 0
  <2>1. appeal[a] # NoAppeal /\ appeal[a].of \in DOMAIN decisions
    BY <1>1, <1>2 DEF IInv, ComesAfter, Live
  <2>2. appeal[a] \in [of : 0..MaxArrivals, status : {None, "OPEN"} \union Answers]
    BY DEF IInv, TypeOK
  <2> QED
    BY <2>1, <2>2 DEF Answers, None, NoAppeal
<1> HIDE DEF y
<1>7. y # NoAppeal
  <2>1. appeal[a].of # 0
    BY <1>6, Rows DEF IInv
  <2> QED
    BY <1>6, <2>1
<1>8. /\ appeal' \in [Appeals -> [of : 0..MaxArrivals, status : {None, "OPEN"} \union Answers]]
      /\ appeal'[a] = y /\ \A b \in Appeals : b # a => appeal'[b] = appeal[b]
  BY <1>5, <1>6 DEF IInv, TypeOK
<1>9. /\ req' \in [Requests -> Active \union {Idle}] /\ req'[r] = x
      /\ \A s \in Requests : s # r => req'[s] = req[s]
      /\ Deciding' = Deciding
      /\ \A z \in Live' : z = x \/ z \in Live
      /\ \A z \in Live : z = q \/ z \in Live'
      /\ \A p : Applied(p)' = Applied(p)
      /\ \A b : b # a => Answered(b)' = Answered(b)
  <2>1. x \in Active /\ RequestsAreCounted
    BY <1>3 DEF Active, IInv
  <2>2. /\ \A p : ~Unrecorded(req[r], p) /\ ~Unrecorded(x, p)
        /\ \A b : b # a => ~Unlogged(req[r], b) /\ ~Unlogged(x, b)
    BY <1>1, <1>2, <1>3 DEF Unrecorded, Unlogged
  <2>3. Deciding' = Deciding \ {r} /\ r \notin Deciding
    BY <1>1, <1>3, <1>4, <2>1, Moves DEF Deciding
  <2>4. Deciding' = Deciding
    BY <2>3
  <2>5. /\ req' \in [Requests -> Active \union {Idle}] /\ req'[r] = x
        /\ \A s \in Requests : s # r => req'[s] = req[s]
        /\ \A z \in Live' : z = x \/ z \in Live
        /\ \A z \in Live : z = q \/ z \in Live'
    BY <1>1, <1>4, <1>5, <2>1, Moves
  <2>6. \A p : ~Unrecorded(req[r], p) /\ ~Unrecorded(x, p) => Applied(p)' = Applied(p)
    BY <1>4, <2>1, Moves
  <2>7. \A b : ~Unlogged(req[r], b) /\ ~Unlogged(x, b) => Answered(b)' = Answered(b)
    BY <1>4, <2>1, Moves
  <2> QED
    BY <2>2, <2>4, <2>5, <2>6, <2>7
<1>10. TypeOK'
  BY <1>5, <1>8 DEF IInv, TypeOK
<1>11. RequestsAreCounted'
  BY <1>5, <1>9 DEF IInv, RequestsAreCounted
<1>12. OneAtATime'
  BY <1>1, <1>2, <1>3, <1>5, <1>9 DEF IInv, OneAtATime
<1>13. ComesAfter'
  <2>1. \A z \in Live' : z.op = "answer" => appeal'[z.on] # NoAppeal
    <3> SUFFICES ASSUME NEW z \in Live', z.op = "answer" PROVE appeal'[z.on] # NoAppeal
      OBVIOUS
    <3>1. CASE z = x
      BY <1>3, <1>7, <1>8, <3>1
    <3>2. CASE z \in Live
      <4>1. z.on \in Appeals /\ appeal[z.on] # NoAppeal
        BY <3>2, Shapes DEF Live, IInv, RequestsAreCounted, ComesAfter
      <4> QED
        BY <1>7, <1>8, <4>1
    <3> QED
      BY <1>9, <3>1, <3>2
  <2>2. \A b \in Appeals : IF appeal'[b] = NoAppeal THEN audit.answer[b] = None
                           ELSE appeal'[b].of \in DOMAIN decisions /\ appeal'[b].status # None
    BY <1>6, <1>7, <1>8 DEF IInv, ComesAfter
  <2> QED
    BY <1>3, <1>5, <1>9, <2>1, <2>2 DEF IInv, ComesAfter
<1>14. DecisionsAreKnown'
  BY <1>3, <1>5, <1>9 DEF IInv, DecisionsAreKnown
<1>15. PostsStand'
  <2>1. \A p \in Posts : Decisive(p)' = Decisive(p) /\ \A z \in Applied(p) : req'[z] = req[z]
    BY <1>1, <1>5, <1>9 DEF Decisive, Applied, Unrecorded
  <2>2. \A p \in Posts : Stands(p, status[p]) => Stands(p, status[p])'
    BY <1>5, <2>1 DEF Stands, FirstStatus
  <2> QED
    BY <1>5, <1>9, <2>1, <2>2 DEF IInv, PostsStand, Unrecorded
<1>16. TracesAreLeft'
  BY <1>1, <1>5, <1>9 DEF IInv, TracesAreLeft, Queue
<1>17. AppealsStand'
  <2>1. \A b \in Appeals : appeal'[b] # NoAppeal =>
          b \in audit.opened \/ \E z \in Live' : z.op = "appeal" /\ z.on = b
    <3>1. \A b \in Appeals : appeal[b] # NoAppeal =>
            b \in audit.opened \/ \E z \in Live' : z.op = "appeal" /\ z.on = b
      BY <1>1, <1>9 DEF IInv, AppealsStand
    <3> QED
      BY <1>6, <1>8, <3>1
  <2>2. ASSUME NEW b \in Appeals, appeal'[b] # NoAppeal, b \notin mixed, \A z \in cut : ~Unlogged(z, b)
        PROVE  IF Answered(b)' = {}
               THEN appeal'[b].status = IF audit.answer[b] = None THEN "OPEN" ELSE audit.answer[b]
               ELSE \A z \in Answered(b)' : appeal'[b].status = req'[z].action
    <3>1. CASE b = a
      <4>1. \A s \in Requests : s # r => ~Unlogged(req[s], a)
        BY <1>1, <1>2, <2>2, <3>1 DEF IInv, OneAtATime, Unlogged
      <4>2. Answered(a)' = {r}
        BY <1>3, <1>9, <4>1 DEF Answered, Unlogged
      <4> QED
        BY <1>3, <1>6, <1>8, <1>9, <3>1, <4>2
    <3>2. CASE b # a
      <4>1. \A z \in Answered(b) : req'[z] = req[z]
        BY <1>1, <1>9 DEF Answered, Unlogged
      <4> QED
        BY <1>8, <1>9, <2>2, <3>2, <4>1 DEF IInv, AppealsStand
    <3> QED
      BY <3>1, <3>2
  <2> QED
    BY <1>5, <2>1, <2>2 DEF AppealsStand, Unlogged
<1> QED
  BY <1>10, <1>11, <1>12, <1>13, <1>14, <1>15, <1>16, <1>17 DEF IInv

(* The request writes its line of the log and ends.                          *)
LEMMA AuditStep ==
  ASSUME IInv, NEW r \in Requests, Audit(r)
  PROVE  IInv'
<1>1. PICK q \in Active : q = req[r] /\ q.at = "audit"
  BY Shapes DEF Audit, IInv, RequestsAreCounted
<1>2. /\ q.op \in {"decide", "appeal", "answer"}
      /\ q.op = "decide" => q.decision \in DOMAIN decisions /\ q.decision \in 1..MaxArrivals
      /\ q.op = "appeal" => q.on \in Appeals
      /\ q.op = "answer" => q.on \in Appeals /\ q.action \in Answers /\ q.action # None
  <2>1. q.op = "decide" => q.decision \in DOMAIN decisions
    BY <1>1 DEF Live, IInv, DecisionsAreKnown
  <2>2. \A k \in DOMAIN decisions : k \in 1..MaxArrivals
    BY Rows, ModerationAssumption DEF IInv
  <2>3. q.op \in {"decide", "appeal", "answer"}
    BY Shapes
  <2>4. q.op = "appeal" => q.on \in Appeals
    BY Shapes
  <2>5. q.op = "answer" => q.on \in Appeals /\ q.action \in Answers
    BY Shapes
  <2> QED
    BY <2>1, <2>2, <2>3, <2>4, <2>5 DEF Answers, None
<1>3. /\ req' = [req EXCEPT ![r] = Idle]
      /\ UNCHANGED <<status, report, decisions, appeal, arrived, faults, mixed, cut>>
  <2>1. GoOn(r, q) /\ UNCHANGED <<status, report, decisions, appeal, arrived, faults, mixed, cut>>
    BY <1>1 DEF Audit
  <2> QED
    BY <1>1, <1>2, <2>1, GoesOn
<1>4. /\ audit' \in [decisions : SUBSET (1..MaxArrivals), opened : SUBSET Appeals,
                     answer : [Appeals -> Answers \union {None}]]
      /\ audit.decisions \subseteq audit'.decisions /\ audit.opened \subseteq audit'.opened
      /\ q.op = "decide" => q.decision \in audit'.decisions
      /\ q.op = "appeal" => q.on \in audit'.opened
      /\ \A b \in Appeals : audit'.answer[b] = IF q.op = "answer" /\ b = q.on THEN q.action
                                               ELSE audit.answer[b]
  <2>1. audit \in [decisions : SUBSET (1..MaxArrivals), opened : SUBSET Appeals,
                   answer : [Appeals -> Answers \union {None}]]
    BY DEF IInv, TypeOK
  <2>2. CASE q.op = "decide"
    <3>1. audit' = [audit EXCEPT !.decisions = audit.decisions \union {q.decision}]
      BY <1>1, <2>2 DEF Audit
    <3> QED
      BY <1>2, <2>1, <2>2, <3>1
  <2>3. CASE q.op = "appeal"
    <3>1. audit' = [audit EXCEPT !.opened = audit.opened \union {q.on}]
      BY <1>1, <2>3 DEF Audit
    <3> QED
      BY <1>2, <2>1, <2>3, <3>1
  <2>4. CASE q.op = "answer"
    <3>1. audit' = [audit EXCEPT !.answer[q.on] = q.action]
      BY <1>1, <2>4 DEF Audit
    <3> QED
      BY <1>2, <2>1, <2>4, <3>1
  <2> QED
    BY <1>2, <2>2, <2>3, <2>4
<1>5. /\ req' \in [Requests -> Active \union {Idle}] /\ req'[r] = Idle
      /\ \A s \in Requests : s # r => req'[s] = req[s]
      /\ Deciding' = Deciding
      /\ \A z \in Live' : z = Idle \/ z \in Live
      /\ \A z \in Live : z = q \/ z \in Live'
      /\ \A p : Applied(p)' = Applied(p)
      /\ \A b : ~Unlogged(q, b) => Answered(b)' = Answered(b)
  <2>1. RequestsAreCounted /\ Idle \in Active \union {Idle}
    BY DEF IInv
  <2>2. /\ \A p : ~Unrecorded(req[r], p) /\ ~Unrecorded(Idle, p)
        /\ \A b : ~Unlogged(Idle, b)
    BY <1>1, Shapes DEF Unrecorded, Unlogged
  <2>3. Deciding' = Deciding \ {r} /\ r \notin Deciding
    BY <1>1, <1>3, <2>1, Shapes, Moves DEF Deciding
  <2>4. Deciding' = Deciding
    BY <2>3
  <2>5. /\ req' \in [Requests -> Active \union {Idle}] /\ req'[r] = Idle
        /\ \A s \in Requests : s # r => req'[s] = req[s]
        /\ \A z \in Live' : z = Idle \/ z \in Live
        /\ \A z \in Live : z = q \/ z \in Live'
    BY <1>1, <1>3, <2>1, Moves
  <2>6. \A p : ~Unrecorded(req[r], p) /\ ~Unrecorded(Idle, p) => Applied(p)' = Applied(p)
    BY <1>3, <2>1, Moves
  <2>7. \A b : ~Unlogged(req[r], b) /\ ~Unlogged(Idle, b) => Answered(b)' = Answered(b)
    BY <1>3, <2>1, Moves
  <2> QED
    BY <1>1, <2>2, <2>4, <2>5, <2>6, <2>7
<1>6. Idle.op = "idle"
  BY Shapes
<1>7. TypeOK'
  BY <1>3, <1>4 DEF IInv, TypeOK
<1>8. RequestsAreCounted'
  BY <1>3, <1>5 DEF IInv, RequestsAreCounted
<1>9. OneAtATime'
  BY <1>3, <1>5, <1>6 DEF IInv, OneAtATime
<1>10. ComesAfter'
  <2>1. q.op = "answer" => appeal[q.on] # NoAppeal
    BY <1>1 DEF Live, IInv, ComesAfter
  <2>2. \A b \in Appeals : IF appeal[b] = NoAppeal THEN audit'.answer[b] = None
                           ELSE appeal[b].of \in DOMAIN decisions /\ appeal[b].status # None
    BY <1>4, <2>1 DEF IInv, ComesAfter
  <2> QED
    BY <1>3, <1>5, <1>6, <2>2 DEF IInv, ComesAfter
<1>11. DecisionsAreKnown'
  BY <1>3, <1>5, <1>6 DEF IInv, DecisionsAreKnown
<1>12. PostsStand'
  <2>1. \A p \in Posts : Decisive(p)' = Decisive(p) /\ \A z \in Applied(p) : req'[z] = req[z]
    BY <1>1, <1>3, <1>5 DEF Decisive, Applied, Unrecorded
  <2>2. \A p \in Posts : Stands(p, status[p]) => Stands(p, status[p])'
    BY <1>3, <2>1 DEF Stands, FirstStatus
  <2> QED
    BY <1>3, <1>5, <2>1, <2>2 DEF IInv, PostsStand, Unrecorded
<1>13. TracesAreLeft'
  <2>1. ASSUME NEW k \in DOMAIN decisions, q.op = "decide", q.decision = k
        PROVE  k \in audit'.decisions /\ decisions[k].report \notin Queue("REPORTS")
    <3>1. /\ decisions[k].report = q.report
          /\ q.report # None => report[q.report] = "RESOLVED"
      BY <1>1, <2>1 DEF Live, IInv, DecisionsAreKnown
    <3> QED
      BY <1>4, <2>1, <3>1, ModerationAssumption DEF Queue
  <2>2. Queue("REPORTS")' = Queue("REPORTS")
    BY <1>3 DEF Queue
  <2>3. ASSUME NEW k \in DOMAIN decisions
        PROVE  \/ \E z \in Live' : z.op = "decide" /\ z.decision = k
               \/ k \in audit'.decisions /\ decisions[k].report \notin Queue("REPORTS")
    BY <1>4, <1>5, <2>1, <2>3 DEF IInv, TracesAreLeft
  <2> QED
    BY <1>3, <2>2, <2>3 DEF IInv, TracesAreLeft
<1>14. AppealsStand'
  <2>1. ASSUME NEW b \in Appeals, appeal[b] # NoAppeal
        PROVE  b \in audit'.opened \/ \E z \in Live' : z.op = "appeal" /\ z.on = b
    BY <1>4, <1>5, <2>1 DEF IInv, AppealsStand
  <2>2. ASSUME NEW b \in Appeals, appeal[b] # NoAppeal, b \notin mixed, \A z \in cut : ~Unlogged(z, b)
        PROVE  IF Answered(b)' = {}
               THEN appeal[b].status = IF audit'.answer[b] = None THEN "OPEN" ELSE audit'.answer[b]
               ELSE \A z \in Answered(b)' : appeal[b].status = req'[z].action
    <3>1. CASE q.op = "answer" /\ q.on = b
      <4>1. \A s \in Requests : s # r => ~Unlogged(req[s], b)
        BY <1>1, <2>2, <3>1 DEF IInv, OneAtATime, Unlogged
      <4>2. r \in Answered(b)
        BY <1>1, <3>1 DEF Answered, Unlogged
      <4>3. appeal[b].status = q.action
        BY <1>1, <2>2, <4>2 DEF IInv, AppealsStand
      <4>4. Answered(b)' = {}
        BY <1>5, <1>6, <4>1 DEF Answered, Unlogged
      <4> QED
        BY <1>2, <1>4, <3>1, <4>3, <4>4
    <3>2. CASE ~ (q.op = "answer" /\ q.on = b)
      <4>1. ~Unlogged(q, b)
        BY <3>2 DEF Unlogged
      <4>2. \A z \in Answered(b) : req'[z] = req[z]
        BY <1>1, <1>5, <4>1 DEF Answered
      <4> QED
        BY <1>4, <1>5, <2>2, <3>2, <4>1, <4>2 DEF IInv, AppealsStand
    <3> QED
      BY <3>1, <3>2
  <2> QED
    BY <1>3, <2>1, <2>2 DEF AppealsStand, Unlogged
<1> QED
  BY <1>7, <1>8, <1>9, <1>10, <1>11, <1>12, <1>13, <1>14 DEF IInv

(* The request is cut short: what it has still to do is known from cut.      *)
LEMMA FailStep ==
  ASSUME IInv, NEW r \in Requests, Fail(r)
  PROVE  IInv'
<1>1. PICK q \in Active : q = req[r]
  BY Shapes DEF Fail, IInv, RequestsAreCounted
<1>2. /\ faults < MaxFaults /\ faults' = faults + 1
      /\ cut' = cut \union {q} /\ req' = [req EXCEPT ![r] = Idle]
      /\ UNCHANGED <<status, report, decisions, appeal, audit, arrived, mixed>>
  BY <1>1 DEF Fail, moderation
<1>3. RequestsAreCounted /\ Idle \in Active \union {Idle} /\ Idle.op = "idle"
  BY Shapes DEF IInv
<1>4. /\ req' \in [Requests -> Active \union {Idle}] /\ req'[r] = Idle
      /\ \A s \in Requests : s # r => req'[s] = req[s]
      /\ Deciding' = Deciding \ {r}
  BY <1>2, <1>3, Moves
<1>5. \A p : ~Unrecorded(q, p) => Applied(p)' = Applied(p) /\ r \notin Applied(p)
  <2>1. \A p : ~Unrecorded(Idle, p)
    BY <1>3 DEF Unrecorded
  <2>2. \A p : ~Unrecorded(req[r], p) /\ ~Unrecorded(Idle, p) => Applied(p)' = Applied(p)
    BY <1>2, <1>3, Moves
  <2> QED
    BY <1>1, <2>1, <2>2 DEF Applied
<1>6. \A b : ~Unlogged(q, b) => Answered(b)' = Answered(b) /\ r \notin Answered(b)
  <2>1. \A b : ~Unlogged(Idle, b)
    BY <1>3 DEF Unlogged
  <2>2. \A b : ~Unlogged(req[r], b) /\ ~Unlogged(Idle, b) => Answered(b)' = Answered(b)
    BY <1>2, <1>3, Moves
  <2> QED
    BY <1>1, <2>1, <2>2 DEF Answered
<1>7. /\ \A z \in Live' : z = Idle \/ z \in Live
      /\ \A z \in Live : z \in Live'
      /\ q \in cut' /\ \A z \in cut : z \in cut'
  BY <1>1, <1>2, <1>4 DEF Live
<1>8. IsFiniteSet(cut') /\ Cardinality(cut') <= faults' /\ cut' \subseteq Active
  <2>1. IsFiniteSet(cut) /\ cut \subseteq Active
    BY DEF IInv, RequestsAreCounted
  <2>2. IsFiniteSet(cut') /\ (Cardinality(cut') = Cardinality(cut) \/ Cardinality(cut') = Cardinality(cut) + 1)
    BY <1>2, <2>1, FS_AddElement
  <2>3. Cardinality(cut) \in Nat /\ Cardinality(cut) <= faults /\ faults \in 0..MaxFaults
    BY <2>1, FS_CardinalityType DEF IInv, TypeOK
  <2>4. Cardinality(cut') <= faults'
    BY <1>2, <2>2, <2>3
  <2> QED
    BY <1>2, <2>1, <2>2, <2>4
<1>9. TypeOK'
  <2>1. faults' \in 0..MaxFaults
    BY <1>2, ModerationAssumption DEF IInv, TypeOK
  <2> QED
    BY <1>2, <1>8, <2>1 DEF IInv, TypeOK
<1>10. RequestsAreCounted'
  <2>1. IsFiniteSet(Deciding) /\ Len(decisions) + Cardinality(Deciding) <= arrived
    BY DEF IInv, RequestsAreCounted
  <2>2. IsFiniteSet(Deciding') /\ Cardinality(Deciding') \in Nat
        /\ Cardinality(Deciding') <= Cardinality(Deciding)
    <3>1. Deciding' \subseteq Deciding
      BY <1>4
    <3> QED
      BY <2>1, <3>1, FS_Subset, FS_CardinalityType
  <2>3. Len(decisions) \in Nat /\ arrived \in Nat /\ Cardinality(Deciding) \in Nat
    BY <2>1, Rows, FS_CardinalityType DEF IInv, TypeOK
  <2>4. Len(decisions) + Cardinality(Deciding') <= arrived
    BY <2>1, <2>2, <2>3
  <2> QED
    BY <1>2, <1>4, <1>8, <2>2, <2>4 DEF RequestsAreCounted
<1>11. OneAtATime'
  BY <1>2, <1>3, <1>4 DEF IInv, OneAtATime
<1>12. ComesAfter'
  BY <1>2, <1>3, <1>7 DEF IInv, ComesAfter
<1>13. DecisionsAreKnown'
  BY <1>2, <1>3, <1>7 DEF IInv, DecisionsAreKnown
<1>14. PostsStand'
  <2>1. \A p \in Posts : Decisive(p)' = Decisive(p)
    BY <1>2 DEF Decisive
  <2>2. \A p \in Posts : Stands(p, status[p]) => Stands(p, status[p])'
    BY <1>2, <2>1 DEF Stands, FirstStatus
  <2>3. ASSUME NEW p \in Posts \ mixed, status[p] # Absent, \A z \in cut' : ~Unrecorded(z, p)
        PROVE  IF Applied(p)' = {} THEN Stands(p, status[p])'
               ELSE \A s \in Applied(p)' : status[p] = Effect(req'[s].action)
    <3>1. Applied(p)' = Applied(p) /\ r \notin Applied(p)
      BY <1>5, <1>7, <2>3
    <3>2. \A s \in Applied(p) : req'[s] = req[s]
      BY <1>4, <3>1 DEF Applied
    <3>3. IF Applied(p) = {} THEN Stands(p, status[p])
          ELSE \A s \in Applied(p) : status[p] = Effect(req[s].action)
      BY <1>7, <2>3 DEF IInv, PostsStand
    <3> QED
      BY <2>2, <3>1, <3>2, <3>3
  <2> QED
    BY <1>2, <2>3 DEF PostsStand, Unrecorded
<1>15. TracesAreLeft'
  BY <1>2, <1>3, <1>7 DEF IInv, TracesAreLeft, Queue
<1>16. AppealsStand'
  <2>1. ASSUME NEW b \in Appeals, appeal[b] # NoAppeal
        PROVE  b \in audit.opened \/ \E z \in Live' : z.op = "appeal" /\ z.on = b
    BY <1>7, <2>1 DEF IInv, AppealsStand
  <2>2. ASSUME NEW b \in Appeals, appeal[b] # NoAppeal, b \notin mixed, \A z \in cut' : ~Unlogged(z, b)
        PROVE  IF Answered(b)' = {}
               THEN appeal[b].status = IF audit.answer[b] = None THEN "OPEN" ELSE audit.answer[b]
               ELSE \A s \in Answered(b)' : appeal[b].status = req'[s].action
    <3>1. Answered(b)' = Answered(b) /\ r \notin Answered(b)
      BY <1>6, <1>7, <2>2
    <3>2. \A s \in Answered(b) : req'[s] = req[s]
      BY <1>4, <3>1 DEF Answered
    <3>3. IF Answered(b) = {}
          THEN appeal[b].status = IF audit.answer[b] = None THEN "OPEN" ELSE audit.answer[b]
          ELSE \A s \in Answered(b) : appeal[b].status = req[s].action
      BY <1>7, <2>2 DEF IInv, AppealsStand
    <3> QED
      BY <3>1, <3>2, <3>3
  <2> QED
    BY <1>2, <2>1, <2>2 DEF AppealsStand, Unlogged
<1> QED
  BY <1>9, <1>10, <1>11, <1>12, <1>13, <1>14, <1>15, <1>16 DEF IInv

-----------------------------------------------------------------------------
(* The theorems.                                                             *)

(* No step leaves the invariant.                                             *)
LEMMA NextIInv == IInv /\ [Next]_vars => IInv'
<1> SUFFICES ASSUME IInv, [Next]_vars PROVE IInv'
  OBVIOUS
<1>1. CASE UNCHANGED vars
  <2>1. UNCHANGED <<status, req, report, decisions, appeal, audit, arrived, faults, mixed, cut>>
    BY <1>1 DEF vars, moderation
  <2>2. /\ Live' = Live /\ Deciding' = Deciding
        /\ \A p : Applied(p)' = Applied(p) /\ Decisive(p)' = Decisive(p)
        /\ \A a : Answered(a)' = Answered(a)
    BY <2>1 DEF Live, Deciding, Applied, Unrecorded, Decisive, Answered, Unlogged
  <2>3. (TypeOK /\ RequestsAreCounted /\ OneAtATime /\ ComesAfter /\ DecisionsAreKnown)'
    BY <2>1, <2>2 DEF IInv, TypeOK, RequestsAreCounted, OneAtATime, ComesAfter, DecisionsAreKnown
  <2>4. PostsStand'
    <3>1. \A p \in Posts : Stands(p, status[p]) => Stands(p, status[p])'
      BY <2>1, <2>2 DEF Stands, FirstStatus
    <3> QED
      BY <2>1, <2>2, <3>1 DEF IInv, PostsStand, Unrecorded
  <2>5. (TracesAreLeft /\ AppealsStand)'
    BY <2>1, <2>2 DEF IInv, TracesAreLeft, Queue, AppealsStand, Unlogged
  <2> QED
    BY <2>3, <2>4, <2>5 DEF IInv
<1>2. CASE \E p \in Posts : CreatePost(p)
  BY <1>2, CreatePostStep
<1>3. CASE \E n \in Reports : Report(n)
  BY <1>3, ReportStep
<1>4. ASSUME NEW r \in Requests, ApplyToTarget(r) \/ RecordDecision(r) \/ SettleReport(r)
      PROVE  IInv'
  BY <1>4, ApplyStep, RecordStep, SettleStep
<1>5. ASSUME NEW r \in Requests, Answer(r) \/ Audit(r) \/ Fail(r)
      PROVE  IInv'
  BY <1>5, AnswerStep, AuditStep, FailStep
<1>6. ASSUME NEW r \in Requests, NEW a \in Appeals, NEW k \in 1..MaxArrivals, OpenAppeal(r, a, k)
      PROVE  IInv'
  BY <1>6, OpenAppealStep
<1>7. ASSUME NEW r \in Requests, NEW m \in Moderators, NEW a \in Appeals, NEW answer \in Answers,
             Review(r, m, a, answer)
      PROVE  IInv'
  BY <1>7, ReviewStep
<1>8. ASSUME NEW r \in Requests, NEW m \in Moderators, NEW t \in Targets, NEW action \in Actions,
             NEW n \in Reports \union {None}, Decide(r, m, t, action, n)
      PROVE  IInv'
  BY <1>8, DecideStep
<1> QED
  BY <1>1, <1>2, <1>3, <1>4, <1>5, <1>6, <1>7, <1>8 DEF Next

(* The invariant holds in every state.                                       *)
THEOREM Correct == Spec => []IInv
<1>1. IInv /\ [Next]_vars => IInv'
  BY NextIInv
<1> QED
  BY <1>1, InitIInv, PTL DEF Spec

(* Posts, reports, decisions, appeals and the log keep their types.          *)
THEOREM TypeCorrect == Spec => []TypeOK
<1>1. IInv => TypeOK
  BY DEF IInv
<1> QED
  BY <1>1, Correct, PTL

(* A post shows what the last decision about it says, whatever was cut short *)
(* after the record; apply before record is what makes it so.                *)
THEOREM PostsShowTheirLastDecision == Spec => []LastDecisionStands
<1>1. IInv => LastDecisionStands
  <2> SUFFICES ASSUME IInv, NEW p \in Posts, status[p] # Absent, p \notin mixed,
                      \A q \in Unfinished("decide") : ~ (q.on = p /\ q.at = "record")
               PROVE  status[p] = IF Decisive(p) = {} THEN FirstStatus(p)
                                  ELSE Effect(decisions[Latest(Decisive(p))].action)
    BY DEF LastDecisionStands
  <2>1. Applied(p) = {} /\ \A q \in cut : ~Unrecorded(q, p)
    BY DEF Applied, Unrecorded, Unfinished
  <2>2. Stands(p, status[p])
    BY <2>1 DEF IInv, PostsStand
  <2>3. CASE Decisive(p) = {}
    BY <2>2, <2>3 DEF Stands
  <2>4. CASE Decisive(p) # {}
    <3>1. PICK k \in Decisive(p) : (\A j \in Decisive(p) : j <= k)
                                   /\ status[p] = Effect(decisions[k].action)
      BY <2>2, <2>4 DEF Stands
    <3>2. \A j \in Decisive(p) : j \in Nat
      BY Rows DEF Decisive, IInv
    <3>3. \A j \in Decisive(p) : (\A i \in Decisive(p) : i <= j) => j = k
      BY <3>1, <3>2
    <3>4. Latest(Decisive(p)) \in Decisive(p)
          /\ \A i \in Decisive(p) : i <= Latest(Decisive(p))
      BY <3>1 DEF Latest
    <3>5. Latest(Decisive(p)) = k
      BY <3>3, <3>4
    <3> QED
      BY <2>4, <3>1, <3>5
  <2> QED
    BY <2>3, <2>4
<1> QED
  BY <1>1, Correct, PTL

(* Reports, the log and appeals agree with what was decided and answered.    *)
THEOREM RecordsAreTrue == Spec => []RecordMatchesDeeds
<1>1. IInv => DecisionLeavesItsTrace
  BY DEF IInv, TracesAreLeft, DecisionLeavesItsTrace, Unfinished, Live
<1>2. IInv => AnswerIsOnRecord
  <2> SUFFICES ASSUME IInv, NEW a \in Appeals, appeal[a] # NoAppeal, a \notin mixed,
                      \A q \in Unfinished("answer") \union Unfinished("appeal") :
                        ~ (q.on = a /\ q.at = "audit")
               PROVE  /\ a \in audit.opened
                      /\ appeal[a].status = IF audit.answer[a] = None THEN "OPEN" ELSE audit.answer[a]
    BY DEF AnswerIsOnRecord
  <2>1. Answered(a) = {} /\ \A q \in cut : ~Unlogged(q, a)
    BY DEF Answered, Unlogged, Unfinished
  <2>2. \A q \in Live : q.op = "appeal" => q.on # a
    <3> SUFFICES ASSUME NEW q \in Live, q.op = "appeal", q.on = a PROVE FALSE
      OBVIOUS
    <3>1. q \in Unfinished("appeal")
      BY DEF Live, Unfinished
    <3>2. q \in Opens
      BY Shapes DEF Live, IInv, RequestsAreCounted
    <3>3. q.at = "audit"
      BY <3>2, Shapes
    <3> QED
      BY <3>1, <3>3
  <2> QED
    BY <2>1, <2>2 DEF IInv, AppealsStand
<1>3. IInv => RecordMatchesDeeds
  BY <1>1, <1>2 DEF RecordMatchesDeeds
<1> QED
  BY <1>3, Correct, PTL
=============================================================================
