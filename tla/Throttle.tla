------------------------------- MODULE Throttle -------------------------------
(***************************************************************************)
(* What a request passes before its handler: the throttle, whose counters  *)
(* live in Redis and, when Redis fails, in the process, and the guards     *)
(* after it, in the order of app.module.ts. One client, one route.         *)
(*                                                                         *)
(* An increment is three round trips to Redis; others run between them,    *)
(* any of them may fail, and keys expire at any moment after they were     *)
(* given a lifetime. Bounds: a count stays at Limit + 2 once it is there;  *)
(* MaxFaults losses of Redis, failed round trips and restarts. OneTooMany, *)
(* FirstHitOnly are plausible mistakes in the definition that follows each *)
(* of them; only the mutation runs use them.                               *)
(***************************************************************************)
EXTENDS Integers

CONSTANTS Instances, Calls, Limit, MaxFaults

\* Redis and nowhere are no instances.
ASSUME ThrottleAssumption ==
  /\ Limit \in Nat \ {0} /\ MaxFaults \in Nat
  /\ Instances \intersect {"redis", "none"} = {}

VARIABLES up,        \* Redis can be reached
          window,    \* the counter's key: its hits, and whether it will expire
          blocked,   \* the block key exists
          memory,    \* the fallback counter of each instance; 0 when it has expired
          call,      \* a request: the step it is at, where, and the hits it was told
          admitted,  \* history: admitted by Redis in this window, by each instance in its own
          mishaps

throttle == <<up, window, blocked, memory, call, admitted, mishaps>>

Idle     == [at |-> "idle", on |-> "none", hits |-> 0]
NoWindow == [hits |-> 0, expires |-> FALSE]
Counts   == 0..Limit + 2
Places   == Instances \union {"redis"}

ThrottleTypeOK ==
  /\ up \in BOOLEAN /\ blocked \in BOOLEAN /\ mishaps \in 0..MaxFaults
  /\ window \in [hits : Counts, expires : BOOLEAN]
  /\ memory \in [Instances -> Counts] /\ admitted \in [Places -> 0..Limit + 3]
  /\ call \in [Calls -> [at : {"idle", "pttl", "incr", "pexpire", "block", "handler"},
                         on : Instances \union {"none"}, hits : Counts]]

ThrottleInit ==
  /\ up = TRUE /\ blocked = FALSE /\ mishaps = 0 /\ window = NoWindow
  /\ memory = [i \in Instances |-> 0] /\ admitted = [p \in Places |-> 0]
  /\ call = [q \in Calls |-> Idle]

OneMore(n) == IF n = Limit + 2 THEN n ELSE n + 1

OneTooMany(hits) == hits > Limit + 1
OverLimit(hits) == hits > Limit

Goes(q, step) == call' = [call EXCEPT ![q].at = step]
Counted(place, hits) ==
  admitted' = IF OverLimit(hits) THEN admitted ELSE [admitted EXCEPT ![place] = @ + 1]

\* A request that is not throttled: a guard refuses it, or it reaches its handler.
\* What the guards answer is chosen here: nothing looks at the request before.
Through(c, passes) == IF passes THEN [c EXCEPT !.at = "handler"] ELSE Idle

\* incrementInMemory, and what the guard does with its answer.
InMemory(q, i, passes) ==
  LET hits == OneMore(memory[i]) IN
  /\ memory' = [memory EXCEPT ![i] = hits]
  /\ Counted(i, hits)
  /\ call' = [call EXCEPT ![q] = IF OverLimit(hits) THEN Idle
                                 ELSE Through([Idle EXCEPT !.on = i], passes)]

-----------------------------------------------------------------------------
(* The guards. A request: what it wants, what it carries, whose it is.       *)

\* The depth of the object that carries a prohibited name; Clean without one.
Clean    == -1
MaxDepth == 6
Depths   == {Clean, 0, MaxDepth, MaxDepth + 1}

Requests == [writes : BOOLEAN, prohibited : Depths, origin : {"none", "own", "other"},
          who : {"nobody", "member", "moderator"}, public : BOOLEAN, needsRole : BOOLEAN]

\* Deeper than MaxDepth nothing is searched.
FindProhibitedFields(k) == k.prohibited \in 0..MaxDepth
ProhibitedFieldsGuard(k) == ~ FindProhibitedFields(k)
CsrfGuard(k) == k.writes => k.origin # "other"
SessionGuard(k) == k.public \/ k.who # "nobody"
RolesGuard(k)   == k.needsRole => k.who = "moderator"

Passes(k) == ProhibitedFieldsGuard(k) /\ CsrfGuard(k) /\ SessionGuard(k) /\ RolesGuard(k)

\* The answers the guards may give.
Verdicts == {Passes(k) : k \in Requests}

Arrive(q, i, passes) ==
  /\ call[q] = Idle
  /\ IF up THEN /\ call' = [call EXCEPT ![q] = [at |-> "pttl", on |-> i, hits |-> 0]]
                /\ UNCHANGED <<memory, admitted>>
           ELSE InMemory(q, i, passes)
  /\ UNCHANGED <<up, window, blocked, mishaps>>

Handled(q) ==
  /\ call[q].at = "handler"
  /\ call' = [call EXCEPT ![q] = Idle]
  /\ UNCHANGED <<up, window, blocked, memory, admitted, mishaps>>

-----------------------------------------------------------------------------
(* increment                                                                 *)

LookAtBlock(q) ==
  /\ call[q].at = "pttl" /\ up
  /\ IF blocked THEN call' = [call EXCEPT ![q] = Idle] ELSE Goes(q, "incr")
  /\ UNCHANGED <<up, window, blocked, memory, admitted, mishaps>>

FirstHitOnly(hits) == hits = 1
NeedsLife(hits) == ~ window.expires

Counting(c, hits, passes) ==
  IF OverLimit(hits) THEN [c EXCEPT !.at = "block"] ELSE Through(c, passes)

\* incr and pttl are one transaction; their answer decides.
Hit(q, passes) ==
  LET hits == OneMore(window.hits) IN
  /\ call[q].at = "incr" /\ up
  /\ window' = [window EXCEPT !.hits = hits]
  /\ Counted("redis", hits)
  /\ call' = [call EXCEPT ![q] = IF NeedsLife(hits) THEN [@ EXCEPT !.at = "pexpire", !.hits = hits]
                                 ELSE Counting(@, hits, passes)]
  /\ UNCHANGED <<up, blocked, memory, mishaps>>

\* pexpire has no effect on a key that is gone.
GiveLife(q, passes) ==
  /\ call[q].at = "pexpire" /\ up
  /\ window' = [window EXCEPT !.expires = @ \/ window.hits > 0]
  /\ call' = [call EXCEPT ![q] = [Counting(@, @.hits, passes) EXCEPT !.hits = 0]]
  /\ UNCHANGED <<up, blocked, memory, admitted, mishaps>>

SetBlock(q) ==
  /\ call[q].at = "block" /\ up
  /\ blocked' = TRUE
  /\ call' = [call EXCEPT ![q] = Idle]
  /\ UNCHANGED <<up, window, memory, admitted, mishaps>>

\* A round trip fails: the whole increment is done again, in memory.
FallBack(q, passes) ==
  /\ call[q].at \in {"pttl", "incr", "pexpire", "block"}
  /\ \/ ~ up /\ UNCHANGED mishaps
     \/ up /\ mishaps < MaxFaults /\ mishaps' = mishaps + 1
  /\ InMemory(q, call[q].on, passes)
  /\ UNCHANGED <<up, window, blocked>>

-----------------------------------------------------------------------------
(* What happens around it                                                    *)

WindowEnds ==
  /\ window.expires
  /\ window' = NoWindow /\ admitted' = [admitted EXCEPT !["redis"] = 0]
  /\ UNCHANGED <<up, blocked, memory, call, mishaps>>

BlockEnds ==
  /\ blocked /\ blocked' = FALSE
  /\ UNCHANGED <<up, window, memory, call, admitted, mishaps>>

MemoryEnds(i) ==
  /\ memory[i] > 0
  /\ memory' = [memory EXCEPT ![i] = 0] /\ admitted' = [admitted EXCEPT ![i] = 0]
  /\ UNCHANGED <<up, window, blocked, call, mishaps>>

\* Redis keeps its keys, or comes back empty.
RedisLost ==
  /\ up /\ up' = FALSE
  /\ mishaps < MaxFaults /\ mishaps' = mishaps + 1
  /\ \/ UNCHANGED <<window, blocked, admitted>>
     \/ window' = NoWindow /\ blocked' = FALSE /\ admitted' = [admitted EXCEPT !["redis"] = 0]
  /\ UNCHANGED <<memory, call>>

RedisBack ==
  /\ ~ up /\ up' = TRUE
  /\ UNCHANGED <<window, blocked, memory, call, admitted, mishaps>>

Restart(i) ==
  /\ mishaps < MaxFaults /\ mishaps' = mishaps + 1
  /\ memory' = [memory EXCEPT ![i] = 0] /\ admitted' = [admitted EXCEPT ![i] = 0]
  /\ call' = [q \in Calls |-> IF call[q].on = i THEN Idle ELSE call[q]]
  /\ UNCHANGED <<up, window, blocked>>

Proceed(q) ==
  \/ LookAtBlock(q) \/ SetBlock(q) \/ Handled(q)
  \/ \E passes \in Verdicts : Hit(q, passes) \/ GiveLife(q, passes) \/ FallBack(q, passes)
Comes(q)   == \E i \in Instances, passes \in Verdicts : Arrive(q, i, passes)

ThrottleNext ==
  \/ \E q \in Calls : Proceed(q) \/ Comes(q)
  \/ WindowEnds \/ BlockEnds \/ RedisLost \/ RedisBack
  \/ \E i \in Instances : MemoryEnds(i) \/ Restart(i)

-----------------------------------------------------------------------------
(* Properties                                                                *)

\* Across all instances a window of the counter in Redis admits no more than
\* Limit requests, and an instance left to itself no more than Limit in its
\* own, whatever round trips overlap or fail: what the throttle promises with
\* N instances is Limit, and N + 1 times as much at worst while Redis is away.
AdmittedWithinLimit == \A p \in Places : admitted[p] <= Limit

\* No client is locked out for good: a count above the limit comes to an end,
\* even when the process was interrupted between the count and its lifetime,
\* because a later hit that finds a key without one gives it one.
LockoutEnds == window.hits > Limit ~> window.hits = 0
=============================================================================
