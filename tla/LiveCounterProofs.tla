-------------------------- MODULE LiveCounterProofs ---------------------------
(***************************************************************************)
(* Theorems about LiveCounter, for any instances, pages, calls and         *)
(* lifetime of a copy, and any number of changes and outages.              *)
(***************************************************************************)
EXTENDS LiveCounter, FiniteSets, FiniteSetTheorems, TLAPS

-----------------------------------------------------------------------------
(* The inductive invariant.                                                  *)

\* The calls of adjust that have stamped their statement and not committed it.
Pending == {c \in Calls : call[c].at = "commit"}

\* Every count that is somewhere: in the row, a copy, a call or on a page.
Counts ==
  {First, row, redis.count} \union {local[i].count : i \in Instances}
    \union {call[c].count : c \in Calls \ Pending} \union {shown[p] : p \in Pages}

\* A statement is committed once.
EachCommitsOnce ==
  IsFiniteSet(Pending) /\ row.version + Cardinality(Pending) = stamps

\* What is shown or kept was committed.
CountsAreKnown == \A k \in Counts : k.version <= row.version

\* A count that was stamped after all before it is told from them by its stamp.
StampsTellOrder ==
  \A k \in Counts :
    /\ k.asOf <= latest
    /\ \A l \in Counts : k.version < l.version /\ l.version \notin unordered => k.asOf < l.asOf

\* A call that has read the row keeps what it read before the next tick; a copy
\* in Redis was true when it was put there, and a copy in a process was so less
\* than a lifetime before it was.
CopiesAreYoung ==
  /\ \A n \in row.version..MaxAdjusts : replaced[n] = 0
  /\ \A c \in Calls : call[c].at \in {"fill", "keep"} => replaced[call[c].count.version] = 0
  /\ redis # Gone => redis.age < TTL /\ replaced[redis.count.version] <= redis.age
  /\ \A i \in Instances : local[i] # Gone =>
       local[i].age < TTL /\ replaced[local[i].count.version] <= local[i].age + (TTL - 1)

IInv == /\ TypeOK
        /\ EachCommitsOnce
        /\ CountsAreKnown
        /\ StampsTellOrder
        /\ CopiesAreYoung

-----------------------------------------------------------------------------
(* What the operators of the model give.                                     *)

(* A count, a copy and a call with another point or count are such again.    *)
LEMMA Shapes ==
  /\ First \in Count /\ First.version = 0 /\ First.asOf = 0
  /\ Gone \in Copy /\ Gone.count = First
  /\ Idle.at = None /\ Idle.count = First
  /\ \A k \in Count : Fresh(k) \in Copy /\ Fresh(k).count = k /\ Fresh(k).age = 0
  /\ \A k \in Count : k.version \in 0..MaxAdjusts /\ k.asOf \in 0..LastReading
  /\ \A y \in Copy : y.count \in Count /\ y.age \in 0..TTL
<1>1. First \in Count /\ First.version = 0 /\ First.asOf = 0
  BY LiveAssumption DEF First, Count
<1>2. Gone \in Copy /\ Gone.count = First
  BY <1>1, LiveAssumption DEF Gone, Copy
<1>3. Idle.at = None /\ Idle.count = First
  BY DEF Idle
<1>4. \A k \in Count : Fresh(k) \in Copy /\ Fresh(k).count = k /\ Fresh(k).age = 0
  BY LiveAssumption DEF Fresh, Copy
<1> QED
  BY <1>1, <1>2, <1>3, <1>4 DEF Count, Copy

(* A call that moves on.                                                     *)
LEMMA CallMoves ==
  ASSUME TypeOK, NEW c \in Calls, NEW k \in Call \union {Idle},
         call' = [call EXCEPT ![c] = k]
  PROVE  /\ call' \in [Calls -> Call \union {Idle}] /\ call'[c] = k
         /\ \A d \in Calls : d # c => call'[d] = call[d]
         /\ Pending' = IF k.at = "commit" THEN Pending \union {c} ELSE Pending \ {c}
<1>1. /\ call' \in [Calls -> Call \union {Idle}] /\ call'[c] = k
      /\ \A d \in Calls : d # c => call'[d] = call[d]
  BY DEF TypeOK
<1> QED
  BY <1>1 DEF Pending

(* A call that goes from point to point.                                     *)
LEMMA StepMoves ==
  ASSUME TypeOK, NEW c \in Calls, call[c].at # None, NEW at \in Points, NEW count \in Count,
         Step(c, at, count)
  PROVE  \E k \in Call : /\ call' = [call EXCEPT ![c] = k] /\ k.at = at /\ k.count = count
                         /\ k.on = call[c].on /\ k.op = call[c].op
<1>1. call[c] \in Call
  BY Shapes DEF TypeOK
<1> DEFINE k == [call[c] EXCEPT !.at = at, !.count = count]
<1>2. k \in Call /\ k.at = at /\ k.count = count /\ k.on = call[c].on /\ k.op = call[c].op
  BY <1>1 DEF Call
<1>3. call' = [call EXCEPT ![c] = k]
  BY DEF Step
<1> QED
  BY <1>2, <1>3

(* get has an answer from the copy of the process, or asks Redis.            *)
LEMMA LooksUp ==
  ASSUME NEW k \in Call, NEW y \in Copy
  PROVE  /\ LookUp(k, y) \in Call /\ LookUp(k, y).at \in {"answer", "redis"}
         /\ LookUp(k, y).count \in {k.count, y.count}
  BY Shapes DEF LookUp, Call, Points

-----------------------------------------------------------------------------
(* What the parts of the invariant need of a step.                           *)

(* Counts come from somewhere.                                               *)
LEMMA CountsFrom ==
  ASSUME NEW S, First \in S, row' \in S, redis'.count \in S,
         \A i \in Instances : local'[i].count \in S,
         \A c \in Calls : call'[c].at # "commit" => call'[c].count \in S,
         \A p \in Pages : shown'[p] \in S
  PROVE  Counts' \subseteq S
BY DEF Counts, Pending

(* And these are among them.                                                 *)
LEMMA CountsAre ==
  /\ First \in Counts /\ row \in Counts /\ redis.count \in Counts
  /\ \A i \in Instances : local[i].count \in Counts
  /\ \A c \in Calls : call[c].at # "commit" => call[c].count \in Counts
  /\ \A p \in Pages : shown[p] \in Counts
BY DEF Counts, Pending

(* A step that neither stamps nor commits brings no new count.               *)
LEMMA NothingNew ==
  ASSUME IInv, UNCHANGED <<row, stamps, latest, unordered>>, Pending' = Pending,
         \A c \in Pending : call'[c].count = call[c].count, Counts' \subseteq Counts
  PROVE  (EachCommitsOnce /\ CountsAreKnown /\ StampsTellOrder)'
<1>1. EachCommitsOnce'
  BY DEF IInv, EachCommitsOnce
<1>2. CountsAreKnown'
  BY DEF IInv, CountsAreKnown
<1>3. StampsTellOrder'
  BY DEF IInv, StampsTellOrder
<1> QED
  BY <1>1, <1>2, <1>3

(* Every count is one.                                                       *)
LEMMA CountsTyped ==
  ASSUME TypeOK
  PROVE  Counts \subseteq Count
<1>1. /\ First \in Count /\ row \in Count /\ redis.count \in Count
      /\ \A i \in Instances : local[i].count \in Count
      /\ \A p \in Pages : shown[p] \in Count
  BY Shapes DEF TypeOK
<1>2. \A c \in Calls : call[c].count \in Count
  <2> SUFFICES ASSUME NEW c \in Calls PROVE call[c].count \in Count
    OBVIOUS
  <2>1. CASE call[c] \in Call
    BY <2>1 DEF Call
  <2>2. CASE call[c] = Idle
    BY <2>2, Shapes
  <2> QED
    BY <2>1, <2>2 DEF TypeOK
<1> QED
  BY <1>1, <1>2 DEF Counts

(* Before the first step.                                                    *)
LEMMA InitIInv == Init => IInv
<1> SUFFICES ASSUME Init PROVE IInv
  OBVIOUS
<1>1. TypeOK
  <2>1. 0 \in 0..MaxAge /\ 0 \in 0..MaxAdjusts /\ 0 \in 0..MaxOutages
    BY LiveAssumption DEF MaxAge
  <2>2. shown \in [Pages -> Count] /\ local \in [Instances -> Copy]
    BY Shapes DEF Init
  <2>3. replaced \in [0..MaxAdjusts -> 0..MaxAge] /\ call \in [Calls -> Call \union {Idle}]
    BY <2>1 DEF Init
  <2> QED
    BY <2>1, <2>2, <2>3, Shapes DEF Init, TypeOK
<1>2. Pending = {}
  BY Shapes DEF Init, Pending, None
<1>3. EachCommitsOnce
  BY <1>2, Shapes, FS_EmptySet DEF Init, EachCommitsOnce
<1>4. Counts \subseteq {First}
  BY Shapes DEF Init, Counts
<1>5. CountsAreKnown
  BY <1>4, Shapes DEF Init, CountsAreKnown
<1>6. StampsTellOrder
  BY <1>4, Shapes DEF Init, StampsTellOrder
<1>7. CopiesAreYoung
  BY Shapes DEF Init, CopiesAreYoung, None
<1> QED
  BY <1>1, <1>3, <1>5, <1>6, <1>7 DEF IInv

-----------------------------------------------------------------------------
(* Steps.                                                                    *)

(* A call that moves on and has nothing to do with a commit: what it carries *)
(* and what it leaves in the copies and on the pages was there before, and   *)
(* what it puts in a copy is young.                                          *)
LEMMA Onward ==
  ASSUME IInv, NEW c \in Calls, NEW k \in Call \union {Idle},
         call' = [call EXCEPT ![c] = k],
         call[c].at # "commit", k.at # "commit", k.count \in Counts,
         UNCHANGED <<ledger, net>>, clients' \subseteq Pages,
         redis' \in Copy, redis'.count \in Counts,
         local' \in [Instances -> Copy], \A i \in Instances : local'[i].count \in Counts,
         shown' \in [Pages -> Count], \A p \in Pages : shown'[p] \in Counts,
         k.at \in {"fill", "keep"} => replaced[k.count.version] = 0,
         \/ redis' = redis \/ redis' = Gone
         \/ redis'.age = 0 /\ replaced[redis'.count.version] = 0,
         \A i \in Instances :
           \/ local'[i] = local[i] \/ local'[i] = Gone
           \/ local'[i].age = 0 /\ replaced[local'[i].count.version] <= TTL - 1
  PROVE  IInv'
<1>1. /\ TypeOK /\ UNCHANGED <<row, stamps, latest, replaced, unordered, up, outages>>
  BY DEF IInv, ledger, net
<1>2. /\ call' \in [Calls -> Call \union {Idle}] /\ call'[c] = k
      /\ \A d \in Calls : d # c => call'[d] = call[d]
      /\ Pending' = Pending
  <2>1. c \notin Pending
    BY DEF Pending
  <2>2. Pending' = IF k.at = "commit" THEN Pending \union {c} ELSE Pending \ {c}
    BY <1>1, CallMoves
  <2>3. /\ call' \in [Calls -> Call \union {Idle}] /\ call'[c] = k
        /\ \A d \in Calls : d # c => call'[d] = call[d]
    BY <1>1, CallMoves
  <2> QED
    BY <2>1, <2>2, <2>3
<1>3. TypeOK'
  BY <1>1, <1>2 DEF TypeOK
<1>4. Counts' \subseteq Counts
  <2>1. \A d \in Calls : call'[d].at # "commit" => call'[d].count \in Counts
    BY <1>2, CountsAre
  <2> QED
    BY <1>1, <2>1, CountsAre, CountsFrom
<1>5. (EachCommitsOnce /\ CountsAreKnown /\ StampsTellOrder)'
  <2>1. \A d \in Pending : call'[d].count = call[d].count
    BY <1>2 DEF Pending
  <2> QED
    BY <1>1, <1>2, <1>4, <2>1, NothingNew
<1>6. CopiesAreYoung'
  <2>1. \A n \in row'.version..MaxAdjusts : replaced'[n] = 0
    BY <1>1 DEF IInv, CopiesAreYoung
  <2>2. \A d \in Calls : call'[d].at \in {"fill", "keep"} => replaced'[call'[d].count.version] = 0
    BY <1>1, <1>2 DEF IInv, CopiesAreYoung
  <2>3. redis' # Gone => redis'.age < TTL /\ replaced'[redis'.count.version] <= redis'.age
    BY <1>1, LiveAssumption DEF IInv, CopiesAreYoung
  <2>4. ASSUME NEW i \in Instances, local'[i] # Gone
        PROVE  local'[i].age < TTL /\ replaced'[local'[i].count.version] <= local'[i].age + (TTL - 1)
    <3>1. CASE local'[i] = local[i]
      BY <1>1, <2>4, <3>1 DEF IInv, CopiesAreYoung
    <3>2. CASE local'[i].age = 0 /\ replaced[local'[i].count.version] <= TTL - 1
      BY <1>1, <3>2, LiveAssumption
    <3> QED
      BY <2>4, <3>1, <3>2
  <2> QED
    BY <2>1, <2>2, <2>3, <2>4 DEF CopiesAreYoung
<1> QED
  BY <1>3, <1>5, <1>6 DEF IInv

(* What the copies hold as a step begins.                                    *)
LEMMA Held ==
  ASSUME IInv
  PROVE  /\ TypeOK /\ redis \in Copy /\ redis.count \in Counts
         /\ local \in [Instances -> Copy] /\ \A i \in Instances : local[i].count \in Counts
         /\ shown \in [Pages -> Count] /\ \A p \in Pages : shown[p] \in Counts
         /\ clients \subseteq Pages /\ First \in Counts /\ row \in Counts
         /\ Counts \subseteq Count
         /\ \A c \in Calls : call[c].at # "commit" => call[c].count \in Counts
  BY CountsAre, CountsTyped DEF IInv, TypeOK

(* get is asked for the number.                                              *)
LEMMA ReadStep ==
  ASSUME IInv, NEW c \in Calls, NEW i \in Instances, Read(c, i)
  PROVE  IInv'
<1> DEFINE k == [Idle EXCEPT !.op = "read", !.on = i]
           l == [k EXCEPT !.at = "answer", !.count = local[i].count]
           m == [k EXCEPT !.at = "redis"]
<1>1. /\ l \in Call /\ l.at = "answer" /\ l.count = local[i].count
      /\ m \in Call /\ m.at = "redis" /\ m.count = First
  <2>1. local[i].count \in Count /\ First \in Count
    BY Held, Shapes
  <2> QED
    BY <2>1 DEF Idle, Call, Points
<1>2. call[c] = Idle /\ (call' = [call EXCEPT ![c] = l] \/ call' = [call EXCEPT ![c] = m])
  BY DEF Read, Begin, LookUp
<1> HIDE DEF k, l, m
<1>3. UNCHANGED <<ledger, net>> /\ UNCHANGED <<redis, local, clients, shown>>
  BY DEF Read, caches, readers
<1>4. call[c].at # "commit"
  BY <1>2, Shapes DEF None
<1>5. CASE call' = [call EXCEPT ![c] = l]
  BY <1>1, <1>3, <1>4, <1>5, Held, Onward
<1>6. CASE call' = [call EXCEPT ![c] = m]
  BY <1>1, <1>3, <1>4, <1>6, Held, Onward
<1> QED
  BY <1>2, <1>5, <1>6

(* A page connects, and is to be sent the number.                            *)
LEMMA ConnectStep ==
  ASSUME IInv, NEW c \in Calls, NEW p \in Pages, NEW i \in Instances, Connect(c, p, i)
  PROVE  IInv'
<1> DEFINE k == [Idle EXCEPT !.op = "greet", !.on = i, !.page = p]
           l == [k EXCEPT !.at = "answer", !.count = local[i].count]
           m == [k EXCEPT !.at = "redis"]
<1>1. /\ l \in Call /\ l.at = "answer" /\ l.count = local[i].count
      /\ m \in Call /\ m.at = "redis" /\ m.count = First
  <2>1. local[i].count \in Count /\ First \in Count
    BY Held, Shapes
  <2> QED
    BY <2>1 DEF Idle, Call, Points
<1>2. call[c] = Idle /\ (call' = [call EXCEPT ![c] = l] \/ call' = [call EXCEPT ![c] = m])
  BY DEF Connect, Begin, LookUp
<1> HIDE DEF k, l, m
<1>3. UNCHANGED <<ledger, net>> /\ UNCHANGED <<redis, local, shown>> /\ clients' \subseteq Pages
  BY Held DEF Connect, caches
<1>4. call[c].at # "commit"
  BY <1>2, Shapes DEF None
<1>5. CASE call' = [call EXCEPT ![c] = l]
  BY <1>1, <1>3, <1>4, <1>5, Held, Onward
<1>6. CASE call' = [call EXCEPT ![c] = m]
  BY <1>1, <1>3, <1>4, <1>6, Held, Onward
<1> QED
  BY <1>2, <1>5, <1>6

(* adjust drops the copy of its process.                                     *)
LEMMA InvalidateStep ==
  ASSUME IInv, NEW c \in Calls, Invalidate(c)
  PROVE  IInv'
<1>1. call[c].at = "invalidate" /\ Step(c, "del", First) /\ "del" \in Points /\ First \in Count
  BY Shapes DEF Invalidate, Points
<1>2. PICK k \in Call : call' = [call EXCEPT ![c] = k] /\ k.at = "del" /\ k.count = First
  BY <1>1, Held, StepMoves DEF None
<1>3. UNCHANGED <<ledger, net>> /\ UNCHANGED <<redis, clients, shown>>
  BY DEF Invalidate, readers
<1>4. /\ local' \in [Instances -> Copy]
      /\ \A i \in Instances : local'[i] = local[i] \/ local'[i] = Gone
  BY Held, Shapes DEF Invalidate
<1>5. \A i \in Instances : local'[i].count \in Counts
  BY <1>4, Held, Shapes
<1> QED
  BY <1>1, <1>2, <1>3, <1>4, <1>5, Held, Onward

(* adjust drops the copy in Redis, and asks for the number.                  *)
LEMMA DeleteCachedStep ==
  ASSUME IInv, NEW c \in Calls, DeleteCached(c)
  PROVE  IInv'
<1>1. call[c].at = "del" /\ call[c] \in Call
  BY Held, Shapes DEF DeleteCached, TypeOK, None
<1>2. call[c].on \in Instances
  BY <1>1 DEF Call
<1>3. PICK y \in Copy : y = local[call[c].on] /\ y.count \in Counts
  BY <1>2, Held
<1> DEFINE k == LookUp(call[c], y)
<1>4. k \in Call /\ k.at \in {"answer", "redis"} /\ k.count \in {call[c].count, y.count}
  BY <1>1, <1>3, LooksUp
<1>5. call' = [call EXCEPT ![c] = k]
  BY <1>3 DEF DeleteCached
<1> HIDE DEF k
<1>6. UNCHANGED <<ledger, net>> /\ UNCHANGED <<local, clients, shown>>
  BY DEF DeleteCached, readers
<1>7. redis' = redis \/ redis' = Gone
  BY DEF DeleteCached
<1>8. redis' \in Copy /\ redis'.count \in Counts
  BY <1>7, Held, Shapes
<1>9. k.count \in Counts
  BY <1>1, <1>3, <1>4, Held
<1> QED
  BY <1>1, <1>4, <1>5, <1>6, <1>7, <1>8, <1>9, Held, Onward

(* get finds a copy in Redis and keeps it, or goes to the row.               *)
LEMMA ReadCachedStep ==
  ASSUME IInv, NEW c \in Calls, ReadCached(c)
  PROVE  IInv'
<1>1. call[c].at = "redis" /\ call[c].at # None /\ {"answer", "row"} \subseteq Points
  BY DEF ReadCached, Points, None
<1>2. UNCHANGED <<ledger, net>> /\ UNCHANGED <<redis, clients, shown>>
  BY DEF ReadCached, readers
<1>3. CASE Connection /\ redis # Gone
  <2>1. /\ local' = [local EXCEPT ![call[c].on] = Fresh(redis.count)]
        /\ Step(c, "answer", redis.count) /\ redis.count \in Count
    BY <1>3, Held DEF ReadCached
  <2>2. PICK k \in Call : /\ call' = [call EXCEPT ![c] = k] /\ k.at = "answer"
                          /\ k.count = redis.count
    BY <1>1, <2>1, Held, StepMoves
  <2>3. replaced[redis.count.version] <= TTL - 1
    <3>1. redis.age < TTL /\ replaced[redis.count.version] <= redis.age /\ redis.age \in 0..TTL
      BY <1>3, Held, Shapes DEF IInv, CopiesAreYoung
    <3>2. redis.count.version \in 0..MaxAdjusts /\ replaced[redis.count.version] \in 0..MaxAge
      BY Held, Shapes DEF TypeOK
    <3> QED
      BY <3>1, <3>2, LiveAssumption DEF MaxAge
  <2>4. /\ local' \in [Instances -> Copy]
        /\ \A i \in Instances : \/ local'[i] = local[i]
                                \/ local'[i].age = 0 /\ local'[i].count = redis.count
    BY <2>1, Held, Shapes
  <2>5. \A i \in Instances :
          /\ local'[i].count \in Counts
          /\ \/ local'[i] = local[i]
             \/ local'[i].age = 0 /\ replaced[local'[i].count.version] <= TTL - 1
    BY <2>3, <2>4, Held
  <2> QED
    BY <1>1, <1>2, <2>2, <2>4, <2>5, Held, Onward
<1>4. CASE ~(Connection /\ redis # Gone)
  <2>1. Step(c, "row", First) /\ UNCHANGED local /\ First \in Count
    BY <1>4, Shapes DEF ReadCached
  <2>2. PICK k \in Call : call' = [call EXCEPT ![c] = k] /\ k.at = "row" /\ k.count = First
    BY <1>1, <2>1, Held, StepMoves
  <2> QED
    BY <1>1, <1>2, <2>1, <2>2, Held, Onward
<1> QED
  BY <1>3, <1>4

(* get reads the row.                                                        *)
LEMMA ReadRowStep ==
  ASSUME IInv, NEW c \in Calls, ReadRow(c)
  PROVE  IInv'
<1>1. /\ call[c].at = "row" /\ call[c].at # None /\ "fill" \in Points /\ Step(c, "fill", row)
      /\ row \in Count
  BY Held DEF ReadRow, Points, None
<1>2. UNCHANGED <<ledger, net>> /\ UNCHANGED <<redis, local, clients, shown>>
  BY DEF ReadRow, readers, caches
<1>3. PICK k \in Call : call' = [call EXCEPT ![c] = k] /\ k.at = "fill" /\ k.count = row
  BY <1>1, Held, StepMoves
<1>4. replaced[k.count.version] = 0
  <2>1. row.version \in row.version..MaxAdjusts
    BY <1>1, Shapes, LiveAssumption
  <2> QED
    BY <1>3, <2>1 DEF IInv, CopiesAreYoung
<1> QED
  BY <1>1, <1>2, <1>3, <1>4, Held, Onward

(* It offers what it read to Redis.                                          *)
LEMMA FillCacheStep ==
  ASSUME IInv, NEW c \in Calls, FillCache(c)
  PROVE  IInv'
<1>1. /\ call[c].at = "fill" /\ call[c].at # None /\ "keep" \in Points
      /\ Step(c, "keep", call[c].count) /\ call[c].count \in Counts /\ call[c].count \in Count
  BY Held DEF FillCache, Points, None
<1>2. UNCHANGED <<ledger, net>> /\ UNCHANGED <<local, clients, shown>>
  BY DEF FillCache, readers
<1>3. PICK k \in Call : call' = [call EXCEPT ![c] = k] /\ k.at = "keep" /\ k.count = call[c].count
  BY <1>1, Held, StepMoves
<1>4. replaced[call[c].count.version] = 0
  BY <1>1 DEF IInv, CopiesAreYoung
<1>5. redis' = redis \/ redis' = Fresh(call[c].count)
  BY DEF FillCache
<1>6. /\ redis' \in Copy /\ redis'.count \in Counts
      /\ redis' = redis \/ (redis'.age = 0 /\ replaced[redis'.count.version] = 0)
  BY <1>1, <1>4, <1>5, Held, Shapes
<1> QED
  BY <1>1, <1>2, <1>3, <1>4, <1>6, Held, Onward

(* And keeps it in its process.                                              *)
LEMMA KeepLocalStep ==
  ASSUME IInv, NEW c \in Calls, KeepLocal(c)
  PROVE  IInv'
<1>1. /\ call[c].at = "keep" /\ call[c].at # None /\ "answer" \in Points
      /\ Step(c, "answer", call[c].count) /\ call[c].count \in Counts /\ call[c].count \in Count
  BY Held DEF KeepLocal, Points, None
<1>2. UNCHANGED <<ledger, net>> /\ UNCHANGED <<redis, clients, shown>>
  BY DEF KeepLocal, readers
<1>3. PICK k \in Call : call' = [call EXCEPT ![c] = k] /\ k.at = "answer" /\ k.count = call[c].count
  BY <1>1, Held, StepMoves
<1>4. replaced[call[c].count.version] <= TTL - 1
  BY <1>1, LiveAssumption DEF IInv, CopiesAreYoung
<1>5. /\ local' \in [Instances -> Copy]
      /\ \A i \in Instances : \/ local'[i] = local[i]
                              \/ local'[i].age = 0 /\ local'[i].count = call[c].count
  BY <1>1, Held, Shapes DEF KeepLocal
<1>6. \A i \in Instances :
        /\ local'[i].count \in Counts
        /\ \/ local'[i] = local[i]
           \/ local'[i].age = 0 /\ replaced[local'[i].count.version] <= TTL - 1
  BY <1>1, <1>4, <1>5, Held
<1> QED
  BY <1>1, <1>2, <1>3, <1>5, <1>6, Held, Onward

(* A page takes the frame or leaves it.                                      *)
LEMMA AnswerStep ==
  ASSUME IInv, NEW c \in Calls, Answer(c)
  PROVE  IInv'
<1>1. call[c].at = "answer" /\ call[c].count \in Counts /\ call' = [call EXCEPT ![c] = Idle]
  BY Held DEF Answer, End
<1>2. UNCHANGED <<ledger, net>> /\ UNCHANGED <<redis, local, clients>>
  BY DEF Answer, caches
<1>3. \A p \in Pages : shown'[p] \in {shown[p], call[c].count}
  BY DEF Answer, Newer
<1>4. \A p \in Pages : shown'[p] \in Counts
  BY <1>1, <1>3, Held
<1>5. shown' \in [Pages -> Count]
  <2>1. shown' = [p \in Pages |-> shown'[p]]
    BY DEF Answer
  <2> QED
    BY <1>4, <2>1, Held
<1>6. Idle.at # "commit" /\ Idle.count \in Counts /\ Idle.at \notin {"fill", "keep"}
  BY Held, Shapes DEF None
<1> QED
  BY <1>1, <1>2, <1>4, <1>5, <1>6, Held, Onward

(* A statement is stamped and sent.                                          *)
LEMMA AdjustStep ==
  ASSUME IInv, NEW c \in Calls, NEW i \in Instances, Adjust(c, i)
  PROVE  IInv'
<1>1. /\ TypeOK /\ stamps < MaxAdjusts /\ stamps' = stamps + 1 /\ call[c] = Idle
      /\ UNCHANGED <<row, latest, replaced, unordered, redis, local, clients, shown, up, outages>>
  BY DEF Adjust, Begin, caches, readers, net, IInv
<1>2. stamps \in 0..MaxAdjusts /\ stamps' \in 1..MaxAdjusts /\ 0 \in 0..MaxAdjusts
  BY <1>1, LiveAssumption DEF TypeOK
<1>0. PICK s \in 1..LastReading :
        Begin(c, [Idle EXCEPT !.op = "adjust", !.on = i, !.at = "commit",
                              !.count = [version |-> 0, asOf |-> s]])
  BY DEF Adjust
<1> DEFINE k == [Idle EXCEPT !.op = "adjust", !.on = i, !.at = "commit",
                             !.count = [version |-> 0, asOf |-> s]]
<1>3. k \in Call /\ k.at = "commit"
  <2>1. [version |-> 0, asOf |-> s] \in Count
    BY <1>2, LiveAssumption DEF Count
  <2> QED
    BY <2>1 DEF Idle, Call, Points
<1>4. call' = [call EXCEPT ![c] = k]
  BY <1>0 DEF Begin
<1> HIDE DEF k
<1>5. c \notin Pending
  BY <1>1, Shapes DEF Pending, None
<1>6. /\ call' \in [Calls -> Call \union {Idle}] /\ call'[c] = k
      /\ \A d \in Calls : d # c => call'[d] = call[d]
      /\ Pending' = Pending \union {c}
  <2>1. Pending' = IF k.at = "commit" THEN Pending \union {c} ELSE Pending \ {c}
    BY <1>1, <1>3, <1>4, CallMoves
  <2> QED
    BY <1>1, <1>3, <1>4, <2>1, CallMoves
<1>7. TypeOK'
  BY <1>1, <1>2, <1>6 DEF TypeOK
<1>8. Counts' \subseteq Counts
  <2>1. \A d \in Calls : call'[d].at # "commit" => call'[d].count \in Counts
    BY <1>3, <1>6, CountsAre
  <2> QED
    BY <1>1, <2>1, CountsAre, CountsFrom
<1>9. EachCommitsOnce'
  <2>1. IsFiniteSet(Pending') /\ Cardinality(Pending') = Cardinality(Pending) + 1
    BY <1>5, <1>6, FS_AddElement DEF IInv, EachCommitsOnce
  <2>2. Cardinality(Pending) \in Nat /\ row.version \in 0..MaxAdjusts
    BY <1>1, Shapes, FS_CardinalityType DEF IInv, EachCommitsOnce, TypeOK
  <2> QED
    BY <1>1, <1>2, <2>1, <2>2 DEF IInv, EachCommitsOnce
<1>10. (CountsAreKnown /\ StampsTellOrder)'
  BY <1>1, <1>8 DEF IInv, CountsAreKnown, StampsTellOrder
<1>11. CopiesAreYoung'
  BY <1>1, <1>3, <1>6 DEF IInv, CopiesAreYoung
<1> QED
  BY <1>7, <1>9, <1>10, <1>11 DEF IInv

(* The row is changed: the count it held begins to be an old one.            *)
LEMMA CommitStep ==
  ASSUME IInv, NEW c \in Calls, Commit(c)
  PROVE  IInv'
<1>1. /\ TypeOK /\ call[c].at = "commit"
      /\ row' = [version |-> row.version + 1, asOf |-> call[c].count.asOf]
      /\ IF row'.asOf > latest
           THEN latest' = row'.asOf /\ unordered' = unordered
           ELSE unordered' = unordered \union {row'.version} /\ latest' = latest
      /\ replaced' = [replaced EXCEPT ![row.version] = 0]
      /\ UNCHANGED <<stamps, redis, local, clients, shown, up, outages>>
  BY DEF Commit, caches, readers, net, IInv
<1>2. PICK k \in Call : call' = [call EXCEPT ![c] = k] /\ k.at = "invalidate" /\ k.count = First
  BY <1>1, Shapes, StepMoves DEF Commit, Points, None
<1>3. c \in Pending
  BY <1>1 DEF Pending
<1>4. /\ call' \in [Calls -> Call \union {Idle}] /\ call'[c] = k
      /\ \A d \in Calls : d # c => call'[d] = call[d]
      /\ Pending' = Pending \ {c}
  <2>1. Pending' = IF k.at = "commit" THEN Pending \union {c} ELSE Pending \ {c}
    BY <1>1, <1>2, CallMoves
  <2> QED
    BY <1>1, <1>2, <2>1, CallMoves
<1>5. IsFiniteSet(Pending') /\ Cardinality(Pending') = Cardinality(Pending) - 1
  BY <1>3, <1>4, FS_RemoveElement DEF IInv, EachCommitsOnce
<1>6. /\ row.version \in 0..MaxAdjusts /\ row.asOf \in 0..LastReading /\ stamps \in 0..MaxAdjusts
      /\ Cardinality(Pending) \in Nat /\ Cardinality(Pending') \in Nat
      /\ row.version + Cardinality(Pending) = stamps
  BY <1>1, <1>5, Shapes, FS_CardinalityType DEF IInv, EachCommitsOnce, TypeOK
<1>7. /\ row'.version = row.version + 1 /\ row'.asOf = call[c].count.asOf
      /\ row'.version \in 0..MaxAdjusts /\ row'.asOf \in 0..LastReading /\ row' \in Count
      /\ row'.version + Cardinality(Pending') = stamps
  <2>1. row.version + 1 \in 0..MaxAdjusts
    BY <1>5, <1>6, LiveAssumption
  <2>2. call[c].count \in Count
    BY <1>1, Shapes DEF TypeOK, Call, None
  <2>3. call[c].count.asOf \in 0..LastReading
    BY <2>2, Shapes
  <2> QED
    BY <1>1, <1>5, <1>6, <2>1, <2>3 DEF Count
<1>8. /\ replaced' \in [0..MaxAdjusts -> 0..MaxAge]
      /\ \A n \in 0..MaxAdjusts : replaced'[n] = IF n = row.version THEN 0 ELSE replaced[n]
      /\ \A n \in 0..MaxAdjusts : replaced'[n] <= replaced[n] /\ replaced[n] \in 0..MaxAge
                                  /\ (replaced[n] = 0 => replaced'[n] = 0)
  <2>1. replaced \in [0..MaxAdjusts -> 0..MaxAge] /\ 0 \in 0..MaxAge
    BY <1>1, LiveAssumption DEF TypeOK, MaxAge
  <2>2. /\ replaced' \in [0..MaxAdjusts -> 0..MaxAge]
        /\ \A n \in 0..MaxAdjusts : replaced'[n] = IF n = row.version THEN 0 ELSE replaced[n]
    BY <1>1, <2>1
  <2>3. \A n \in 0..MaxAdjusts : replaced[n] \in 0..MaxAge
    BY <2>1
  <2> QED
    BY <2>2, <2>3 DEF MaxAge
<1>9. TypeOK'
  <2>1. latest' \in 0..LastReading /\ unordered' \subseteq 0..MaxAdjusts
    BY <1>1, <1>7 DEF TypeOK
  <2> QED
    BY <1>1, <1>4, <1>7, <1>8, <2>1 DEF TypeOK
<1>10. Counts' \subseteq Counts \union {row'}
  <2> DEFINE S == Counts \union {row'}
  <2>1. \A d \in Calls : call'[d].at # "commit" => call'[d].count \in S
    BY <1>2, <1>4, CountsAre
  <2>2. /\ First \in S /\ row' \in S /\ redis'.count \in S
        /\ \A i \in Instances : local'[i].count \in S
        /\ \A p \in Pages : shown'[p] \in S
    BY <1>1, CountsAre
  <2> HIDE DEF S
  <2>3. Counts' \subseteq S
    BY <2>1, <2>2, CountsFrom
  <2> QED
    BY <2>3 DEF S
<1>11. EachCommitsOnce'
  BY <1>1, <1>5, <1>7 DEF EachCommitsOnce
<1>12. \A k2 \in Counts : k2.version <= row.version /\ k2.version \in Nat /\ k2.asOf \in Nat
  BY <1>1, CountsTyped, Shapes DEF IInv, CountsAreKnown
<1>13. CountsAreKnown'
  <2>1. \A k2 \in Counts : k2.version <= row'.version
    BY <1>6, <1>7, <1>12
  <2> QED
    BY <1>6, <1>7, <1>10, <2>1 DEF CountsAreKnown
<1>14. StampsTellOrder'
  <2>1. \A k2 \in Counts : /\ k2.asOf <= latest
                           /\ \A l \in Counts : k2.version < l.version /\ l.version \notin unordered
                                                => k2.asOf < l.asOf
    BY DEF IInv, StampsTellOrder
  <2>2. /\ latest \in Nat /\ latest' \in Nat /\ row'.asOf \in Nat /\ row'.version \in Nat
        /\ latest <= latest' /\ row'.asOf <= latest' /\ unordered \subseteq unordered'
        /\ row'.version \notin unordered' => latest < row'.asOf
    BY <1>1, <1>7 DEF TypeOK
  <2>3. \A k2 \in Counts : k2.asOf <= latest' /\ k2.version < row'.version
    BY <1>6, <1>7, <1>12, <2>1, <2>2
  <2>4. \A k2 \in Counts' : k2.asOf <= latest'
    BY <1>10, <2>2, <2>3
  <2>5. ASSUME NEW k2 \in Counts', NEW l \in Counts',
               k2.version < l.version, l.version \notin unordered'
        PROVE  k2.asOf < l.asOf
    <3>1. CASE k2 \in Counts /\ l \in Counts
      BY <2>1, <2>2, <2>5, <3>1
    <3>2. CASE k2 \in Counts /\ l = row'
      BY <1>12, <2>1, <2>2, <2>5, <3>2
    <3>3. CASE k2 = row'
      BY <1>10, <1>12, <2>2, <2>3, <2>5, <3>3
    <3> QED
      BY <1>10, <3>1, <3>2, <3>3
  <2> QED
    BY <2>4, <2>5 DEF StampsTellOrder
<1>15. CopiesAreYoung'
  <2>1. \A n \in row'.version..MaxAdjusts : replaced'[n] = 0
    <3> SUFFICES ASSUME NEW n \in row'.version..MaxAdjusts PROVE replaced'[n] = 0
      OBVIOUS
    <3>1. n \in row.version..MaxAdjusts /\ n \in 0..MaxAdjusts
      BY <1>6, <1>7
    <3>2. replaced[n] = 0
      BY <3>1 DEF IInv, CopiesAreYoung
    <3> QED
      BY <1>8, <3>1, <3>2
  <2>2. \A k2 \in Counts : k2.version \in 0..MaxAdjusts
    BY <1>1, CountsTyped, Shapes
  <2>3. ASSUME NEW d \in Calls, call'[d].at \in {"fill", "keep"}
        PROVE  replaced'[call'[d].count.version] = 0
    <3>1. d # c /\ call'[d] = call[d]
      BY <1>2, <1>4, <2>3
    <3>2. replaced[call[d].count.version] = 0 /\ call[d].count \in Counts
      BY <2>3, <3>1, CountsAre DEF IInv, CopiesAreYoung
    <3> QED
      BY <1>8, <2>2, <3>1, <3>2
  <2>4. redis' # Gone => redis'.age < TTL /\ replaced'[redis'.count.version] <= redis'.age
    <3>1. redis.count.version \in 0..MaxAdjusts /\ redis.age \in Nat
      BY <2>2, Held, Shapes
    <3>2. redis # Gone => redis.age < TTL /\ replaced[redis.count.version] <= redis.age
      BY DEF IInv, CopiesAreYoung
    <3> QED
      BY <1>1, <1>8, <3>1, <3>2 DEF MaxAge
  <2>5. ASSUME NEW i \in Instances, local'[i] # Gone
        PROVE  local'[i].age < TTL /\ replaced'[local'[i].count.version] <= local'[i].age + (TTL - 1)
    <3>1. local[i].count.version \in 0..MaxAdjusts /\ local[i].age \in Nat
      BY <2>2, Held, Shapes
    <3>2. local[i].age < TTL /\ replaced[local[i].count.version] <= local[i].age + (TTL - 1)
      BY <1>1, <2>5 DEF IInv, CopiesAreYoung
    <3> QED
      BY <1>1, <1>8, <3>1, <3>2, LiveAssumption DEF MaxAge
  <2> QED
    BY <2>1, <2>3, <2>4, <2>5 DEF CopiesAreYoung
<1> QED
  BY <1>9, <1>11, <1>13, <1>14, <1>15 DEF IInv

(* A page goes: the call that was to greet it has nobody to answer.          *)
LEMMA DisconnectStep ==
  ASSUME IInv, NEW p \in Pages, Disconnect(p)
  PROVE  IInv'
<1>1. /\ TypeOK /\ clients' \subseteq Pages
      /\ UNCHANGED <<row, stamps, latest, replaced, unordered, redis, local, shown, up, outages>>
  BY DEF Disconnect, caches, ledger, net, IInv, TypeOK
<1>2. \A c \in Calls : /\ call'[c] \in Call \union {Idle}
                       /\ call'[c].at = call[c].at /\ call'[c].count = call[c].count
  <2> SUFFICES ASSUME NEW c \in Calls
               PROVE  /\ call'[c] \in Call \union {Idle}
                      /\ call'[c].at = call[c].at /\ call'[c].count = call[c].count
    OBVIOUS
  <2>1. call'[c] = call[c] \/ call'[c] = [call[c] EXCEPT !.page = None]
    BY DEF Disconnect
  <2>2. CASE call[c] = Idle
    <3>1. [Idle EXCEPT !.page = None] = Idle
      BY DEF Idle
    <3> QED
      BY <2>1, <2>2, <3>1
  <2>3. CASE call[c] \in Call
    <3>1. /\ [call[c] EXCEPT !.page = None] \in Call
          /\ [call[c] EXCEPT !.page = None].at = call[c].at
          /\ [call[c] EXCEPT !.page = None].count = call[c].count
      BY <2>3 DEF Call
    <3> QED
      BY <2>1, <2>3, <3>1
  <2> QED
    BY <1>1, <2>2, <2>3 DEF TypeOK
<1>3. call' \in [Calls -> Call \union {Idle}]
  <2>1. call' = [c \in Calls |-> call'[c]]
    BY DEF Disconnect
  <2> QED
    BY <1>2, <2>1
<1>4. TypeOK'
  BY <1>1, <1>3 DEF TypeOK
<1>5. Pending' = Pending
  BY <1>2 DEF Pending
<1>6. Counts' \subseteq Counts
  BY <1>1, <1>2, CountsAre, CountsFrom
<1>7. (EachCommitsOnce /\ CountsAreKnown /\ StampsTellOrder)'
  <2>1. \A c \in Pending : call'[c].count = call[c].count
    BY <1>2 DEF Pending
  <2> QED
    BY <1>1, <1>5, <1>6, <2>1, NothingNew
<1>8. CopiesAreYoung'
  BY <1>1, <1>2 DEF IInv, CopiesAreYoung
<1> QED
  BY <1>4, <1>7, <1>8 DEF IInv

(* The clock strikes: copies age, and so does what they are copies of.       *)
LEMMA TickStep ==
  ASSUME IInv, Tick
  PROVE  IInv'
<1>1. /\ TypeOK /\ \A c \in Calls : call[c].at \notin {"fill", "keep"}
      /\ UNCHANGED <<row, stamps, latest, unordered, call, clients, shown, up, outages>>
      /\ redis' = Aged(redis)
  BY DEF Tick, readers, net, IInv
<1>2. ASSUME NEW y \in Copy
      PROVE  /\ Aged(y) \in Copy /\ Aged(y).count \in {y.count, First}
             /\ Aged(y) # Gone =>
                  y # Gone /\ Aged(y).age = y.age + 1 /\ Aged(y).age < TTL /\ Aged(y).count = y.count
  <2>1. y.age \in 0..TTL /\ y.count \in Count /\ TTL \in Nat \ {0}
    BY Shapes, LiveAssumption
  <2>2. CASE y.age + 1 >= TTL
    BY <2>2, Shapes DEF Aged
  <2>3. CASE ~(y.age + 1 >= TTL)
    <3> DEFINE z == [y EXCEPT !.age = y.age + 1]
    <3>1. z \in Copy /\ z.age = y.age + 1 /\ z.count = y.count
      BY <2>1, <2>3 DEF Copy
    <3>2. Aged(y) = z
      BY <2>3 DEF Aged
    <3>3. y # Gone
      BY <2>1, <2>3 DEF Gone
    <3> QED
      BY <2>1, <2>3, <3>1, <3>2, <3>3
  <2> QED
    BY <2>2, <2>3
<1>3. local' = [i \in Instances |-> Aged(local[i])] /\ \A i \in Instances : local'[i] = Aged(local[i])
  BY DEF Tick
<1>4. /\ redis' \in Copy /\ redis'.count \in Counts
      /\ local' \in [Instances -> Copy] /\ \A i \in Instances : local'[i].count \in Counts
  BY <1>1, <1>2, <1>3, Held
<1>5. /\ replaced' \in [0..MaxAdjusts -> 0..MaxAge]
      /\ \A n \in 0..MaxAdjusts : /\ replaced'[n] <= replaced[n] + 1
                                  /\ replaced[n] \in Nat /\ replaced'[n] \in Nat
                                  /\ (n >= row.version => replaced'[n] = 0)
  <2>1. replaced \in [0..MaxAdjusts -> 0..MaxAge] /\ MaxAge \in Nat
    BY <1>1, LiveAssumption DEF TypeOK, MaxAge
  <2>2. \A n \in 0..MaxAdjusts : replaced[n] \in 0..MaxAge
    BY <2>1
  <2>3. replaced' = [n \in 0..MaxAdjusts |-> IF n < row.version THEN Older(replaced[n]) ELSE 0]
    BY <2>1 DEF Tick
  <2>4. \A n \in 0..MaxAdjusts : Older(replaced[n]) \in 0..MaxAge /\ Older(replaced[n]) <= replaced[n] + 1
    BY <2>1, <2>2 DEF Older
  <2>5. row.version \in Nat
    BY <1>1, Shapes DEF TypeOK
  <2>6. replaced' \in [0..MaxAdjusts -> 0..MaxAge]
    BY <2>1, <2>3, <2>4
  <2>7. \A n \in 0..MaxAdjusts : replaced'[n] <= replaced[n] + 1 /\ (n >= row.version => replaced'[n] = 0)
    BY <2>1, <2>2, <2>3, <2>4, <2>5
  <2>8. \A n \in 0..MaxAdjusts : replaced'[n] \in 0..MaxAge
    BY <2>6
  <2> QED
    BY <2>1, <2>2, <2>6, <2>7, <2>8
<1>6. TypeOK'
  BY <1>1, <1>4, <1>5 DEF TypeOK
<1>7. Counts' \subseteq Counts
  BY <1>1, <1>4, CountsAre, CountsFrom
<1>8. Pending' = Pending
  BY <1>1 DEF Pending
<1>9. (EachCommitsOnce /\ CountsAreKnown /\ StampsTellOrder)'
  BY <1>1, <1>7, <1>8, NothingNew
<1>10. CopiesAreYoung'
  <2>1. \A n \in row'.version..MaxAdjusts : replaced'[n] = 0
    <3>1. row.version \in Nat
      BY <1>1, Shapes DEF TypeOK
    <3> QED
      BY <1>1, <1>5, <3>1
  <2>2. ASSUME redis' # Gone
        PROVE  redis'.age < TTL /\ replaced'[redis'.count.version] <= redis'.age
    <3>1. redis \in Copy /\ redis.age \in Nat /\ redis.count.version \in 0..MaxAdjusts
      BY Held, Shapes
    <3>2. /\ redis # Gone /\ redis'.age = redis.age + 1 /\ redis'.age < TTL
          /\ redis'.count = redis.count
      BY <1>1, <1>2, <2>2, <3>1
    <3>3. replaced[redis.count.version] <= redis.age
      BY <3>2 DEF IInv, CopiesAreYoung
    <3> QED
      BY <1>5, <3>1, <3>2, <3>3
  <2>3. ASSUME NEW i \in Instances, local'[i] # Gone
        PROVE  local'[i].age < TTL /\ replaced'[local'[i].count.version] <= local'[i].age + (TTL - 1)
    <3>1. local[i] \in Copy /\ local[i].age \in Nat /\ local[i].count.version \in 0..MaxAdjusts
      BY Held, Shapes
    <3>2. /\ local[i] # Gone /\ local'[i].age = local[i].age + 1 /\ local'[i].age < TTL
          /\ local'[i].count = local[i].count
      BY <1>2, <1>3, <2>3, <3>1
    <3>3. replaced[local[i].count.version] <= local[i].age + (TTL - 1)
      BY <3>2 DEF IInv, CopiesAreYoung
    <3>4. /\ replaced'[local[i].count.version] <= replaced[local[i].count.version] + 1
          /\ replaced[local[i].count.version] \in Nat /\ replaced'[local[i].count.version] \in Nat
      BY <1>5, <3>1
    <3> QED
      BY <3>1, <3>2, <3>3, <3>4, LiveAssumption
  <2> QED
    BY <1>1, <2>1, <2>2, <2>3 DEF CopiesAreYoung
<1> QED
  BY <1>6, <1>9, <1>10 DEF IInv

(* Redis is lost or found again: what it holds stays.                        *)
LEMMA OutageStep ==
  ASSUME IInv, LoseRedis \/ RecoverRedis
  PROVE  IInv'
<1>1. /\ UNCHANGED <<row, stamps, latest, replaced, unordered, redis, local, call, clients, shown>>
      /\ up' \in BOOLEAN /\ outages' \in 0..MaxOutages
  <2>1. CASE LoseRedis
    <3>1. outages \in 0..MaxOutages /\ outages < MaxOutages /\ outages' = outages + 1
      BY <2>1 DEF LoseRedis, IInv, TypeOK
    <3>2. outages' \in 0..MaxOutages
      BY <3>1, LiveAssumption
    <3> QED
      BY <2>1, <3>2 DEF LoseRedis, ledger, caches, readers
  <2>2. CASE RecoverRedis
    BY <2>2 DEF RecoverRedis, ledger, caches, readers, IInv, TypeOK
  <2> QED
    BY <2>1, <2>2
<1>2. TypeOK'
  BY <1>1 DEF IInv, TypeOK
<1>3. Counts' = Counts /\ Pending' = Pending
  BY <1>1 DEF Counts, Pending
<1>4. (EachCommitsOnce /\ CountsAreKnown /\ StampsTellOrder)'
  BY <1>1, <1>3, NothingNew
<1>5. CopiesAreYoung'
  BY <1>1 DEF IInv, CopiesAreYoung
<1> QED
  BY <1>2, <1>4, <1>5 DEF IInv

-----------------------------------------------------------------------------
(* The theorems.                                                             *)

(* Every step preserves the invariant.                                       *)
LEMMA NextIInv == IInv /\ [Next]_vars => IInv'
<1> SUFFICES ASSUME IInv, [Next]_vars PROVE IInv'
  OBVIOUS
<1>1. CASE UNCHANGED vars
  <2>1. UNCHANGED <<row, stamps, redis, up, local, call, clients, shown, outages, latest, replaced, unordered>>
    BY <1>1 DEF vars
  <2>2. Counts' = Counts /\ Pending' = Pending
    BY <2>1 DEF Counts, Pending
  <2> QED
    BY <2>1, <2>2 DEF IInv, TypeOK, EachCommitsOnce, CountsAreKnown, StampsTellOrder, CopiesAreYoung
<1>2. ASSUME NEW c \in Calls, NEW i \in Instances,
             Adjust(c, i) \/ Read(c, i) \/ \E p \in Pages : Connect(c, p, i)
      PROVE  IInv'
  BY <1>2, AdjustStep, ReadStep, ConnectStep
<1>3. ASSUME NEW c \in Calls, Continue(c)
      PROVE  IInv'
  BY <1>3, CommitStep, InvalidateStep, DeleteCachedStep, ReadCachedStep, ReadRowStep,
     FillCacheStep, KeepLocalStep, AnswerStep DEF Continue
<1>4. ASSUME NEW p \in Pages, Disconnect(p)
      PROVE  IInv'
  BY <1>4, DisconnectStep
<1> QED
  BY <1>1, <1>2, <1>3, <1>4, TickStep, OutageStep DEF Next

(* The counts that are kept and shown are as IInv says, however the calls,   *)
(* the clock and the outages of Redis interleave.                            *)
THEOREM Correct == Spec => []IInv
<1> QED
  BY InitIInv, NextIInv, PTL DEF Spec

(* Every variable keeps its type.                                            *)
THEOREM TypeCorrect == Spec => []TypeOK
<1>1. IInv => TypeOK
  BY DEF IInv
<1> QED
  BY <1>1, Correct, PTL

(* No process answers with a count that was replaced two lifetimes of a copy *)
(* ago, whatever Redis misses.                                               *)
THEOREM StaleForTwoLifetimes == Spec => []ServedWithinTwoLifetimes
<1>1. IInv => ServedWithinTwoLifetimes
  <2> SUFFICES ASSUME IInv, NEW i \in Instances, local[i] # Gone
               PROVE  replaced[local[i].count.version] < MaxAge
    BY DEF ServedWithinTwoLifetimes
  <2>1. /\ local[i].age < TTL
        /\ replaced[local[i].count.version] <= local[i].age + (TTL - 1)
    BY DEF IInv, CopiesAreYoung
  <2>2. local[i].age \in Nat /\ local[i].count.version \in 0..MaxAdjusts
    BY Held, Shapes
  <2>3. replaced[local[i].count.version] \in 0..MaxAge /\ MaxAge \in Nat
    BY <2>2, LiveAssumption DEF IInv, TypeOK, MaxAge
  <2> QED
    BY <2>1, <2>2, <2>3, LiveAssumption DEF MaxAge
<1> QED
  BY <1>1, Correct, PTL

(* A page goes back to an older count only from one whose stamp is no later  *)
(* than a stamp committed before it.                                         *)
THEOREM FigureNeverGoesBack == Spec => FigureMovesForward
<1> DEFINE Forward == \A p \in Pages : LiveCount(p)' >= LiveCount(p) \/ LiveCount(p) \in unordered
<1>1. IInv /\ [Next]_vars => [Forward]_vars
  <2> SUFFICES ASSUME IInv, Next, NEW p \in Pages, shown[p].version \notin unordered
               PROVE  shown'[p].version >= shown[p].version
    BY DEF LiveCount
  <2>1. shown[p] \in Counts /\ shown[p].version \in Nat /\ shown[p].asOf \in Nat
    BY Held, Shapes
  <2>2. CASE shown' = shown
    BY <2>1, <2>2
  <2>3. ASSUME NEW c \in Calls, Answer(c)
        PROVE  shown'[p].version >= shown[p].version
    <3>1. shown'[p] = shown[p] \/ (shown'[p] = call[c].count /\ call[c].count.asOf >= shown[p].asOf)
      BY <2>3 DEF Answer, Newer
    <3>2. /\ call[c].count \in Counts
          /\ call[c].count.version \in Nat /\ call[c].count.asOf \in Nat
      BY <2>3, Held, Shapes DEF Answer
    <3>3. call[c].count.version < shown[p].version => call[c].count.asOf < shown[p].asOf
      BY <2>1, <3>2 DEF IInv, StampsTellOrder
    <3> QED
      BY <2>1, <3>1, <3>2, <3>3
  <2>4. ASSUME NEW c \in Calls, Continue(c), ~Answer(c)
        PROVE  shown' = shown
    BY <2>4 DEF Continue, Commit, Invalidate, DeleteCached, ReadCached, ReadRow, FillCache,
                KeepLocal, readers
  <2>5. ASSUME NEW c \in Calls, NEW i \in Instances,
               Adjust(c, i) \/ Read(c, i) \/ \E q \in Pages : Connect(c, q, i)
        PROVE  shown' = shown
    BY <2>5 DEF Adjust, Read, Connect, readers
  <2>6. ASSUME (\E q \in Pages : Disconnect(q)) \/ Tick \/ LoseRedis \/ RecoverRedis
        PROVE  shown' = shown
    BY <2>6 DEF Disconnect, Tick, LoseRedis, RecoverRedis, readers
  <2> QED
    BY <2>2, <2>3, <2>4, <2>5, <2>6 DEF Next
<1>2. Spec => [][Forward]_vars
  BY <1>1, Correct, PTL DEF Spec
<1> QED
  BY <1>2 DEF FigureMovesForward
=============================================================================
