----------------------------- MODULE LiveCounter ----------------------------
(***************************************************************************)
(* How the one number of module A reaches a reader: the row of             *)
(* voice_counter, the copy of it in Redis, the copy each instance of the   *)
(* API keeps in its process, the announcements over Redis and the frames   *)
(* of its gateways, and the figure a page shows.                           *)
(*                                                                         *)
(* A count is the row as one commit left it: its place in the order of     *)
(* commits (version) and updatedAt, which the database client stamps when  *)
(* it sends the statement and which the page compares (asOf). The column   *)
(* has the precision of a millisecond, and every process its own clock, so *)
(* that two stamps may be equal and come in any order. The methods get and *)
(* adjust of VoiceCounterService are split at their awaits. What the       *)
(* number is, and the transaction that changes it, is the subject of       *)
(* VoiceLedger.                                                            *)
(*                                                                         *)
(* Bounds: MaxAdjusts changes of the row, LastReading as the last reading  *)
(* of a clock, MaxOutages outages of Redis.                                *)
(* TakeAnyway and AgedForever are plausible mistakes in the definition     *)
(* that follows each of them; only the mutation runs use them.             *)
(***************************************************************************)
EXTENDS Integers

CONSTANTS Instances,   \* processes of the API
          Pages,       \* open pages that watch the number
          Calls,       \* calls of get and adjust in flight
          TTL,         \* CACHE_TTL_SECONDS, in ticks of the clock
          MaxAdjusts,
          LastReading, \* of the clocks that stamp: there are 1..LastReading
          MaxOutages

ASSUME LiveAssumption == /\ TTL \in Nat \ {0}
                         /\ MaxAdjusts \in Nat /\ LastReading \in Nat /\ MaxOutages \in Nat

None    == "none"
Count   == [version : 0..MaxAdjusts, asOf : 0..LastReading]
First   == [version |-> 0, asOf |-> 0]
Copy    == [count : Count, age : 0..TTL]   \* of age TTL: gone
Gone    == [count |-> First, age |-> TTL]
MaxAge  == 2 * TTL - 1
Idle    == [op |-> "idle", on |-> None, page |-> None, at |-> None, count |-> First]
Points  == {"commit", "invalidate", "del", "redis", "row", "fill", "keep", "answer"}
Call    == [op : {"adjust", "read", "greet"}, on : Instances,
            page : Pages \union {None}, at : Points, count : Count]

VARIABLES row,       \* the committed row of voice_counter
          stamps,    \* how many statements were sent
          redis,     \* the copy under CACHE_KEY
          up,        \* Redis can be reached
          local,     \* VoiceCounterService.local of each instance
          call,      \* the calls in flight
          clients,   \* the pages whose socket is connected
          shown,     \* the count a page shows
          outages,   \* how often Redis was lost
          latest,    \* history: the latest stamp of the commits so far
          replaced,  \* history: ticks since a version was replaced, capped
          unordered  \* history: versions not stamped after all before them

vars == <<row, stamps, redis, up, local, call, clients, shown, outages,
          latest, replaced, unordered>>
caches  == <<redis, local>>
readers == <<clients, shown>>
ledger  == <<row, stamps, latest, replaced, unordered>>
net     == <<up, outages>>

TypeOK ==
  /\ row \in Count /\ stamps \in 0..MaxAdjusts
  /\ redis \in Copy /\ up \in BOOLEAN
  /\ local \in [Instances -> Copy]
  /\ call \in [Calls -> Call \union {Idle}]
  /\ clients \subseteq Pages /\ shown \in [Pages -> Count]
  /\ outages \in 0..MaxOutages
  /\ latest \in 0..LastReading /\ unordered \subseteq 0..MaxAdjusts
  /\ replaced \in [0..MaxAdjusts -> 0..MaxAge]

\* The seed has created the row, and the pages were rendered with it.
Init ==
  /\ row = First /\ stamps = 0
  /\ redis = Gone /\ up = TRUE /\ local = [i \in Instances |-> Gone]
  /\ call = [c \in Calls |-> Idle]
  /\ clients = {} /\ shown = [p \in Pages |-> row]
  /\ outages = 0
  /\ latest = 0 /\ unordered = {}
  /\ replaced = [n \in 0..MaxAdjusts |-> 0]

Fresh(count) == [count |-> count, age |-> 0]
Step(c, at, count) == call' = [call EXCEPT ![c].at = at, ![c].count = count]
Begin(c, fields)   == call[c] = Idle /\ call' = [call EXCEPT ![c] = fields]
End(c)             == call' = [call EXCEPT ![c] = Idle]

\* RedisService.connection: every use of Redis asks whether the client is ready.
Connection == up

\* get answers from the process's own copy before it awaits anything.
LookUp(call_, copy) ==
  IF copy # Gone THEN [call_ EXCEPT !.at = "answer", !.count = copy.count]
                 ELSE [call_ EXCEPT !.at = "redis"]

-----------------------------------------------------------------------------
(* VoiceCounterService.adjust; nothing calls reconcile                       *)

\* The statement is stamped when it is sent, with what the clock of its process
\* reads; the row may be locked by another.
Adjust(c, i) ==
  /\ stamps < MaxAdjusts
  /\ stamps' = stamps + 1
  /\ \E now \in 1..LastReading :
       Begin(c, [Idle EXCEPT !.op = "adjust", !.on = i, !.at = "commit",
                             !.count = [version |-> 0, asOf |-> now]])
  /\ UNCHANGED <<row, latest, replaced, unordered, caches, readers, net>>

Commit(c) ==
  /\ call[c].at = "commit"
  /\ row' = [version |-> row.version + 1, asOf |-> call[c].count.asOf]
  /\ IF row'.asOf > latest
       THEN latest' = row'.asOf /\ UNCHANGED unordered
       ELSE unordered' = unordered \union {row'.version} /\ UNCHANGED latest
  /\ replaced' = [replaced EXCEPT ![row.version] = 0]
  /\ Step(c, "invalidate", First)
  /\ UNCHANGED <<stamps, caches, readers, net>>

Invalidate(c) ==
  /\ call[c].at = "invalidate"
  /\ local' = [local EXCEPT ![call[c].on] = Gone]
  /\ Step(c, "del", First)
  /\ UNCHANGED <<redis, ledger, readers, net>>

\* DEL, when Redis can be reached, and then get.
DeleteCached(c) ==
  /\ call[c].at = "del"
  /\ redis' = IF Connection THEN Gone ELSE redis
  /\ call' = [call EXCEPT ![c] = LookUp(@, local[@.on])]
  /\ UNCHANGED <<local, ledger, readers, net>>

-----------------------------------------------------------------------------
(* VoiceCounterService.get, for GET /voices/count or a new connection        *)

Read(c, i) ==
  /\ Begin(c, LookUp([Idle EXCEPT !.op = "read", !.on = i], local[i]))
  /\ UNCHANGED <<caches, ledger, readers, net>>

\* VoiceGateway.handleConnection: the page is in clients before the await.
Connect(c, p, i) ==
  /\ p \notin clients
  /\ clients' = clients \union {p}
  /\ Begin(c, LookUp([Idle EXCEPT !.op = "greet", !.on = i, !.page = p], local[i]))
  /\ UNCHANGED <<shown, caches, ledger, net>>

ReadCached(c) ==
  /\ call[c].at = "redis"
  /\ IF Connection /\ redis # Gone
     THEN /\ local' = [local EXCEPT ![call[c].on] = Fresh(redis.count)]
          /\ Step(c, "answer", redis.count)
     ELSE /\ Step(c, "row", First)
          /\ UNCHANGED local
  /\ UNCHANGED <<redis, ledger, readers, net>>

ReadRow(c) ==
  /\ call[c].at = "row"
  /\ Step(c, "fill", row)
  /\ UNCHANGED <<caches, ledger, readers, net>>

\* The client was taken before the row was read: the SET may not be sent, or fail.
FillCache(c) ==
  /\ call[c].at = "fill"
  /\ redis' \in {redis} \union (IF Connection THEN {Fresh(call[c].count)} ELSE {})
  /\ Step(c, "keep", call[c].count)
  /\ UNCHANGED <<local, ledger, readers, net>>

KeepLocal(c) ==
  /\ call[c].at = "keep"
  /\ local' = [local EXCEPT ![call[c].on] = Fresh(call[c].count)]
  /\ Step(c, "answer", call[c].count)
  /\ UNCHANGED <<redis, ledger, readers, net>>

-----------------------------------------------------------------------------
(* What becomes of the answer                                                *)

\* adjust publishes the count that get returned; nothing is kept for later.
Publishes(done) == done.op = "adjust" /\ Connection

\* Who is sent a frame: every connected page, when adjust has published and
\* Redis delivers to the gateways; the new page, when it is still there.
Recipients(done) ==
  {p \in clients : Publishes(done) \/ (done.op = "greet" /\ done.page = p)}

\* useVoiceStream replaces the figure unless the frame's is older.
TakeAnyway(count, current) == count
Newer(count, current) == IF count.asOf >= current.asOf THEN count ELSE current

\* A page handles its frames in the order they were sent, so that a frame that
\* is on its way may as well have arrived.
Answer(c) ==
  /\ call[c].at = "answer"
  /\ shown' = [p \in Pages |-> IF p \in Recipients(call[c])
                               THEN Newer(call[c].count, shown[p]) ELSE shown[p]]
  /\ End(c)
  /\ UNCHANGED <<clients, caches, ledger, net>>

Disconnect(p) ==
  /\ p \in clients
  /\ clients' = clients \ {p}
  /\ call' = [c \in Calls |-> IF call[c].page = p
                              THEN [call[c] EXCEPT !.page = None] ELSE call[c]]
  /\ UNCHANGED <<shown, caches, ledger, net>>

-----------------------------------------------------------------------------
(* The clock and the network                                                 *)

AgedForever(copy) == copy
Aged(copy) == IF copy.age + 1 >= TTL THEN Gone
              ELSE [copy EXCEPT !.age = @ + 1]
Older(age) == IF age = MaxAge THEN age ELSE age + 1

\* A call takes far less than a tick: the clock does not strike between the
\* reading of a row and the keeping of its copy.
Tick ==
  /\ \A c \in Calls : call[c].at \notin {"fill", "keep"}
  /\ local' = [i \in Instances |-> Aged(local[i])]
  /\ redis' = Aged(redis)
  /\ replaced' = [n \in DOMAIN replaced |->
                    IF n < row.version THEN Older(replaced[n]) ELSE 0]
  /\ UNCHANGED <<row, stamps, latest, unordered, call, readers, net>>

LoseRedis ==
  /\ up /\ outages < MaxOutages
  /\ up' = FALSE /\ outages' = outages + 1
  /\ UNCHANGED <<ledger, caches, call, readers>>

RecoverRedis ==
  /\ ~up /\ up' = TRUE
  /\ UNCHANGED <<outages, ledger, caches, call, readers>>

Continue(c) == \/ Commit(c) \/ Invalidate(c) \/ DeleteCached(c) \/ ReadCached(c)
               \/ ReadRow(c) \/ FillCache(c) \/ KeepLocal(c) \/ Answer(c)

Next ==
  \/ \E c \in Calls, i \in Instances :
       \/ Adjust(c, i) \/ Read(c, i)
       \/ \E p \in Pages : Connect(c, p, i)
  \/ \E c \in Calls : Continue(c)
  \/ \E p \in Pages : Disconnect(p)
  \/ Tick \/ LoseRedis \/ RecoverRedis

Spec == Init /\ [][Next]_vars

-----------------------------------------------------------------------------
\* The figure on the page: which of the numbers that were true it shows.
LiveCount(p) == shown[p].version

\* However calls, invalidations and outages of Redis interleave, a copy that
\* may still be served left the database less than two lifetimes ago: one in
\* Redis and one in the process that copied it from there.
ServedWithinTwoLifetimes ==
  \A i \in Instances :
    local[i] # Gone /\ local[i].count.version # row.version =>
      replaced[local[i].count.version] < MaxAge

\* A page leaves a count for an older one only where the stamps mislead it: the
\* count it shows bears a stamp no later than one committed before it, by a
\* clock that lags or in the same millisecond. No stale copy, late answer or
\* outage of Redis takes a page back from any other count.
FigureMovesForward ==
  [][\A p \in Pages : LiveCount(p)' >= LiveCount(p) \/ LiveCount(p) \in unordered]_vars

\* "Never let the figure go backwards": the same, whatever the stamps are.
FigureNeverTicksDown ==
  [][\A p \in Pages : LiveCount(p)' >= LiveCount(p)]_vars
=============================================================================
