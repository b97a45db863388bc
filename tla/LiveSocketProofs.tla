--------------------------- MODULE LiveSocketProofs ---------------------------
(***************************************************************************)
(* Theorems about LiveSocket, for any listeners and sockets, any patience  *)
(* of the page's watchdog of two heartbeats or more, and any number of     *)
(* faults and of leavings.                                                 *)
(***************************************************************************)
EXTENDS LiveSocket, TLAPS

-----------------------------------------------------------------------------
(* The inductive invariant: the silence that the watchdog counts is not that *)
(* of a connection that works. Since such a socket was last heard, at most   *)
(* one heartbeat has passed, and none if it has answered the last ping.      *)
Served(s)  == Carries(s) /\ sock[s].client
HeardOf(s) == Served(s) => watchdog <= 1 /\ (sock[s].alive => watchdog <= 0)
IInv == TypeOK /\ \A s \in Sockets : HeardOf(s)

-----------------------------------------------------------------------------
(* What the page does to its sockets.                                        *)

(* A page that closes its own socket leaves every other one as it is.        *)
LEMMA OwnIsClosed ==
  ASSUME TypeOK
  PROVE  /\ CloseOwn(sock) \in [Sockets -> Socket]
         /\ \A s \in Sockets : /\ CloseOwn(sock)[s] = sock[s]
                                  \/ CloseOwn(sock)[s].state = "closing"
<1>1. CASE socket # None /\ Live(socket)
  <2>1. socket \in Sockets /\ CloseOwn(sock) = [sock EXCEPT ![socket].state = "closing"]
    BY <1>1 DEF CloseOwn, TypeOK
  <2> QED
    BY <2>1 DEF TypeOK, Socket
<1>2. CASE ~(socket # None /\ Live(socket))
  BY <1>2 DEF CloseOwn, TypeOK
<1> QED
  BY <1>1, <1>2

(* A page that connects takes a socket that both ends are done with.         *)
LEMMA ConnectKeeps ==
  ASSUME IInv, Connect
  PROVE  /\ socket' \in Sockets \union {None} /\ sock' \in [Sockets -> Socket]
         /\ watchdog' \in (0..Patience) \union {Off}
         /\ \A s \in Sockets : HeardOf(s)'
         /\ \A s \in Sockets : Served(s) => sock'[s] = sock[s]
<1>1. CASE socket # None
  BY <1>1 DEF Connect, IInv, TypeOK, HeardOf, Served, Carries
<1>2. CASE socket = None
  <2>1. PICK s \in Sockets :
          /\ Free(s) /\ socket' = s /\ watchdog' = 0
          /\ sock' = [sock EXCEPT ![s] = [Unused EXCEPT !.state = "connecting"]]
    BY <1>2 DEF Connect
  <2>2. [Unused EXCEPT !.state = "connecting"] \in Socket
    BY DEF Unused, Socket
  <2>3. 0 \in 0..Patience
    BY SocketAssumption
  <2>4. ~Served(s)
    BY <2>1 DEF Free, Served, Carries
  <2> QED
    BY <2>1, <2>2, <2>3, <2>4 DEF IInv, TypeOK, HeardOf, Served, Carries
<1> QED
  BY <1>1, <1>2

(* The close event of a socket that is not served leaves those that are.     *)
LEMMA CloseKeeps ==
  ASSUME IInv, NEW s \in Sockets, NEW socks \in [Sockets -> Socket], OnClose(s, socks)
  PROVE  /\ faults' \in 0..MaxFaults => TypeOK'
         /\ watchdog' = Off
         /\ \A t \in Sockets : HeardOf(t)'
         /\ \A t \in Sockets \ {s} : sock'[t] = socks[t]
<1>1. sock' = [socks EXCEPT ![s].state = "closed"] /\ sock' \in [Sockets -> Socket]
  BY DEF OnClose, Socket
<1>2. retry' \in BOOLEAN /\ orphans' \in Nat
  <2>1. retry \in BOOLEAN /\ orphans \in Nat
    BY DEF IInv, TypeOK
  <2>2. orphans + 1 \in Nat
    BY <2>1
  <2>3. ScheduleRetry
    BY DEF OnClose
  <2> QED
    BY <2>1, <2>2, <2>3, Zenon DEF ScheduleRetry
<1>3. UNCHANGED <<listeners, leaves>> /\ socket' = None /\ watchdog' = Off
  BY DEF OnClose
<1>4. \A t \in Sockets : HeardOf(t)'
  BY <1>3 DEF HeardOf, Off
<1>5. faults' \in 0..MaxFaults => TypeOK'
  BY <1>1, <1>2, <1>3 DEF IInv, TypeOK
<1>6. \A t \in Sockets \ {s} : sock'[t] = socks[t]
  BY <1>1
<1> QED
  BY <1>3, <1>4, <1>5, <1>6

-----------------------------------------------------------------------------
(* The steps.                                                                *)

\* A connection that works is kept, by a step that nobody and nothing else breaks.
Kept == \A s \in Sockets : Served(s) => Served(s)' \/ faults' # faults \/ listeners' = {}

LEMMA InitIInv == Init => IInv
<1> SUFFICES ASSUME Init PROVE IInv
  OBVIOUS
<1>1. Unused \in Socket /\ Unused.state = "closed"
  BY DEF Unused, Socket
<1>2. 0 \in 0..MaxFaults /\ 0 \in 0..MaxLeaves
  BY SocketAssumption
<1>3. TypeOK
  BY <1>1, <1>2 DEF Init, TypeOK
<1> QED
  BY <1>1, <1>3 DEF Init, IInv, HeardOf, Served, Carries

LEMMA SubscribeKeeps ==
  ASSUME IInv, NEW l \in Listeners, Subscribe(l)
  PROVE  IInv' /\ Kept
<1>1. CASE listeners = {}
  BY <1>1, ConnectKeeps DEF Subscribe, IInv, TypeOK, Kept, Served, Carries
<1>2. CASE listeners # {}
  BY <1>2 DEF Subscribe, IInv, TypeOK, HeardOf, Kept, Served, Carries
<1> QED
  BY <1>1, <1>2

LEMMA UnsubscribeKeeps ==
  ASSUME IInv, NEW l \in Listeners, Unsubscribe(l)
  PROVE  IInv' /\ Kept
<1>1. listeners' \subseteq Listeners
  BY DEF Unsubscribe, IInv, TypeOK
<1>2. CASE listeners' = {}
  <2>1. leaves' \in 0..MaxLeaves
    BY <1>2, SocketAssumption DEF Unsubscribe, IInv, TypeOK
  <2>2. watchdog' = Off /\ retry' = FALSE /\ socket' = None /\ sock' = CloseOwn(sock)
    BY <1>2 DEF Unsubscribe
  <2>3. \A s \in Sockets : HeardOf(s)'
    BY <2>2 DEF HeardOf, Off
  <2>4. CloseOwn(sock) \in [Sockets -> Socket]
    BY OwnIsClosed DEF IInv
  <2>5. TypeOK'
    BY <1>1, <2>1, <2>2, <2>4 DEF Unsubscribe, IInv, TypeOK
  <2> QED
    BY <1>2, <2>3, <2>5 DEF IInv, Kept
<1>3. CASE listeners' # {}
  BY <1>1, <1>3 DEF Unsubscribe, IInv, TypeOK, HeardOf, Kept, Served, Carries
<1> QED
  BY <1>2, <1>3

LEMMA RetriesKeep ==
  ASSUME IInv, RetryFires \/ OrphanFires \/ ReviveNow
  PROVE  IInv' /\ Kept
<1>1. Connect /\ UNCHANGED <<listeners, faults, leaves>>
  BY DEF RetryFires, OrphanFires, ReviveNow
<1>2. retry' \in BOOLEAN /\ orphans' \in Nat
  <2>1. CASE RetryFires \/ ReviveNow
    BY <2>1, Zenon DEF RetryFires, ReviveNow, IInv, TypeOK
  <2>2. CASE OrphanFires
    <3>1. orphans' \in Nat
      BY <2>2 DEF OrphanFires, IInv, TypeOK
    <3>2. retry' \in BOOLEAN
      BY <2>2, Zenon DEF OrphanFires, IInv, TypeOK
    <3> QED
      BY <3>1, <3>2
  <2> QED
    BY <2>1, <2>2
<1> QED
  BY <1>1, <1>2, ConnectKeeps DEF IInv, TypeOK, Kept, Served, Carries

LEMMA CloseEventKeeps ==
  ASSUME IInv, NEW s \in Sockets, CloseEvent(s)
  PROVE  IInv' /\ Kept
<1>1. OnClose(s, sock) /\ UNCHANGED faults /\ ~Served(s)
  BY DEF CloseEvent, Served, Carries
<1>2. sock \in [Sockets -> Socket] /\ faults' \in 0..MaxFaults
  BY <1>1 DEF IInv, TypeOK
<1> QED
  BY <1>1, <1>2, CloseKeeps DEF IInv, Kept, Served, Carries

LEMMA ConnectionFailsKeeps ==
  ASSUME IInv, NEW s \in Sockets, ConnectionFails(s)
  PROVE  IInv' /\ Kept
<1>1. faults \in Nat /\ faults' \in 0..MaxFaults /\ faults' # faults
  BY SocketAssumption DEF ConnectionFails, IInv, TypeOK
<1>2. CloseOwn(sock) \in [Sockets -> Socket]
  BY OwnIsClosed DEF IInv
<1> QED
  BY <1>1, <1>2, CloseKeeps DEF ConnectionFails, IInv, Kept

(* The watchdog does not fire while a socket of the page is served.          *)
LEMMA WatchdogKeeps ==
  ASSUME IInv, WatchdogFires
  PROVE  IInv' /\ Kept
<1>1. \A s \in Sockets : ~Served(s)
  BY SocketAssumption DEF WatchdogFires, IInv, HeardOf
<1>2. watchdog' = Off
  BY DEF WatchdogFires
<1> QED
  BY <1>1, <1>2, OwnIsClosed DEF WatchdogFires, IInv, TypeOK, HeardOf, Kept, Off

LEMMA OpensKeeps ==
  ASSUME IInv, NEW s \in Sockets, Opens(s)
  PROVE  IInv' /\ Kept
<1>1. 0 \in 0..Patience
  BY SocketAssumption
<1>2. sock' \in [Sockets -> Socket]
  BY DEF Opens, IInv, TypeOK, Socket
<1>3. ~Served(s) /\ \A t \in Sockets \ {s} : sock'[t] = sock[t]
  BY DEF Opens, Served, Carries, IInv, TypeOK
<1> QED
  BY <1>1, <1>2, <1>3 DEF Opens, IInv, TypeOK, HeardOf, Kept, Served, Carries

LEMMA HeartbeatKeeps ==
  ASSUME IInv, NEW s \in Sockets, Heartbeat(s)
  PROVE  IInv' /\ Kept
<1>1. watchdog' = 0 /\ 0 \in 0..Patience
  BY SocketAssumption DEF Heartbeat, Armed
<1>2. /\ sock' \in [Sockets -> Socket]
      /\ \A t \in Sockets : /\ sock'[t].state = sock[t].state
                            /\ sock'[t].link = sock[t].link /\ sock'[t].client = sock[t].client
  BY DEF Heartbeat, IInv, TypeOK, Socket
<1> QED
  BY <1>1, <1>2 DEF Heartbeat, IInv, TypeOK, HeardOf, Kept, Served, Carries

(* A socket that changes behind the page's back was not served, or a fault   *)
(* has come over it.                                                         *)
LEMMA PartingKeeps ==
  ASSUME IInv, UNCHANGED page, faults' \in 0..MaxFaults, sock' \in [Sockets -> Socket],
         \A t \in Sockets : sock'[t] = sock[t] \/ (~Served(t)' /\ (Served(t) => faults' # faults))
  PROVE  IInv' /\ Kept
<1>1. UNCHANGED <<listeners, socket, retry, orphans, watchdog, leaves>>
  BY DEF page
<1>2. ASSUME NEW t \in Sockets
      PROVE  HeardOf(t)' /\ (Served(t) => Served(t)' \/ faults' # faults)
  BY <1>1 DEF IInv, HeardOf, Served, Carries
<1> QED
  BY <1>1, <1>2 DEF IInv, TypeOK, Kept

LEMMA LeaverKeeps ==
  ASSUME IInv, NEW s \in Sockets, HandleDisconnect(s) \/ BufferOverflows(s)
  PROVE  IInv' /\ Kept
<1>1. UNCHANGED page /\ faults' \in 0..MaxFaults
  BY DEF HandleDisconnect, BufferOverflows, page, IInv, TypeOK
<1>2. sock \in [Sockets -> Socket] /\ ~Served(s)
  BY DEF HandleDisconnect, BufferOverflows, Served, Carries, Live, IInv, TypeOK
<1>3. sock' = [sock EXCEPT ![s] = [sock[s] EXCEPT !.client = FALSE, !.alive = FALSE]]
  BY DEF HandleDisconnect, BufferOverflows
<1>4. [sock[s] EXCEPT !.client = FALSE, !.alive = FALSE] \in Socket
  BY <1>2 DEF Socket
<1>5. sock' \in [Sockets -> Socket] /\ \A t \in Sockets \ {s} : sock'[t] = sock[t]
  BY <1>2, <1>3, <1>4
<1>6. ~Served(s)'
  BY <1>2, <1>3 DEF Served
<1> QED
  BY <1>1, <1>2, <1>5, <1>6, PartingKeeps

LEMMA LinkDiesKeeps ==
  ASSUME IInv, NEW s \in Sockets, LinkDies(s)
  PROVE  IInv' /\ Kept
<1>1. UNCHANGED page /\ faults' \in 0..MaxFaults /\ faults' # faults
  BY SocketAssumption DEF LinkDies, IInv, TypeOK
<1>2. sock \in [Sockets -> Socket]
  BY DEF IInv, TypeOK
<1>3. sock' \in [Sockets -> Socket] /\ ~Served(s)' /\ \A t \in Sockets \ {s} : sock'[t] = sock[t]
  BY <1>2 DEF LinkDies, Socket, Served, Carries
<1> QED
  BY <1>1, <1>3, PartingKeeps

LEMMA RestartKeeps ==
  ASSUME IInv, ServerRestarts
  PROVE  IInv' /\ Kept
<1>1. UNCHANGED page /\ faults' \in 0..MaxFaults /\ faults' # faults
  <2>1. faults \in 0..MaxFaults /\ MaxFaults \in Nat
    BY SocketAssumption DEF IInv, TypeOK
  <2>2. faults < MaxFaults /\ faults' = faults + 1 /\ UNCHANGED page
    BY Zenon DEF ServerRestarts
  <2> QED
    BY <2>1, <2>2
<1>2. sock \in [Sockets -> Socket]
  BY DEF IInv, TypeOK
<1>3. ASSUME NEW t \in Sockets
      PROVE  sock'[t] \in Socket /\ sock'[t].client = FALSE
  BY <1>2 DEF ServerRestarts, Socket
<1>4. sock' \in [Sockets -> Socket]
  BY <1>3 DEF ServerRestarts
<1> QED
  BY <1>1, <1>3, <1>4, PartingKeeps DEF Served

(* A sweep comes when every client that carries has answered the last ping,  *)
(* so none of them is terminated, and the silence it begins is of one beat.  *)
LEMMA SweepKeeps ==
  ASSUME IInv, Sweep
  PROVE  IInv' /\ Kept
<1>1. \A s \in Sockets : Served(s) => sock[s].alive /\ watchdog <= 0
  BY DEF Sweep, IInv, HeardOf, Served, Carries
<1>2. \A s \in Sockets : /\ sock'[s] = Swept(sock[s]) /\ Swept(sock[s]) \in Socket
                         /\ sock'[s].state = sock[s].state /\ sock'[s].link = sock[s].link
                         /\ sock'[s].client = (sock[s].client /\ sock[s].alive)
                         /\ sock[s].client => sock'[s].alive = FALSE
  BY DEF Sweep, Swept, IInv, TypeOK, Socket
<1>3. sock' \in [Sockets -> Socket]
  BY <1>2 DEF Sweep
<1>4. watchdog' \in (0..Patience) \union {Off}
  BY SocketAssumption DEF Sweep, IInv, TypeOK, Off
<1>5. ASSUME NEW s \in Sockets PROVE HeardOf(s)' /\ (Served(s) => Served(s)')
  <2>1. Served(s) => Served(s)'
    BY <1>1, <1>2 DEF Served, Carries
  <2>2. Served(s)' => Served(s) /\ sock'[s].alive = FALSE
    BY <1>2 DEF Served, Carries
  <2>3. watchdog <= 0 => watchdog' <= 1
    BY DEF Sweep, IInv, TypeOK, Off
  <2> QED
    BY <1>1, <2>1, <2>2, <2>3 DEF HeardOf
<1> QED
  BY <1>3, <1>4, <1>5 DEF Sweep, IInv, TypeOK, Kept

LEMMA NextKeeps == IInv /\ [Next]_vars => IInv' /\ (UNCHANGED vars \/ Kept)
<1> SUFFICES ASSUME IInv, [Next]_vars PROVE IInv' /\ (UNCHANGED vars \/ Kept)
  OBVIOUS
<1>1. CASE \E l \in Listeners : Subscribe(l) \/ Unsubscribe(l)
  BY <1>1, SubscribeKeeps, UnsubscribeKeeps
<1>2. CASE \E s \in Sockets : Event(s)
  BY <1>2, CloseEventKeeps, OpensKeeps, HeartbeatKeeps, LeaverKeeps DEF Event
<1>3. CASE \E s \in Sockets : ConnectionFails(s) \/ BufferOverflows(s) \/ LinkDies(s)
  BY <1>3, ConnectionFailsKeeps, LeaverKeeps, LinkDiesKeeps
<1>4. CASE Timer \/ ReviveNow
  BY <1>4, RetriesKeep, WatchdogKeeps DEF Timer
<1>5. CASE Sweep
  BY <1>5, SweepKeeps
<1>6. CASE ServerRestarts
  BY <1>6, RestartKeeps
<1>7. CASE UNCHANGED vars
  BY <1>7 DEF vars, IInv, TypeOK, HeardOf, Served, Carries
<1> QED
  BY <1>1, <1>2, <1>3, <1>4, <1>5, <1>6, <1>7 DEF Next

LEMMA Correct == Spec => []IInv
<1> QED
  BY InitIInv, NextKeeps, PTL DEF Spec

(* The variables of the page and of the gateway keep their types.            *)
THEOREM TypeCorrect == Spec => []TypeOK
<1>1. IInv => TypeOK
  BY DEF IInv
<1> QED
  BY <1>1, Correct, PTL

(* The gateway's sweep drops no client that answers, and the watchdog closes *)
(* no socket that is heard, whatever other sockets of the page open, fail    *)
(* and close late meanwhile.                                                 *)
THEOREM ConnectionsLast == Spec => HealthyStays
<1>1. IInv /\ [Next]_vars =>
        [\A s \in Sockets : Carries(s) /\ sock[s].client =>
           \/ Carries(s)' /\ sock'[s].client
           \/ faults' # faults \/ listeners' = {}]_vars
  BY NextKeeps DEF Kept, Served
<1> QED
  BY <1>1, Correct, PTL DEF Spec, HealthyStays
=============================================================================
