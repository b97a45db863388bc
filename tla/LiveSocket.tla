------------------------------ MODULE LiveSocket ----------------------------
(***************************************************************************)
(* The socket between a page and VoiceGateway: lib/voice-socket.ts keeps   *)
(* one for all the components of a page that listen, with a retry timer    *)
(* and a watchdog; the gateway keeps the set of its clients and sweeps it  *)
(* at every heartbeat. A link may die without telling either end, and the  *)
(* close event of a socket comes some time after close() was called.       *)
(*                                                                         *)
(* The clock is the gateway's heartbeat of 25 seconds: what is sent over a *)
(* live link arrives before the next one, and the 70 seconds of SILENCE_MS *)
(* are Patience heartbeats. The delay of a retry is left open.             *)
(* Bounds: Sockets, the faults MaxFaults and the times MaxLeaves at which  *)
(* the last listener leaves.                                               *)
(* LeftOpen, ArmedOnce and SparedAlways are plausible mistakes in the      *)
(* definition that follows each of them; only the mutation runs use them.  *)
(***************************************************************************)
EXTENDS Integers

CONSTANTS Listeners,  \* the components of the page that may listen
          Sockets,    \* sockets, used again once both ends are done with them
          Patience,   \* SILENCE_MS, in heartbeats, rounded up
          MaxFaults, MaxLeaves

ASSUME SocketAssumption == Patience \in Nat \ {0, 1} /\ MaxFaults \in Nat /\ MaxLeaves \in Nat

None == "none"
Off  == -1

\* A socket: how it looks to the page, whether its link carries anything,
\* whether the gateway has it in clients, and in alive.
Socket == [state : {"closed", "connecting", "open", "closing"},
           link : BOOLEAN, client : BOOLEAN, alive : BOOLEAN]
Unused == [state |-> "closed", link |-> TRUE, client |-> FALSE, alive |-> FALSE]

VARIABLES listeners,  \* the listeners of the page
          socket,     \* the page's socket, or None
          retry,      \* retryTimer is running
          orphans,    \* running timers that retryTimer no longer refers to
          watchdog,   \* heartbeats of silence it has counted, or Off
          sock,       \* the sockets
          faults, leaves

vars  == <<listeners, socket, retry, orphans, watchdog, sock, faults, leaves>>
page  == <<listeners, socket, retry, orphans, watchdog, leaves>>

TypeOK ==
  /\ listeners \subseteq Listeners /\ socket \in Sockets \union {None}
  /\ retry \in BOOLEAN /\ orphans \in Nat
  /\ watchdog \in (0..Patience) \union {Off}
  /\ sock \in [Sockets -> Socket]
  /\ faults \in 0..MaxFaults /\ leaves \in 0..MaxLeaves

Init ==
  /\ listeners = {} /\ socket = None /\ retry = FALSE /\ orphans = 0
  /\ watchdog = Off /\ sock = [s \in Sockets |-> Unused]
  /\ faults = 0 /\ leaves = 0

Free(s)   == sock[s].state = "closed" /\ ~sock[s].client
Live(s)   == sock[s].state \in {"connecting", "open"}
Carries(s) == sock[s].state = "open" /\ sock[s].link

-----------------------------------------------------------------------------
(* lib/voice-socket.ts                                                       *)

\* close() of the page's socket, if there is one that is not closing already.
LeftOpen(socks) == socks
CloseOwn(socks) ==
  IF socket # None /\ Live(socket) THEN [socks EXCEPT ![socket].state = "closing"]
                                   ELSE socks

\* connect: nothing while there is a socket.
Connect ==
  IF socket # None
  THEN UNCHANGED <<socket, watchdog, sock>>
  ELSE \E s \in Sockets :
         /\ Free(s)
         /\ socket' = s /\ watchdog' = 0
         /\ sock' = [sock EXCEPT ![s] = [Unused EXCEPT !.state = "connecting"]]

Subscribe(l) ==
  /\ l \notin listeners
  /\ listeners' = listeners \union {l}
  /\ IF listeners = {} THEN Connect ELSE UNCHANGED <<socket, watchdog, sock>>
  /\ UNCHANGED <<retry, orphans, faults, leaves>>

\* The last one to leave clears the timers the page knows of and its socket.
Unsubscribe(l) ==
  /\ l \in listeners
  /\ listeners' = listeners \ {l}
  /\ IF listeners' = {}
     THEN /\ leaves < MaxLeaves /\ leaves' = leaves + 1
          /\ retry' = FALSE /\ watchdog' = Off
          /\ sock' = CloseOwn(sock) /\ socket' = None
     ELSE UNCHANGED <<leaves, retry, watchdog, sock, socket>>
  /\ UNCHANGED <<orphans, faults>>

\* scheduleRetry: a timer already running is left to run.
ScheduleRetry ==
  IF listeners = {} THEN UNCHANGED <<retry, orphans>>
  ELSE retry' = TRUE /\ orphans' = IF retry THEN orphans + 1 ELSE orphans

RetryFires ==
  /\ retry /\ retry' = FALSE
  /\ Connect
  /\ UNCHANGED <<listeners, orphans, faults, leaves>>

OrphanFires ==
  /\ orphans > 0 /\ orphans' = orphans - 1
  /\ Connect
  /\ UNCHANGED <<listeners, retry, faults, leaves>>

\* reviveNow: the page becomes visible, or the browser comes online.
ReviveNow ==
  /\ socket = None /\ listeners # {}
  /\ retry' = FALSE
  /\ Connect
  /\ UNCHANGED <<listeners, orphans, faults, leaves>>

\* onclose does not ask whose event it is.
OnClose(s, socks) ==
  /\ sock' = [socks EXCEPT ![s].state = "closed"]
  /\ socket' = None /\ watchdog' = Off
  /\ ScheduleRetry
  /\ UNCHANGED <<listeners, leaves>>

\* The close event of a socket the page has closed, or the gateway.
CloseEvent(s) ==
  /\ \/ sock[s].state = "closing"
     \/ Carries(s) /\ ~sock[s].client
  /\ OnClose(s, sock)
  /\ UNCHANGED faults

\* A connection that fails: onerror closes the page's socket, whichever it is.
ConnectionFails(s) ==
  /\ sock[s].state = "connecting" /\ faults < MaxFaults /\ faults' = faults + 1
  /\ OnClose(s, CloseOwn(sock))

WatchdogFires ==
  /\ watchdog = Patience /\ watchdog' = Off
  /\ sock' = CloseOwn(sock)
  /\ UNCHANGED <<listeners, socket, retry, orphans, faults, leaves>>

-----------------------------------------------------------------------------
(* VoiceGateway                                                              *)

\* handleConnection at one end, onopen at the other; the figure is sent.
Opens(s) ==
  /\ sock[s].state = "connecting" /\ sock[s].link
  /\ sock' = [sock EXCEPT ![s] = [state |-> "open", link |-> TRUE,
                                  client |-> TRUE, alive |-> TRUE]]
  /\ watchdog' = 0
  /\ UNCHANGED <<listeners, socket, retry, orphans, faults, leaves>>

HandleDisconnect(s) ==
  /\ sock[s].client /\ sock[s].link /\ ~Live(s)
  /\ sock' = [sock EXCEPT ![s].client = FALSE, ![s].alive = FALSE]
  /\ UNCHANGED <<page, faults>>

\* sweep: who has not answered the last ping is terminated, the others are
\* pinged and, by fanOut, sent a frame.
SparedAlways(one) == one
Swept(one) == IF one.client THEN [one EXCEPT !.client = one.alive, !.alive = FALSE]
              ELSE one

Sweep ==
  /\ watchdog # Patience
  /\ \A s \in Sockets : sock[s].link =>
       /\ sock[s].state # "connecting"
       /\ sock[s].client => sock[s].state = "open" /\ sock[s].alive
  /\ sock' = [s \in Sockets |-> Swept(sock[s])]
  /\ watchdog' = IF watchdog = Off THEN Off ELSE watchdog + 1
  /\ UNCHANGED <<listeners, socket, retry, orphans, faults, leaves>>

\* The ping and the frame reach the page, whose browser answers the ping; a
\* frame of any socket arms the watchdog.
ArmedOnce(count) == count
Armed(count) == 0

Heartbeat(s) ==
  /\ Carries(s) /\ sock[s].client /\ ~sock[s].alive
  /\ sock' = [sock EXCEPT ![s].alive = TRUE]
  /\ watchdog' = Armed(watchdog)
  /\ UNCHANGED <<listeners, socket, retry, orphans, faults, leaves>>

\* A frame to a client whose link has long been dead overflows its buffer.
BufferOverflows(s) ==
  /\ sock[s].client /\ ~sock[s].link
  /\ sock' = [sock EXCEPT ![s].client = FALSE, ![s].alive = FALSE]
  /\ UNCHANGED <<page, faults>>

\* onModuleDestroy, when a new release takes over.
ServerRestarts ==
  /\ faults < MaxFaults /\ faults' = faults + 1
  /\ sock' = [s \in Sockets |-> [sock[s] EXCEPT !.client = FALSE, !.alive = FALSE]]
  /\ UNCHANGED page

LinkDies(s) ==
  /\ Live(s) /\ sock[s].link /\ faults < MaxFaults /\ faults' = faults + 1
  /\ sock' = [sock EXCEPT ![s].link = FALSE]
  /\ UNCHANGED page

Event(s) == \/ CloseEvent(s) \/ Opens(s) \/ HandleDisconnect(s) \/ Heartbeat(s)
Timer    == RetryFires \/ OrphanFires \/ WatchdogFires

Next ==
  \/ \E l \in Listeners : Subscribe(l) \/ Unsubscribe(l)
  \/ \E s \in Sockets : \/ Event(s) \/ ConnectionFails(s)
                        \/ BufferOverflows(s) \/ LinkDies(s)
  \/ Timer \/ ReviveNow \/ Sweep \/ ServerRestarts

\* Events come, timers fire and the gateway sweeps; people come and go as they
\* like, and a buffer need not overflow.
Spec == /\ Init /\ [][Next]_vars
        /\ \A s \in Sockets : WF_vars(Event(s))
        /\ WF_vars(RetryFires) /\ WF_vars(OrphanFires) /\ WF_vars(WatchdogFires)
        /\ WF_vars(Sweep)

-----------------------------------------------------------------------------
\* "One WebSocket for the whole page, however many components are listening."
OneSocket == \A s, t \in Sockets : Live(s) /\ Live(t) => s = t

\* Neither the gateway's sweep nor the page's watchdog ends a connection whose
\* link is up, whichever socket the page takes for its own.
HealthyStays ==
  [][\A s \in Sockets : Carries(s) /\ sock[s].client =>
       \/ Carries(s)' /\ sock'[s].client
       \/ faults' # faults \/ listeners' = {}]_vars

\* A page somebody looks at hears the gateway again after every silent death
\* of its link, failed connection and restart.
ListenerIsHeard ==
  []<>(listeners = {} \/ \E s \in Sockets : Carries(s) /\ sock[s].client)

\* "This process keeps the dead socket in its set forever" is what the sweep
\* is there to prevent.
DeadClientIsReaped ==
  \A s \in Sockets : sock[s].client /\ ~sock[s].link ~> ~sock[s].client
=============================================================================
