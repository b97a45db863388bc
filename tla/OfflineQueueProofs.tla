-------------------------- MODULE OfflineQueueProofs --------------------------
(***************************************************************************)
(* Theorems about OfflineQueue, for any tabs, voices and refused voices,   *)
(* and any number of faults.                                               *)
(***************************************************************************)
EXTENDS OfflineQueue, TLAPS

-----------------------------------------------------------------------------
(* The inductive invariant: of a voice that was neither doubted nor shared,  *)
(* one copy at most can still be sent, and none once it is on the Wall.      *)

\* v occurs at most once in s.
Once(s, v) == \A i, j \in DOMAIN s : s[i] = v /\ s[j] = v => i = j

\* What a tab is about to add to the queue, as against what it has read there.
Adds(t) == IF tab[t].writing THEN ToSet(tab[t].write) \ ToSet(tab[t].read) ELSE {}

\* What a tab carries and the server has not accepted from it.
Unsent(t) ==
  ToSet(tab[t].putBack) \union
  {v \in ToSet(tab[t].claimed) : ~(tab[t].reply = "ok" /\ v = Head(tab[t].claimed))}

\* The claim of a queue whose emptying has not been written yet.
Claiming(t) == tab[t].writing /\ tab[t].write = <<>>

Tame == Voices \ (doubted \union shared)

\* A drain sends what it has claimed, after the claim is written; a form waits
\* for its answer in an open tab.
DrainsInOrder ==
  /\ \A t \in Tabs :
       /\ tab[t].reply # "none" => tab[t].claimed # <<>> /\ ~Claiming(t)
       /\ ~tab[t].writing => tab[t].read = <<>> /\ tab[t].write = <<>>
  /\ \A v \in Voices : form[v].reply # "none" =>
       form[v].tab \in Tabs /\ form[v].state = "submitting"

\* A voice comes to the queue by its form only, and then the form is done with it.
FormsFirst ==
  \A v \in Voices :
    /\ form[v].state # "queued" =>
         /\ v \notin ToSet(store)
         /\ \A t \in Tabs : v \notin Carried(t) \union ToSet(tab[t].read) \union ToSet(tab[t].write)
    /\ v \in Tame /\ published[v] > 0 =>
         \/ form[v].state \in {"queued", "done"}
         \/ form[v].state = "submitting" /\ form[v].reply = "ok"

\* The queue and the tabs hold a voice once between them: a tab that carries it
\* has taken it out of the queue, or is about to; no two tabs carry it; who adds
\* it is the only one that has it.
Apart(v) ==
  /\ Once(store, v)
  /\ \A t \in Tabs :
       /\ Once(tab[t].write, v) /\ Once(tab[t].claimed, v) /\ Once(tab[t].putBack, v)
       /\ v \in ToSet(tab[t].claimed) => v \notin ToSet(tab[t].putBack)
       /\ v \in Carried(t) /\ v \in ToSet(store) => Claiming(t)
       /\ v \in Carried(t) => \A u \in Tabs : v \in Carried(u) => u = t
       /\ v \in Adds(t) =>
            /\ v \notin ToSet(store)
            /\ \A u \in Tabs : v \notin Carried(u) /\ (v \in Adds(u) => u = t)

HeldOnce == \A v \in Tame : Apart(v)

\* What is on the Wall is not held any more, and once is enough.
Spent(v) ==
  /\ published[v] <= 1
  /\ published[v] > 0 =>
       v \notin ToSet(store) /\ \A t \in Tabs : v \notin Adds(t) /\ v \notin Unsent(t)

SentOnce == \A v \in Tame : Spent(v)

\* A link works on a voice that was published, and has taken it off when it is answered.
LinksTold ==
  \A v \in Voices :
    /\ link[v] # "ready" => published[v] > 0
    /\ link[v] \in {"answered", "done"} => withdrawn[v] = 1

IInv == /\ TypeOK
        /\ DrainsInOrder
        /\ FormsFirst
        /\ HeldOnce
        /\ SentOnce
        /\ LinksTold

-----------------------------------------------------------------------------
(* Sequences.                                                                *)

(* What appending, putting in front and taking the head does to the elements *)
(* of a queue.                                                               *)
LEMMA Elements ==
  ASSUME NEW s \in Seq(Voices), NEW q \in Seq(Voices), NEW v \in Voices
  PROVE  /\ ToSet(s) \subseteq Voices
         /\ ToSet(<<>>) = {}
         /\ Append(s, v) \in Seq(Voices) /\ ToSet(Append(s, v)) = ToSet(s) \union {v}
         /\ s \o q \in Seq(Voices) /\ ToSet(s \o q) = ToSet(s) \union ToSet(q)
         /\ s # <<>> => /\ Head(s) \in Voices /\ Tail(s) \in Seq(Voices)
                        /\ ToSet(s) = {Head(s)} \union ToSet(Tail(s))
<1>1. ToSet(s) \subseteq Voices
  BY DEF ToSet
<1>2. ToSet(<<>>) = {}
  BY DEF ToSet
<1>3. Append(s, v) \in Seq(Voices) /\ ToSet(Append(s, v)) = ToSet(s) \union {v}
  <2>1. /\ DOMAIN s = 1..Len(s) /\ DOMAIN Append(s, v) = 1..(Len(s) + 1)
        /\ \A i \in 1..Len(s) : Append(s, v)[i] = s[i]
        /\ Append(s, v)[Len(s) + 1] = v /\ Len(s) \in Nat
    OBVIOUS
  <2>2. Append(s, v) \in Seq(Voices)
    OBVIOUS
  <2> QED
    BY <2>1, <2>2 DEF ToSet
<1>4. s \o q \in Seq(Voices) /\ ToSet(s \o q) = ToSet(s) \union ToSet(q)
  <2>1. /\ DOMAIN s = 1..Len(s) /\ DOMAIN q = 1..Len(q) /\ DOMAIN (s \o q) = 1..(Len(s) + Len(q))
        /\ Len(s) \in Nat /\ Len(q) \in Nat
        /\ \A i \in 1..Len(s) : (s \o q)[i] = s[i]
        /\ \A i \in 1..Len(q) : (s \o q)[Len(s) + i] = q[i]
    OBVIOUS
  <2>2. s \o q \in Seq(Voices)
    OBVIOUS
  <2>3. \A i \in DOMAIN (s \o q) :
          i \in DOMAIN s \/ \E j \in DOMAIN q : i = Len(s) + j
    <3>1. ASSUME NEW i \in 1..(Len(s) + Len(q)), i \notin 1..Len(s)
          PROVE  i - Len(s) \in 1..Len(q) /\ i = Len(s) + (i - Len(s))
      BY <2>1, <3>1
    <3> QED
      BY <2>1, <3>1
  <2>4. ASSUME NEW x \in ToSet(s \o q) PROVE x \in ToSet(s) \union ToSet(q)
    <3>1. PICK i \in DOMAIN (s \o q) : (s \o q)[i] = x
      BY DEF ToSet
    <3>2. CASE i \in DOMAIN s
      BY <2>1, <3>1, <3>2 DEF ToSet
    <3>3. CASE i \notin DOMAIN s
      BY <2>1, <2>3, <3>1, <3>3 DEF ToSet
    <3> QED
      BY <3>2, <3>3
  <2>5. ASSUME NEW x \in ToSet(s) PROVE x \in ToSet(s \o q)
    <3>1. PICK i \in DOMAIN s : s[i] = x
      BY DEF ToSet
    <3>2. i \in DOMAIN (s \o q) /\ (s \o q)[i] = x
      BY <2>1, <3>1
    <3> QED
      BY <3>2 DEF ToSet
  <2>6. ASSUME NEW x \in ToSet(q) PROVE x \in ToSet(s \o q)
    <3>1. PICK i \in DOMAIN q : q[i] = x
      BY DEF ToSet
    <3>2. Len(s) + i \in DOMAIN (s \o q) /\ (s \o q)[Len(s) + i] = x
      BY <2>1, <3>1
    <3> QED
      BY <3>2 DEF ToSet
  <2> QED
    BY <2>2, <2>4, <2>5, <2>6
<1>5. ASSUME s # <<>>
      PROVE  /\ Head(s) \in Voices /\ Tail(s) \in Seq(Voices)
             /\ ToSet(s) = {Head(s)} \union ToSet(Tail(s))
  <2>1. /\ Len(s) \in Nat /\ Len(s) >= 1 /\ DOMAIN s = 1..Len(s)
        /\ Head(s) = s[1] /\ DOMAIN Tail(s) = 1..(Len(s) - 1)
        /\ \A i \in 1..(Len(s) - 1) : Tail(s)[i] = s[i + 1]
        /\ Tail(s) \in Seq(Voices)
    BY <1>5
  <2>2. \A i \in DOMAIN s : i = 1 \/ \E j \in DOMAIN Tail(s) : i = j + 1
    <3>1. ASSUME NEW i \in 1..Len(s), i # 1
          PROVE  i - 1 \in 1..(Len(s) - 1) /\ i = (i - 1) + 1
      BY <2>1, <3>1
    <3> QED
      BY <2>1, <3>1
  <2>3. 1 \in DOMAIN s /\ \A j \in DOMAIN Tail(s) : j + 1 \in DOMAIN s
    BY <2>1
  <2> QED
    BY <2>1, <2>2, <2>3 DEF ToSet
<1> QED
  BY <1>1, <1>2, <1>3, <1>4, <1>5

(* And to how often a voice occurs in it.                                    *)
LEMMA Occurrences ==
  ASSUME NEW s \in Seq(Voices), NEW q \in Seq(Voices), NEW v \in Voices, NEW w \in Voices
  PROVE  /\ Once(<<>>, v)
         /\ v \notin ToSet(s) => Once(s, v)
         /\ Once(s, v) /\ (v = w => v \notin ToSet(s)) => Once(Append(s, w), v)
         /\ Once(s, v) /\ Once(q, v) /\ (v \in ToSet(s) => v \notin ToSet(q)) => Once(s \o q, v)
         /\ s # <<>> /\ Once(s, v) =>
              Once(Tail(s), v) /\ (v = Head(s) => v \notin ToSet(Tail(s)))
<1>1. Once(<<>>, v) /\ (v \notin ToSet(s) => Once(s, v))
  BY DEF Once, ToSet
<1>2. ASSUME Once(s, v), v = w => v \notin ToSet(s)
      PROVE  Once(Append(s, w), v)
  <2>1. /\ DOMAIN s = 1..Len(s) /\ DOMAIN Append(s, w) = 1..(Len(s) + 1)
        /\ \A i \in 1..Len(s) : Append(s, w)[i] = s[i]
        /\ Append(s, w)[Len(s) + 1] = w /\ Len(s) \in Nat
    OBVIOUS
  <2>2. \A i \in DOMAIN s : s[i] = v => v # w
    BY <1>2 DEF ToSet
  <2>3. \A i \in DOMAIN Append(s, w) : i \in DOMAIN s \/ i = Len(s) + 1
    BY <2>1
  <2> QED
    BY <1>2, <2>1, <2>2, <2>3 DEF Once
<1>3. ASSUME Once(s, v), Once(q, v), v \in ToSet(s) => v \notin ToSet(q)
      PROVE  Once(s \o q, v)
  <2>1. /\ DOMAIN s = 1..Len(s) /\ DOMAIN q = 1..Len(q) /\ DOMAIN (s \o q) = 1..(Len(s) + Len(q))
        /\ Len(s) \in Nat /\ Len(q) \in Nat
        /\ \A i \in 1..Len(s) : (s \o q)[i] = s[i]
        /\ \A i \in 1..Len(q) : (s \o q)[Len(s) + i] = q[i]
    OBVIOUS
  <2>2. \A i \in DOMAIN (s \o q) :
          i \in DOMAIN s \/ \E j \in DOMAIN q : i = Len(s) + j
    <3>1. ASSUME NEW i \in 1..(Len(s) + Len(q)), i \notin 1..Len(s)
          PROVE  i - Len(s) \in 1..Len(q) /\ i = Len(s) + (i - Len(s))
      BY <2>1, <3>1
    <3> QED
      BY <2>1, <3>1
  <2>3. \A i \in DOMAIN s, j \in DOMAIN q : ~(s[i] = v /\ q[j] = v)
    BY <1>3 DEF ToSet
  <2> SUFFICES ASSUME NEW i \in DOMAIN (s \o q), NEW k \in DOMAIN (s \o q),
                      (s \o q)[i] = v, (s \o q)[k] = v
               PROVE  i = k
    BY DEF Once
  <2>4. CASE i \in DOMAIN s /\ k \in DOMAIN s
    BY <1>3, <2>1, <2>4 DEF Once
  <2>5. CASE i \in DOMAIN s /\ k \notin DOMAIN s
    BY <2>1, <2>2, <2>3, <2>5
  <2>6. CASE i \notin DOMAIN s /\ k \in DOMAIN s
    BY <2>1, <2>2, <2>3, <2>6
  <2>7. CASE i \notin DOMAIN s /\ k \notin DOMAIN s
    <3>1. PICK j \in DOMAIN q : i = Len(s) + j
      BY <2>2, <2>7
    <3>2. PICK l \in DOMAIN q : k = Len(s) + l
      BY <2>2, <2>7
    <3>3. q[j] = v /\ q[l] = v
      BY <2>1, <3>1, <3>2
    <3> QED
      BY <1>3, <3>1, <3>2, <3>3 DEF Once
  <2> QED
    BY <2>4, <2>5, <2>6, <2>7
<1>4. ASSUME s # <<>>, Once(s, v)
      PROVE  Once(Tail(s), v) /\ (v = Head(s) => v \notin ToSet(Tail(s)))
  <2>1. /\ Len(s) \in Nat /\ Len(s) >= 1 /\ DOMAIN s = 1..Len(s)
        /\ Head(s) = s[1] /\ DOMAIN Tail(s) = 1..(Len(s) - 1)
        /\ \A i \in 1..(Len(s) - 1) : Tail(s)[i] = s[i + 1]
    BY <1>4
  <2>2. \A i \in DOMAIN Tail(s) : i \in Nat /\ i + 1 \in DOMAIN s /\ i + 1 # 1
    BY <2>1
  <2>3. Once(Tail(s), v)
    BY <1>4, <2>1, <2>2 DEF Once
  <2>4. ASSUME v = Head(s), v \in ToSet(Tail(s)) PROVE FALSE
    <3>1. PICK i \in DOMAIN Tail(s) : Tail(s)[i] = v
      BY <2>4 DEF ToSet
    <3>2. s[i + 1] = v /\ s[1] = v /\ 1 \in DOMAIN s
      BY <2>1, <2>2, <2>4, <3>1
    <3> QED
      BY <1>4, <2>2, <3>2 DEF Once
  <2> QED
    BY <2>3, <2>4
<1> QED
  BY <1>1, <1>2, <1>3, <1>4

-----------------------------------------------------------------------------
(* Steps.                                                                    *)

(* What a step leaves of the tabs when it gives one of them a new state.     *)
LEMMA NewTab ==
  ASSUME TypeOK, NEW t \in Tabs, NEW x \in Tab, tab' = [tab EXCEPT ![t] = x]
  PROVE  /\ tab' \in [Tabs -> Tab] /\ tab'[t] = x
         /\ \A u \in Tabs : u # t =>
              /\ tab'[u] = tab[u]
              /\ Carried(u)' = Carried(u) /\ Adds(u)' = Adds(u)
              /\ Unsent(u)' = Unsent(u) /\ Claiming(u)' = Claiming(u)
<1>1. tab' \in [Tabs -> Tab] /\ tab'[t] = x
  BY DEF TypeOK
<1>2. \A u \in Tabs : u # t => tab'[u] = tab[u]
  BY DEF TypeOK
<1> QED
  BY <1>1, <1>2 DEF Carried, Adds, Unsent, Claiming

(* The state in which a tab is opened.                                       *)
LEMMA Idle == IdleTab \in Tab
<1>1. <<>> \in Seq(Voices)
  OBVIOUS
<1> QED
  BY <1>1 DEF IdleTab, Tab, Flight, Replies

(* A voice that was doubted or shared stays so.                              *)
LEMMA Doubts ==
  ASSUME TypeOK, [Next]_vars
  PROVE  doubted \subseteq doubted' /\ shared \subseteq shared' /\ Tame' \subseteq Tame
<1>1. CASE UNCHANGED vars
  BY <1>1 DEF vars, Tame
<1>2. ASSUME NEW v \in Voices, ServeForm(v) \/ \E t \in Tabs : ServeDrain(t)
      PROVE  doubted \subseteq doubted' /\ shared \subseteq shared'
  BY <1>2 DEF ServeForm, ServeDrain, Serve
<1>3. ASSUME NEW v \in Voices,
             Answered(v) \/ OpenLink(v) \/ ServeLink(v) \/ LinkAnswered(v)
               \/ \E t \in Tabs : Submit(t, v)
      PROVE  doubted \subseteq doubted' /\ shared \subseteq shared'
  BY <1>3 DEF Answered, OpenLink, ServeLink, LinkAnswered, Submit, wall
<1>4. ASSUME NEW t \in Tabs, Flush(t) \/ Write(t) \/ SendNext(t) \/ Settle(t) \/ PutBack(t)
      PROVE  doubted \subseteq doubted' /\ shared \subseteq shared'
  BY <1>4 DEF Flush, Write, SendNext, Settle, PutBack, wall
<1>5. ASSUME NEW t \in Tabs, ServeDrain(t)
      PROVE  doubted \subseteq doubted' /\ shared \subseteq shared'
  BY <1>5 DEF ServeDrain, Serve
<1>6. ASSUME NEW t \in Tabs, CloseTab(t)
      PROVE  doubted \subseteq doubted' /\ shared \subseteq shared'
  BY <1>6 DEF CloseTab
<1>7. doubted \subseteq doubted' /\ shared \subseteq shared'
  BY <1>1, <1>2, <1>3, <1>4, <1>5, <1>6 DEF Next, vars
<1> QED
  BY <1>7 DEF Tame

(* One fault more, while there is room for it.                               *)
LEMMA OneFault ==
  ASSUME IInv, NEW n \in {0, 1}, Fault(n)
  PROVE  faults' \in 0..MaxFaults
BY QueueAssumption DEF Fault, IInv, TypeOK

(* What the server may answer: it has put on the Wall what it has accepted.  *)
LEMMA Answers ==
  ASSUME NEW v \in Voices, NEW o \in Outcomes(v)
  PROVE  /\ o.reply \in Replies /\ o.on \in BOOLEAN /\ o.fault \in {0, 1}
         /\ o.reply = "ok" => o.on
         /\ v \in Malformed => ~o.on
<1>1. CASE v \in Malformed
  <2>1. CASE o = [reply |-> "refused", on |-> FALSE, fault |-> 0]
    BY <1>1, <2>1 DEF Replies
  <2>2. CASE o = [reply |-> "lost", on |-> FALSE, fault |-> 1]
    BY <1>1, <2>2 DEF Replies
  <2> QED
    BY <1>1, <2>1, <2>2 DEF Outcomes
<1>2. CASE v \notin Malformed
  <2>1. CASE o = [reply |-> "ok", on |-> TRUE, fault |-> 0]
    BY <1>2, <2>1 DEF Replies
  <2>2. CASE o \in [reply : {"later", "lost"}, on : BOOLEAN, fault : {1}]
    BY <1>2, <2>2 DEF Replies
  <2> QED
    BY <1>2, <2>1, <2>2 DEF Outcomes
<1> QED
  BY <1>1, <1>2

(* The server has a request: a voice it accepts is doubted, unless it says so. *)
LEMMA Served ==
  ASSUME IInv, NEW v \in Voices, NEW o \in Outcomes(v), Serve(v, o)
  PROVE  /\ UNCHANGED <<store, link, withdrawn, shared, cut>>
         /\ Tame' \subseteq Tame
         /\ published' \in [Voices -> Nat] /\ published[v] \in Nat
         /\ \A w \in Voices : published'[w] >= published[w]
         /\ published'[v] = IF o.on THEN published[v] + 1 ELSE published[v]
         /\ \A w \in Voices : w # v => published'[w] = published[w]
         /\ v \in Tame' /\ o.on => o.reply = "ok"
         /\ faults' \in 0..MaxFaults /\ doubted' \subseteq Voices
<1>1. o.on \in BOOLEAN /\ o.fault \in {0, 1}
  BY Answers
<1>2. UNCHANGED <<store, link, withdrawn, shared, cut>>
  BY DEF Serve
<1>3. Tame' \subseteq Tame /\ doubted' \subseteq Voices
  BY DEF Serve, Tame, IInv, TypeOK
<1>4. faults' \in 0..MaxFaults
  BY <1>1, OneFault DEF Serve
<1>5. published \in [Voices -> Nat]
  BY DEF IInv, TypeOK
<1>6. /\ published' \in [Voices -> Nat]
      /\ published'[v] = IF o.on THEN published[v] + 1 ELSE published[v]
      /\ \A w \in Voices : w # v => published'[w] = published[w]
  BY <1>5 DEF Serve
<1>7. \A w \in Voices : published'[w] >= published[w]
  BY <1>1, <1>5, <1>6
<1>8. v \in Tame' /\ o.on => o.reply = "ok"
  BY DEF Serve, Tame
<1> QED
  BY <1>2, <1>3, <1>4, <1>5, <1>6, <1>7, <1>8

(* A voice stays published.                                                  *)
LEMMA Upwards ==
  ASSUME NEW m \in Nat, NEW n \in Nat, n >= m, m > 0
  PROVE  n > 0
OBVIOUS

(* Before the first step.                                                    *)
LEMMA InitIInv == Init => IInv
<1> SUFFICES ASSUME Init PROVE IInv
  OBVIOUS
<1>1. /\ IdleTab \in Tab /\ \A t \in Tabs : tab[t] = IdleTab
      /\ \A v \in Voices : form[v] = NoForm /\ link[v] = "ready" /\ published[v] = 0
      /\ store = <<>> /\ store \in Seq(Voices)
  BY Idle DEF Init
<1>2. NoForm \in Form
  BY DEF NoForm, Form, Flight, Replies
<1>3. TypeOK
  BY <1>1, <1>2, QueueAssumption DEF Init, TypeOK
<1>4. DrainsInOrder
  BY <1>1 DEF DrainsInOrder, IdleTab, NoForm
<1>5. ToSet(<<>>) = {} /\ \A v \in Voices : Once(<<>>, v)
  BY DEF ToSet, Once
<1>6. FormsFirst
  BY <1>1, <1>5 DEF FormsFirst, IdleTab, Carried, Tame
<1>7. HeldOnce
  BY <1>1, <1>5 DEF HeldOnce, Apart, IdleTab, Carried, Adds, Tame
<1>8. SentOnce /\ LinksTold
  BY <1>1 DEF SentOnce, Spent, LinksTold, Tame
<1> QED
  BY <1>3, <1>4, <1>6, <1>7, <1>8 DEF IInv

-----------------------------------------------------------------------------
(* The form and the link: neither touches the queue or a drain.              *)

(* A page is opened by a link, answers it or fails to.                       *)
LEMMA LinkStep ==
  ASSUME IInv, NEW v \in Voices, OpenLink(v) \/ ServeLink(v) \/ LinkAnswered(v)
  PROVE  IInv'
<1>1. /\ UNCHANGED <<store, tab, form, published, doubted, shared, cut>>
      /\ faults' \in 0..MaxFaults
      /\ \E l \in {"working", "answered", "done", "invalid"} : link' = [link EXCEPT ![v] = l]
  <2>1. CASE OpenLink(v) \/ ServeLink(v)
    BY <2>1 DEF OpenLink, ServeLink, wall, IInv, TypeOK
  <2>2. CASE LinkAnswered(v)
    <3>1. PICK answered \in BOOLEAN :
            Fault(IF answered THEN 0 ELSE 1) /\ link' = [link EXCEPT ![v] = Outcome(answered)]
      BY <2>2 DEF LinkAnswered
    <3>2. Outcome(answered) \in {"done", "invalid"}
      BY DEF Outcome
    <3>3. UNCHANGED <<store, tab, form, published, doubted, shared, cut>>
      BY <2>2 DEF LinkAnswered, wall
    <3>4. faults' \in 0..MaxFaults
      BY <3>1, OneFault
    <3> QED
      BY <3>1, <3>2, <3>3, <3>4
  <2> QED
    BY <2>1, <2>2
<1>2. withdrawn' \in [Voices -> Nat] /\ \A w \in Voices : withdrawn'[w] <= published[w]
  <2>1. CASE ServeLink(v)
    <3>1. published[v] > 0 /\ published[v] \in Nat
      BY <2>1 DEF ServeLink, IInv, TypeOK, LinksTold
    <3> QED
      BY <2>1, <3>1 DEF ServeLink, IInv, TypeOK
  <2>2. CASE OpenLink(v) \/ LinkAnswered(v)
    BY <2>2 DEF OpenLink, LinkAnswered, wall, IInv, TypeOK
  <2> QED
    BY <2>1, <2>2
<1>3. TypeOK'
  BY <1>1, <1>2 DEF IInv, TypeOK
<1>4. (DrainsInOrder /\ FormsFirst /\ HeldOnce /\ SentOnce)'
  BY <1>1 DEF IInv, DrainsInOrder, FormsFirst, HeldOnce, Apart, SentOnce, Spent, Tame, Claiming, Carried,
              Adds, Unsent
<1>5. LinksTold'
  <2>1. CASE OpenLink(v)
    BY <2>1 DEF OpenLink, wall, IInv, TypeOK, LinksTold
  <2>2. CASE ServeLink(v)
    BY <2>2 DEF ServeLink, IInv, TypeOK, LinksTold
  <2>3. CASE LinkAnswered(v)
    BY <2>3 DEF LinkAnswered, Outcome, wall, IInv, TypeOK, LinksTold
  <2> QED
    BY <2>1, <2>2, <2>3
<1> QED
  BY <1>3, <1>4, <1>5 DEF IInv

(* A form is sent: its voice is in nobody's hands.                           *)
LEMMA SubmitStep ==
  ASSUME IInv, NEW t \in Tabs, NEW v \in Voices, Submit(t, v)
  PROVE  IInv'
<1> DEFINE f == [state |-> "submitting", tab |-> t, reply |-> "sent"]
<1>1. f \in Form /\ f.state = "submitting" /\ f.tab = t /\ f.reply = "sent"
  BY DEF Form, Flight, Replies
<1> HIDE DEF f
<1>2. /\ form' \in [Voices -> Form] /\ form'[v] = f
      /\ \A w \in Voices : w # v => form'[w] = form[w]
      /\ UNCHANGED <<store, tab, link, published, withdrawn, doubted, faults, shared, cut>>
      /\ form[v].state \in {"idle", "error"}
  BY <1>1 DEF Submit, VoiceForm, wall, IInv, TypeOK, f
<1>3. TypeOK'
  BY <1>2 DEF IInv, TypeOK
<1>4. DrainsInOrder'
  BY <1>1, <1>2 DEF IInv, DrainsInOrder, Claiming
<1>5. FormsFirst'
  BY <1>1, <1>2 DEF IInv, FormsFirst, TypeOK, Tame, Carried
<1>6. (HeldOnce /\ SentOnce /\ LinksTold)'
  BY <1>2 DEF IInv, HeldOnce, Apart, SentOnce, Spent, LinksTold, Tame, Claiming, Carried, Adds, Unsent
<1> QED
  BY <1>3, <1>4, <1>5, <1>6 DEF IInv

(* The server has a request of a form: who is not told is doubted.           *)
LEMMA ServeFormStep ==
  ASSUME IInv, NEW v \in Voices, ServeForm(v)
  PROVE  IInv'
<1>1. PICK o \in Outcomes(v) : Serve(v, o) /\ form' = [form EXCEPT ![v].reply = o.reply]
  BY DEF ServeForm
<1>2. /\ o.reply \in Replies /\ o.on \in BOOLEAN /\ o.fault \in {0, 1}
      /\ o.reply = "ok" => o.on
  BY Answers
<1> DEFINE f == [form[v] EXCEPT !.reply = o.reply]
<1>3. /\ f \in Form /\ f.state = form[v].state /\ f.tab = form[v].tab /\ f.reply = o.reply
      /\ f.reply # "none"
  BY <1>2 DEF IInv, TypeOK, Form, Flight, Replies
<1> HIDE DEF f
<1>4. /\ form' \in [Voices -> Form] /\ form'[v] = f
      /\ \A w \in Voices : w # v => form'[w] = form[w]
  BY <1>1, <1>3 DEF IInv, TypeOK, f
<1>5. /\ UNCHANGED <<store, tab, link, withdrawn, shared, cut>>
      /\ Tame' \subseteq Tame
      /\ published' \in [Voices -> Nat] /\ published[v] \in Nat
      /\ \A w \in Voices : published'[w] >= published[w]
      /\ published'[v] = IF o.on THEN published[v] + 1 ELSE published[v]
      /\ \A w \in Voices : w # v => published'[w] = published[w]
      /\ v \in Tame' /\ o.on => o.reply = "ok"
      /\ faults' \in 0..MaxFaults /\ doubted' \subseteq Voices
  <2>1. UNCHANGED tab
    BY DEF ServeForm
  <2> QED
    BY <1>1, <2>1, Served
<1>6. form[v].state = "submitting" /\ form[v].tab \in Tabs /\ form[v].reply = "sent"
  BY DEF ServeForm, IInv, DrainsInOrder
<1>7. TypeOK'
  <2>1. \A w \in Voices : withdrawn'[w] <= published'[w]
    <3> SUFFICES ASSUME NEW w \in Voices PROVE withdrawn'[w] <= published'[w]
      OBVIOUS
    <3>1. /\ withdrawn[w] <= published[w] /\ published'[w] >= published[w]
          /\ withdrawn[w] \in Nat /\ published[w] \in Nat /\ published'[w] \in Nat
      BY <1>5 DEF IInv, TypeOK
    <3> QED
      BY <1>5, <3>1
  <2> QED
    BY <1>4, <1>5, <2>1 DEF IInv, TypeOK
<1>8. DrainsInOrder'
  BY <1>3, <1>4, <1>5, <1>6 DEF IInv, DrainsInOrder, Claiming
<1>9. v \in Tame => published[v] = 0
  BY <1>5, <1>6 DEF IInv, FormsFirst
<1>10. FormsFirst'
  BY <1>3, <1>4, <1>5, <1>6, <1>9 DEF IInv, FormsFirst, Tame, Carried
<1>11. HeldOnce'
  BY <1>5 DEF IInv, HeldOnce, Apart, Claiming, Carried, Adds
<1>12. SentOnce'
  <2>1. /\ v \notin ToSet(store)
        /\ \A t \in Tabs : v \notin Carried(t) /\ v \notin ToSet(tab[t].write)
    BY <1>6 DEF IInv, FormsFirst
  <2>2. \A t \in Tabs : v \notin Adds(t) /\ v \notin Unsent(t)
    BY <2>1 DEF Adds, Unsent, Carried
  <2> QED
    <3> SUFFICES ASSUME NEW w \in Voices, w \in Tame'
                 PROVE  /\ published'[w] <= 1
                        /\ w \notin ToSet(store)
                           \/ published'[w] = 0
                        /\ published'[w] > 0 =>
                             \A t \in Tabs : w \notin Adds(t) /\ w \notin Unsent(t)
      BY <1>5 DEF SentOnce, Spent, Adds, Unsent, Tame
    <3>1. CASE w = v
      BY <1>5, <1>9, <2>1, <2>2, <3>1
    <3>2. CASE w # v
      BY <1>5, <3>2 DEF IInv, SentOnce, Spent, TypeOK
    <3> QED
      BY <3>1, <3>2
<1>13. LinksTold'
  BY <1>5, Upwards DEF IInv, LinksTold
<1> QED
  BY <1>7, <1>8, <1>10, <1>11, <1>12, <1>13 DEF IInv

(* The answer to a form: only its absence puts the voice in the queue.       *)
LEMMA AnsweredStep ==
  ASSUME IInv, NEW v \in Voices, Answered(v)
  PROVE  IInv'
<1>1. /\ form[v].reply \in Replies /\ form[v].reply # "none" /\ form[v].tab \in Tabs
      /\ form[v].state = "submitting" /\ Free(form[v].tab)
      /\ UNCHANGED <<store, link, published, withdrawn, doubted, faults, shared, cut>>
  BY DEF Answered, wall, IInv, DrainsInOrder, Replies
<1>2. /\ form \in [Voices -> Form] /\ tab \in [Tabs -> Tab] /\ store \in Seq(Voices)
      /\ Tame' = Tame /\ TypeOK
  BY <1>1 DEF IInv, TypeOK, Tame
<1>3. CASE form[v].reply # "lost"
  <2> DEFINE s == IF form[v].reply = "ok" THEN "done" ELSE "error"
             f == [form[v] EXCEPT !.reply = "none", !.state = s]
  <2>1. /\ f \in Form /\ f.tab = form[v].tab /\ f.reply = "none"
        /\ f.state = IF form[v].reply = "ok" THEN "done" ELSE "error"
    BY <1>2 DEF Form, Flight, Replies
  <2>2. form' = [form EXCEPT ![v] = f] /\ UNCHANGED tab
    BY <1>3 DEF Answered
  <2> HIDE DEF f, s
  <2>3. /\ form' \in [Voices -> Form] /\ form'[v] = f
        /\ \A w \in Voices : w # v => form'[w] = form[w]
    BY <1>2, <2>1, <2>2
  <2>4. TypeOK'
    BY <1>1, <2>2, <2>3 DEF IInv, TypeOK
  <2>5. DrainsInOrder'
    BY <2>1, <2>2, <2>3 DEF IInv, DrainsInOrder, Claiming
  <2>6. FormsFirst'
    BY <1>1, <1>2, <2>1, <2>2, <2>3 DEF IInv, FormsFirst, Carried
  <2>7. (HeldOnce /\ SentOnce /\ LinksTold)'
    BY <1>1, <1>2, <2>2
    DEF IInv, HeldOnce, Apart, SentOnce, Spent, LinksTold, Claiming, Carried, Adds, Unsent
  <2> QED
    BY <2>4, <2>5, <2>6, <2>7 DEF IInv
<1>4. CASE form[v].reply = "lost"
  <2>0. PICK t \in Tabs : t = form[v].tab
    BY <1>1
  <2> DEFINE f == [form[v] EXCEPT !.state = "queued", !.reply = "none"]
             x == [tab[t] EXCEPT !.writing = TRUE, !.read = store, !.write = Append(store, v)]
  <2>1. /\ f \in Form /\ f.tab = form[v].tab /\ f.reply = "none" /\ f.state = "queued"
    BY <1>2 DEF Form, Flight, Replies
  <2>2. /\ x \in Tab /\ x.drain = tab[t].drain /\ x.claimed = tab[t].claimed
        /\ x.putBack = tab[t].putBack /\ x.reply = tab[t].reply
        /\ x.writing = TRUE /\ x.read = store /\ x.write = Append(store, v)
    <3>1. tab[t] \in Tab /\ Append(store, v) \in Seq(Voices)
      BY <1>1, <1>2, Elements
    <3> QED
      BY <1>2, <3>1 DEF Tab
  <2>3. form' = [form EXCEPT ![v] = f] /\ tab' = [tab EXCEPT ![t] = x]
    BY <1>4, <2>0 DEF Answered
  <2> HIDE DEF f, x
  <2>4. /\ form' \in [Voices -> Form] /\ form'[v] = f
        /\ \A w \in Voices : w # v => form'[w] = form[w]
    BY <1>2, <2>1, <2>3
  <2>5. /\ tab' \in [Tabs -> Tab] /\ tab'[t] = x
        /\ \A u \in Tabs : u # t =>
             /\ tab'[u] = tab[u]
             /\ Carried(u)' = Carried(u) /\ Adds(u)' = Adds(u)
             /\ Unsent(u)' = Unsent(u) /\ Claiming(u)' = Claiming(u)
    BY <1>2, <2>2, <2>3, NewTab
  <2>6. /\ Carried(t)' = Carried(t) /\ Unsent(t)' = Unsent(t) /\ Claiming(t)' = FALSE
        /\ Claiming(t) = FALSE /\ Adds(t) = {} /\ Adds(t)' \subseteq {v} /\ Append(store, v) # <<>>
    <3>1. ToSet(Append(store, v)) = ToSet(store) \union {v} /\ Append(store, v) # <<>>
      BY <1>2, Elements
    <3>2. tab[t].writing = FALSE
      BY <1>1, <1>2, <2>0 DEF Free, Tab
    <3>3. Carried(t)' = Carried(t)
      BY <2>2, <2>5 DEF Carried
    <3>4. Unsent(t)' = Unsent(t)
      BY <2>2, <2>5 DEF Unsent
    <3>5. Claiming(t)' = FALSE /\ Claiming(t) = FALSE
      BY <2>2, <2>5, <3>1, <3>2 DEF Claiming
    <3>6. Adds(t) = {} /\ Adds(t)' \subseteq {v}
      BY <2>2, <2>5, <3>1, <3>2 DEF Adds
    <3> QED
      BY <3>1, <3>3, <3>4, <3>5, <3>6
  <2>7. /\ v \notin ToSet(store) /\ (v \in Tame => published[v] = 0)
        /\ \A u \in Tabs : /\ v \notin Carried(u) /\ v \notin ToSet(tab[u].write)
                           /\ v \notin Adds(u) /\ v \notin Unsent(u)
    <3>1. /\ v \notin ToSet(store)
          /\ \A u \in Tabs : v \notin Carried(u) /\ v \notin ToSet(tab[u].write)
      BY <1>1 DEF IInv, FormsFirst
    <3>2. \A u \in Tabs : v \notin Adds(u) /\ v \notin Unsent(u)
      BY <3>1 DEF Carried, Adds, Unsent
    <3>3. published[v] \in Nat
      BY <1>2 DEF TypeOK
    <3> QED
      BY <1>1, <1>4, <3>1, <3>2, <3>3 DEF IInv, FormsFirst
  <2>8. TypeOK'
    BY <1>1, <2>4, <2>5 DEF IInv, TypeOK
  <2>9. DrainsInOrder'
    BY <1>1, <2>1, <2>2, <2>4, <2>5, <2>6 DEF IInv, DrainsInOrder
  <2>10. FormsFirst'
    <3>1. ToSet(Append(store, v)) = ToSet(store) \union {v}
      BY <1>2, Elements
    <3>2. /\ ToSet(x.write) = ToSet(store) \union {v} /\ ToSet(x.read) = ToSet(store)
          /\ \A u \in Tabs : Carried(u)' = Carried(u)
      BY <2>2, <2>5, <2>6, <3>1
    <3>3. ASSUME NEW w \in Voices, form'[w].state # "queued", NEW u \in Tabs
          PROVE  /\ w \notin ToSet(store) /\ w \notin Carried(u)
                 /\ w \notin ToSet(tab'[u].read) /\ w \notin ToSet(tab'[u].write)
      <4>1. w # v /\ form[w].state # "queued"
        BY <2>1, <2>4, <3>3
      <4>2. /\ w \notin ToSet(store) /\ w \notin Carried(u)
            /\ w \notin ToSet(tab[u].read) /\ w \notin ToSet(tab[u].write)
        BY <4>1 DEF IInv, FormsFirst
      <4> QED
        BY <2>5, <3>2, <4>1, <4>2
    <3>4. \A w \in Voices : form'[w].state # "queued" => w \notin ToSet(store)
      BY <1>1, <2>1, <2>4 DEF IInv, FormsFirst
    <3>5. \A w \in Tame : published[w] > 0 =>
             \/ form'[w].state \in {"queued", "done"}
             \/ form'[w].state = "submitting" /\ form'[w].reply = "ok"
      BY <2>1, <2>4 DEF IInv, FormsFirst, Tame
    <3> QED
      BY <1>1, <1>2, <3>2, <3>3, <3>4, <3>5 DEF FormsFirst
  <2>11. HeldOnce'
    <3> SUFFICES ASSUME NEW w \in Voices, w \in Tame
                 PROVE  Apart(w)'
      BY <1>2 DEF HeldOnce, Apart, Tame
    <3>1. Once(Append(store, v), w)
      BY <1>2, <2>7, Occurrences DEF IInv, HeldOnce, Apart
    <3>2. Apart(w)
      BY DEF IInv, HeldOnce
    <3>3. ASSUME NEW u \in Tabs
          PROVE  /\ Once(tab'[u].write, w) /\ Once(tab'[u].claimed, w) /\ Once(tab'[u].putBack, w)
                 /\ w \in ToSet(tab'[u].claimed) => w \notin ToSet(tab'[u].putBack)
      BY <2>2, <2>5, <3>1, <3>2 DEF Apart
    <3>4. \A u \in Tabs : Carried(u)' = Carried(u) /\ Claiming(u)' = Claiming(u)
      BY <2>5, <2>6
    <3>5. \A u \in Tabs : w \in Adds(u)' => w \in Adds(u) \/ (w = v /\ u = t)
      BY <2>5, <2>6
    <3> QED
      BY <1>1, <2>7, <3>2, <3>3, <3>4, <3>5 DEF Apart
  <2>12. SentOnce'
    BY <1>1, <1>2, <2>5, <2>6, <2>7 DEF IInv, SentOnce, Spent
  <2>13. LinksTold'
    BY <1>1 DEF IInv, LinksTold
  <2> QED
    BY <2>8, <2>9, <2>10, <2>11, <2>12, <2>13 DEF IInv
<1> QED
  BY <1>3, <1>4

-----------------------------------------------------------------------------
(* The drains: steps that give one tab a new state and leave the forms.      *)

(* The drain sends the next voice it has claimed, or has none left.          *)
LEMMA SendNextStep ==
  ASSUME IInv, NEW t \in Tabs, SendNext(t)
  PROVE  IInv'
<1>1. /\ tab[t] \in Tab /\ tab[t].writing = FALSE /\ tab[t].reply = "none" /\ TypeOK
      /\ UNCHANGED <<store, form, link, published, withdrawn, doubted, faults, shared, cut>>
  BY DEF SendNext, Free, wall, IInv, TypeOK, Tab
<1> DEFINE x == IF tab[t].claimed = <<>> THEN [tab[t] EXCEPT !.drain = "ending"]
                ELSE [tab[t] EXCEPT !.reply = "sent"]
<1>2. /\ x \in Tab /\ x.claimed = tab[t].claimed /\ x.putBack = tab[t].putBack
      /\ x.writing = FALSE /\ x.read = tab[t].read /\ x.write = tab[t].write
      /\ x.reply \in {"none", "sent"} /\ (x.reply = "sent" => tab[t].claimed # <<>>)
  BY <1>1 DEF Tab, Flight
<1>3. tab' = [tab EXCEPT ![t] = x]
  BY DEF SendNext
<1> HIDE DEF x
<1>4. /\ tab' \in [Tabs -> Tab] /\ tab'[t] = x
      /\ \A u \in Tabs : u # t =>
           /\ tab'[u] = tab[u]
           /\ Carried(u)' = Carried(u) /\ Adds(u)' = Adds(u)
           /\ Unsent(u)' = Unsent(u) /\ Claiming(u)' = Claiming(u)
  BY <1>1, <1>2, <1>3, NewTab
<1>5. Carried(t)' = Carried(t)
  BY <1>2, <1>4 DEF Carried
<1>6. Adds(t)' = Adds(t) /\ Claiming(t)' = FALSE /\ Claiming(t) = FALSE
  BY <1>1, <1>2, <1>4 DEF Adds, Claiming
<1>7. Unsent(t)' = Unsent(t)
  BY <1>1, <1>2, <1>4 DEF Unsent
<1>8. Tame' = Tame
  BY <1>1 DEF Tame
<1>9. TypeOK'
  BY <1>1, <1>4 DEF TypeOK
<1>10. DrainsInOrder'
  BY <1>1, <1>2, <1>4, <1>6 DEF IInv, DrainsInOrder
<1>11. \A u \in Tabs : /\ Carried(u)' = Carried(u) /\ Adds(u)' = Adds(u)
                       /\ Claiming(u)' = Claiming(u) /\ Unsent(u)' = Unsent(u)
                       /\ tab'[u].claimed = tab[u].claimed /\ tab'[u].putBack = tab[u].putBack
                       /\ tab'[u].read = tab[u].read /\ tab'[u].write = tab[u].write
  BY <1>2, <1>4, <1>5, <1>6, <1>7
<1>12. (FormsFirst /\ LinksTold)'
  BY <1>1, <1>8, <1>11 DEF IInv, FormsFirst, LinksTold
<1>13. (HeldOnce /\ SentOnce)'
  BY <1>1, <1>8, <1>11 DEF IInv, HeldOnce, Apart, SentOnce, Spent
<1> QED
  BY <1>9, <1>10, <1>12, <1>13 DEF IInv

(* A voice that was answered for is done with, or is to go back.             *)
LEMMA SettleStep ==
  ASSUME IInv, NEW t \in Tabs, Settle(t)
  PROVE  IInv'
<1>1. /\ tab[t] \in Tab /\ tab[t].writing = FALSE /\ tab[t].reply \in Replies /\ TypeOK
      /\ UNCHANGED <<store, form, link, published, withdrawn, doubted, faults, shared, cut>>
  BY DEF Settle, Free, wall, IInv, TypeOK, Tab
<1> DEFINE h == Head(tab[t].claimed)
           back == IF tab[t].reply \in NotFinal THEN Append(tab[t].putBack, h)
                   ELSE tab[t].putBack
           x == [tab[t] EXCEPT !.reply = "none", !.claimed = Tail(tab[t].claimed),
                               !.putBack = back]
<1>0. tab' = [tab EXCEPT ![t] = x]
  BY DEF Settle
<1>2. PICK c \in Seq(Voices), p \in Seq(Voices) : c = tab[t].claimed /\ p = tab[t].putBack
  BY <1>1 DEF Tab
<1>3. c # <<>>
  BY <1>1, <1>2 DEF IInv, DrainsInOrder, Replies
<1>4. PICK g \in Voices : g = Head(c)
  BY <1>3, Elements
<1>5. /\ Tail(c) \in Seq(Voices) /\ ToSet(c) = {g} \union ToSet(Tail(c))
      /\ Append(p, g) \in Seq(Voices) /\ ToSet(Append(p, g)) = ToSet(p) \union {g}
  BY <1>3, <1>4, Elements
<1>6. /\ back \in Seq(Voices)
      /\ back = Append(p, g) \/ back = p
      /\ tab[t].reply = "ok" => back = p
  BY <1>2, <1>4, <1>5 DEF NotFinal
<1> HIDE DEF h, back
<1>7. /\ x \in Tab /\ x.claimed = Tail(c) /\ x.putBack = back /\ x.reply = "none"
      /\ x.writing = FALSE /\ x.read = tab[t].read /\ x.write = tab[t].write
  BY <1>1, <1>2, <1>5, <1>6 DEF Tab, Flight
<1>8. tab' = [tab EXCEPT ![t] = x]
  BY <1>0
<1> HIDE DEF x
<1>9. /\ tab' \in [Tabs -> Tab] /\ tab'[t] = x
      /\ \A u \in Tabs : u # t =>
           /\ tab'[u] = tab[u]
           /\ Carried(u)' = Carried(u) /\ Adds(u)' = Adds(u)
           /\ Unsent(u)' = Unsent(u) /\ Claiming(u)' = Claiming(u)
  BY <1>1, <1>7, <1>8, NewTab
<1>10. Carried(t) = ToSet(c) \union ToSet(p) /\ Carried(t)' = ToSet(Tail(c)) \union ToSet(back)
  BY <1>2, <1>7, <1>9 DEF Carried
<1>11. Carried(t)' \subseteq Carried(t)
  BY <1>5, <1>6, <1>10
<1>12. Adds(t)' = Adds(t) /\ Claiming(t)' = FALSE /\ Claiming(t) = FALSE
  BY <1>1, <1>7, <1>9 DEF Adds, Claiming
<1>13. Tame' = Tame
  BY <1>1 DEF Tame
<1>14. \A u \in Tabs : /\ Carried(u)' \subseteq Carried(u) /\ Adds(u)' = Adds(u)
                       /\ Claiming(u)' = Claiming(u)
                       /\ tab'[u].read = tab[u].read /\ tab'[u].write = tab[u].write
  BY <1>7, <1>9, <1>11, <1>12
<1>15. TypeOK'
  BY <1>1, <1>9 DEF TypeOK
<1>16. DrainsInOrder'
  BY <1>1, <1>7, <1>9 DEF IInv, DrainsInOrder, Claiming
<1>17. (FormsFirst /\ LinksTold)'
  BY <1>1, <1>13, <1>14 DEF IInv, FormsFirst, LinksTold
<1>18. ASSUME NEW v \in Tame PROVE Apart(v)' /\ Spent(v)'
  <2>1. Apart(v) /\ Spent(v) /\ v \in Voices
    BY DEF IInv, HeldOnce, SentOnce, Tame
  <2>2. /\ Once(c, v) /\ Once(p, v) /\ (v \in ToSet(c) => v \notin ToSet(p))
        /\ Once(tab[t].write, v)
    BY <1>2, <2>1 DEF Apart
  <2>3. Once(Tail(c), v) /\ (v = g => v \notin ToSet(Tail(c)))
    BY <1>3, <1>4, <2>1, <2>2, Occurrences
  <2>4. v = g => v \notin ToSet(p)
    BY <1>5, <2>2
  <2>5. Once(back, v) /\ (v \in ToSet(Tail(c)) => v \notin ToSet(back))
    <3>1. Once(Append(p, g), v)
      BY <2>1, <2>2, <2>4, Occurrences
    <3> QED
      BY <1>5, <1>6, <2>2, <2>3, <3>1
  <2>6. Unsent(t)' = ToSet(back) \union ToSet(Tail(c))
    BY <1>7, <1>9 DEF Unsent
  <2>7. v \in Unsent(t)' => v \in Unsent(t)
    <3>1. CASE tab[t].reply = "ok"
      BY <1>2, <1>4, <1>5, <1>6, <2>3, <2>6, <3>1 DEF Unsent
    <3>2. CASE tab[t].reply # "ok"
      BY <1>2, <1>5, <1>6, <2>6, <3>2 DEF Unsent
    <3> QED
      BY <3>1, <3>2
  <2>8. \A u \in Tabs :
          /\ Once(tab'[u].write, v) /\ Once(tab'[u].claimed, v) /\ Once(tab'[u].putBack, v)
          /\ v \in ToSet(tab'[u].claimed) => v \notin ToSet(tab'[u].putBack)
    BY <1>7, <1>9, <2>1, <2>2, <2>3, <2>5 DEF Apart
  <2>9. Apart(v)'
    BY <1>1, <1>14, <2>1, <2>8 DEF Apart
  <2>10. Spent(v)'
    BY <1>1, <1>9, <1>14, <2>1, <2>7 DEF Spent
  <2> QED
    BY <2>9, <2>10
<1> QED
  BY <1>13, <1>15, <1>16, <1>17, <1>18 DEF IInv, HeldOnce, SentOnce

(* The server has a request of a drain: the voice it accepts is not sent     *)
(* again, as the tab is told, or it is doubted.                              *)
LEMMA ServeDrainStep ==
  ASSUME IInv, NEW t \in Tabs, ServeDrain(t)
  PROVE  IInv'
<1>1. /\ tab[t] \in Tab /\ tab[t].reply = "sent" /\ TypeOK /\ UNCHANGED form
      /\ tab[t].claimed # <<>> /\ Claiming(t) = FALSE
  BY DEF ServeDrain, IInv, TypeOK, DrainsInOrder, Claiming
<1>2. PICK c \in Seq(Voices) : c = tab[t].claimed
  BY <1>1 DEF Tab
<1>3. PICK g \in Voices : g = Head(c)
  BY <1>1, <1>2, Elements
<1>4. ToSet(c) = {g} \union ToSet(Tail(c))
  BY <1>1, <1>2, <1>3, Elements
<1>5. PICK o \in Outcomes(g) : Serve(g, o) /\ tab' = [tab EXCEPT ![t].reply = o.reply]
  BY <1>2, <1>3 DEF ServeDrain
<1>6. /\ o.reply \in Replies /\ o.on \in BOOLEAN /\ (o.reply = "ok" => o.on)
  BY Answers
<1> DEFINE x == [tab[t] EXCEPT !.reply = o.reply]
<1>7. /\ x \in Tab /\ x.claimed = tab[t].claimed /\ x.putBack = tab[t].putBack
      /\ x.reply = o.reply /\ x.writing = tab[t].writing
      /\ x.read = tab[t].read /\ x.write = tab[t].write
  BY <1>1, <1>6 DEF Tab, Flight
<1>8. tab' = [tab EXCEPT ![t] = x]
  BY <1>5
<1> HIDE DEF x
<1>9. /\ tab' \in [Tabs -> Tab] /\ tab'[t] = x
      /\ \A u \in Tabs : u # t =>
           /\ tab'[u] = tab[u]
           /\ Carried(u)' = Carried(u) /\ Adds(u)' = Adds(u)
           /\ Unsent(u)' = Unsent(u) /\ Claiming(u)' = Claiming(u)
  BY <1>1, <1>7, <1>8, NewTab
<1>10. /\ UNCHANGED <<store, link, withdrawn, shared, cut>>
       /\ Tame' \subseteq Tame
       /\ published' \in [Voices -> Nat] /\ published[g] \in Nat
       /\ \A w \in Voices : published'[w] >= published[w]
       /\ published'[g] = IF o.on THEN published[g] + 1 ELSE published[g]
       /\ \A w \in Voices : w # g => published'[w] = published[w]
       /\ g \in Tame' /\ o.on => o.reply = "ok"
       /\ faults' \in 0..MaxFaults /\ doubted' \subseteq Voices
  BY <1>5, Served
<1>11. /\ Carried(t)' = Carried(t) /\ Adds(t)' = Adds(t)
       /\ Claiming(t)' = Claiming(t) /\ Unsent(t)' \subseteq Unsent(t)
       /\ g \in Unsent(t) /\ g \in Carried(t) /\ g \in ToSet(c)
  <2>1. Carried(t)' = Carried(t) /\ Adds(t)' = Adds(t) /\ Claiming(t)' = Claiming(t)
    BY <1>7, <1>9 DEF Carried, Adds, Claiming
  <2>2. g \in Carried(t) /\ g \in ToSet(c)
    BY <1>2, <1>4 DEF Carried
  <2>3. Unsent(t)' \subseteq Unsent(t) /\ g \in Unsent(t)
    BY <1>1, <1>2, <1>7, <1>9, <2>2 DEF Unsent
  <2> QED
    BY <2>1, <2>2, <2>3
<1>12. g \in Tame => published[g] = 0
  BY <1>10, <1>11 DEF IInv, SentOnce, Spent
<1>13. \A u \in Tabs : /\ Carried(u)' = Carried(u) /\ Adds(u)' = Adds(u)
                       /\ Claiming(u)' = Claiming(u) /\ Unsent(u)' \subseteq Unsent(u)
                       /\ tab'[u].claimed = tab[u].claimed /\ tab'[u].putBack = tab[u].putBack
                       /\ tab'[u].read = tab[u].read /\ tab'[u].write = tab[u].write
  BY <1>7, <1>9, <1>11
<1>14. TypeOK'
  <2>1. \A w \in Voices : withdrawn'[w] <= published'[w]
    <3> SUFFICES ASSUME NEW w \in Voices PROVE withdrawn'[w] <= published'[w]
      OBVIOUS
    <3>1. /\ withdrawn[w] <= published[w] /\ published'[w] >= published[w]
          /\ withdrawn[w] \in Nat /\ published[w] \in Nat /\ published'[w] \in Nat
      BY <1>1, <1>10 DEF TypeOK
    <3> QED
      BY <1>10, <3>1
  <2> QED
    BY <1>1, <1>9, <1>10, <2>1 DEF TypeOK
<1>15. DrainsInOrder'
  BY <1>1, <1>7, <1>9, <1>10, <1>11 DEF IInv, DrainsInOrder
<1>16. FormsFirst'
  <2>1. form[g].state = "queued"
    BY <1>11 DEF IInv, FormsFirst
  <2> QED
    BY <1>1, <1>10, <1>13, <2>1 DEF IInv, FormsFirst
<1>17. HeldOnce'
  BY <1>10, <1>13 DEF IInv, HeldOnce, Apart
<1>18. SentOnce'
  <2> SUFFICES ASSUME NEW w \in Tame' PROVE Spent(w)'
    BY DEF SentOnce
  <2>1. Spent(w) /\ Apart(w) /\ w \in Voices
    BY <1>10 DEF IInv, SentOnce, HeldOnce, Tame
  <2>2. CASE w # g \/ ~o.on
    BY <1>6, <1>10, <1>13, <2>1, <2>2 DEF Spent
  <2>3. CASE w = g /\ o.on
    <3>1. published'[w] = 1 /\ o.reply = "ok"
      BY <1>10, <1>12, <2>3
    <3>2. /\ w \notin ToSet(store) /\ w \notin ToSet(tab[t].putBack)
          /\ \A u \in Tabs : w \notin Adds(u) /\ (u # t => w \notin Carried(u))
      BY <1>1, <1>2, <1>11, <2>1, <2>3 DEF Apart
    <3>3. \A u \in Tabs : Unsent(u) \subseteq Carried(u)
      BY DEF Unsent, Carried
    <3>4. w \notin Unsent(t)'
      BY <1>2, <1>3, <1>7, <1>9, <2>3, <3>1, <3>2 DEF Unsent
    <3> QED
      BY <1>9, <1>10, <1>13, <3>1, <3>2, <3>3, <3>4 DEF Spent
  <2> QED
    BY <2>2, <2>3
<1>19. LinksTold'
  BY <1>1, <1>10, Upwards DEF IInv, LinksTold, TypeOK
<1> QED
  BY <1>14, <1>15, <1>16, <1>17, <1>18, <1>19 DEF IInv

(* The claim of the queue: what other tabs carry of it is shared.            *)
LEMMA FlushStep ==
  ASSUME IInv, NEW t \in Tabs, Flush(t)
  PROVE  IInv'
<1>1. /\ TypeOK /\ store \in Seq(Voices) /\ store # <<>>
      /\ UNCHANGED <<store, form, link, published, withdrawn, doubted, faults, cut>>
      /\ \A u \in Tabs : u # t => ToSet(store) \intersect Carried(u) \subseteq shared'
      /\ shared \subseteq shared' /\ shared' \subseteq Voices
  <2>1. ToSet(store) \subseteq Voices
    BY DEF IInv, TypeOK, ToSet
  <2> QED
    BY <2>1 DEF Flush, wall, IInv, TypeOK
<1>2. PICK s \in Seq(Voices) : s = store
  BY <1>1
<1> DEFINE x == [IdleTab EXCEPT !.drain = "sending", !.claimed = s,
                   !.writing = TRUE, !.read = s, !.write = <<>>]
<1>3. /\ x \in Tab /\ x.claimed = s /\ x.putBack = <<>> /\ x.reply = "none"
      /\ x.writing = TRUE /\ x.read = s /\ x.write = <<>>
  <2>1. <<>> \in Seq(Voices)
    OBVIOUS
  <2> QED
    BY <2>1 DEF IdleTab, Tab, Flight
<1>4. tab' = [tab EXCEPT ![t] = x]
  BY <1>2 DEF Flush, AfterClaim
<1> HIDE DEF x
<1>5. /\ tab' \in [Tabs -> Tab] /\ tab'[t] = x
      /\ \A u \in Tabs : u # t =>
           /\ tab'[u] = tab[u]
           /\ Carried(u)' = Carried(u) /\ Adds(u)' = Adds(u)
           /\ Unsent(u)' = Unsent(u) /\ Claiming(u)' = Claiming(u)
  BY <1>1, <1>3, <1>4, NewTab
<1>6. ToSet(<<>>) = {} /\ \A v \in Voices : Once(<<>>, v)
  BY DEF ToSet, Once
<1>7. /\ Carried(t)' = ToSet(s) /\ Adds(t)' = {} /\ Claiming(t)' = TRUE
      /\ Unsent(t)' = ToSet(s)
  BY <1>3, <1>5, <1>6 DEF Carried, Adds, Claiming, Unsent
<1>8. Tame' \subseteq Tame
  BY <1>1 DEF Tame
<1>9. TypeOK'
  BY <1>1, <1>5 DEF TypeOK
<1>10. DrainsInOrder'
  BY <1>1, <1>3, <1>5 DEF IInv, DrainsInOrder
<1>11. FormsFirst'
  BY <1>1, <1>2, <1>3, <1>5, <1>6, <1>7, <1>8 DEF IInv, FormsFirst
<1>12. ASSUME NEW v \in Tame' PROVE Apart(v)' /\ Spent(v)'
  <2>1. Apart(v) /\ Spent(v) /\ v \in Voices
    BY <1>8 DEF IInv, HeldOnce, SentOnce, Tame
  <2>2. \A u \in Tabs : u # t /\ v \in ToSet(s) => v \notin Carried(u)
    BY <1>1, <1>2 DEF Tame
  <2>3. Apart(v)'
    BY <1>1, <1>2, <1>3, <1>5, <1>6, <1>7, <2>1, <2>2 DEF Apart
  <2>4. Spent(v)'
    BY <1>1, <1>2, <1>5, <1>7, <2>1 DEF Spent
  <2> QED
    BY <2>3, <2>4
<1>13. LinksTold'
  BY <1>1 DEF IInv, LinksTold
<1> QED
  BY <1>9, <1>10, <1>11, <1>12, <1>13 DEF IInv, HeldOnce, SentOnce

(* A write of the queue, or the store's refusal of it.                       *)
LEMMA WriteStep ==
  ASSUME IInv, NEW t \in Tabs, Write(t)
  PROVE  IInv'
<1>1. /\ tab[t] \in Tab /\ tab[t].writing = TRUE /\ TypeOK
      /\ UNCHANGED <<form, link, published, withdrawn, doubted>>
  BY DEF Write, wall, IInv, TypeOK, Tab
<1> DEFINE x == [tab[t] EXCEPT !.writing = FALSE, !.read = <<>>, !.write = <<>>]
<1>2. PICK rd \in Seq(Voices), wr \in Seq(Voices) : rd = tab[t].read /\ wr = tab[t].write
  BY <1>1 DEF Tab
<1>3. /\ x \in Tab /\ x.claimed = tab[t].claimed /\ x.putBack = tab[t].putBack
      /\ x.reply = tab[t].reply /\ x.writing = FALSE /\ x.read = <<>> /\ x.write = <<>>
  <2>1. <<>> \in Seq(Voices)
    OBVIOUS
  <2> QED
    BY <1>1, <2>1 DEF Tab
<1>4. tab' = [tab EXCEPT ![t] = x]
  BY DEF Write
<1> HIDE DEF x
<1>5. /\ tab' \in [Tabs -> Tab] /\ tab'[t] = x
      /\ \A u \in Tabs : u # t =>
           /\ tab'[u] = tab[u]
           /\ Carried(u)' = Carried(u) /\ Adds(u)' = Adds(u)
           /\ Unsent(u)' = Unsent(u) /\ Claiming(u)' = Claiming(u)
  BY <1>1, <1>3, <1>4, NewTab
<1>6. /\ ToSet(<<>>) = {} /\ \A v \in Voices : Once(<<>>, v)
      /\ ToSet(store) \subseteq Voices /\ ToSet(rd) \subseteq Voices /\ ToSet(wr) \subseteq Voices
  BY <1>1 DEF TypeOK, ToSet, Once
<1>7. /\ Carried(t)' = Carried(t) /\ Unsent(t)' = Unsent(t) /\ Claiming(t)' = FALSE
      /\ Adds(t)' = {} /\ Adds(t) = ToSet(wr) \ ToSet(rd) /\ (Claiming(t) => wr = <<>>)
  BY <1>1, <1>2, <1>3, <1>5 DEF Carried, Unsent, Claiming, Adds
<1>8. \/ /\ store' = wr /\ faults' = faults
         /\ cut' = cut \union (ToSet(store) \ ToSet(rd))
         /\ shared' = shared \union ((ToSet(rd) \intersect ToSet(wr)) \ ToSet(store))
      \/ /\ store' = store /\ shared' = shared /\ wr # <<>>
         /\ cut' = cut \union (ToSet(wr) \ ToSet(store))
         /\ Fault(1)
  <2>1. CASE store' = tab[t].write
    <3>1. CASE faults' = faults
      BY <1>2, <2>1 DEF Write
    <3> QED
      BY <1>2 DEF Write
  <2> QED
    BY <1>2 DEF Write
<1>9. /\ faults' \in 0..MaxFaults /\ store' \in Seq(Voices)
      /\ cut' \subseteq Voices /\ shared' \subseteq Voices /\ Tame' \subseteq Tame
  <2>1. faults' \in 0..MaxFaults
    BY <1>1, <1>8, OneFault DEF TypeOK
  <2>2. store' \in Seq(Voices)
    BY <1>1, <1>8 DEF TypeOK
  <2>3. cut' \subseteq Voices /\ shared' \subseteq Voices
    BY <1>1, <1>6, <1>8 DEF TypeOK
  <2> QED
    BY <1>1, <1>8, <2>1, <2>2, <2>3 DEF Tame
<1>10. \A v \in Tame' : v \in ToSet(store') => v \in ToSet(store) \/ v \in Adds(t)
  BY <1>7, <1>8 DEF Tame
<1>11. \A v \in ToSet(store') : v \in ToSet(store) \/ v \in ToSet(wr)
  BY <1>8
<1>12. TypeOK'
  BY <1>1, <1>5, <1>9 DEF TypeOK
<1>13. DrainsInOrder'
  BY <1>1, <1>3, <1>5, <1>7 DEF IInv, DrainsInOrder
<1>14. FormsFirst'
  BY <1>1, <1>2, <1>3, <1>5, <1>6, <1>7, <1>9, <1>11 DEF IInv, FormsFirst
<1>15. ASSUME NEW v \in Tame' PROVE Apart(v)' /\ Spent(v)'
  <2>1. Apart(v) /\ Spent(v) /\ v \in Voices
    BY <1>9 DEF IInv, HeldOnce, SentOnce, Tame
  <2>2. Once(store', v)
    BY <1>2, <1>8, <2>1 DEF Apart
  <2>3. \A u \in Tabs :
          /\ Once(tab'[u].write, v) /\ Once(tab'[u].claimed, v) /\ Once(tab'[u].putBack, v)
          /\ v \in ToSet(tab'[u].claimed) => v \notin ToSet(tab'[u].putBack)
    BY <1>3, <1>5, <1>6, <2>1 DEF Apart
  <2>4. \A u \in Tabs : Carried(u)' = Carried(u) /\ Unsent(u)' = Unsent(u)
    BY <1>5, <1>7
  <2>5. \A u \in Tabs : v \in Adds(u)' => v \in Adds(u) /\ u # t
    BY <1>5, <1>7
  <2>6. ASSUME NEW u \in Tabs, v \in Carried(u), v \in ToSet(store')
        PROVE  Claiming(u)'
    <3>1. v \in ToSet(store) /\ Claiming(u)
      BY <1>10, <2>1, <2>6 DEF Apart
    <3>2. u # t
      <4>1. CASE store' = wr
        BY <1>6, <1>7, <2>6, <3>1, <4>1
      <4>2. CASE wr # <<>>
        BY <1>7, <3>1, <4>2
      <4> QED
        BY <1>8, <4>1, <4>2
    <3> QED
      BY <1>5, <3>1, <3>2
  <2>7. ASSUME NEW u \in Tabs, v \in Adds(u)' PROVE v \notin ToSet(store')
    BY <1>10, <2>1, <2>5, <2>7 DEF Apart
  <2>8. Apart(v)'
    BY <2>1, <2>2, <2>3, <2>4, <2>5, <2>6, <2>7 DEF Apart
  <2>9. Spent(v)'
    BY <1>1, <1>10, <2>1, <2>4, <2>5 DEF Spent
  <2> QED
    BY <2>8, <2>9
<1>16. LinksTold'
  BY <1>1 DEF IInv, LinksTold
<1> QED
  BY <1>12, <1>13, <1>14, <1>15, <1>16 DEF IInv, HeldOnce, SentOnce

(* What was not settled is to be written back in front of the queue.         *)
LEMMA PutBackStep ==
  ASSUME IInv, NEW t \in Tabs, PutBack(t)
  PROVE  IInv'
<1>1. /\ tab[t] \in Tab /\ tab[t].writing = FALSE /\ TypeOK
      /\ UNCHANGED <<store, form, link, published, withdrawn, doubted, faults, shared, cut>>
  BY DEF PutBack, Free, wall, IInv, TypeOK, Tab
<1>2. PICK p \in Seq(Voices), s \in Seq(Voices) : p = tab[t].putBack /\ s = store
  BY <1>1 DEF Tab, TypeOK
<1>3. /\ p \o s \in Seq(Voices) /\ ToSet(p \o s) = ToSet(p) \union ToSet(s)
      /\ ToSet(<<>>) = {} /\ \A v \in Voices : Once(<<>>, v)
  <2>1. p \o s \in Seq(Voices) /\ ToSet(p \o s) = ToSet(p) \union ToSet(s)
    <3>1. CASE Voices = {}
      <4>1. p = <<>> /\ s = <<>>
        BY <3>1
      <4> QED
        BY <4>1 DEF ToSet
    <3>2. CASE Voices # {}
      BY <3>2, Elements
    <3> QED
      BY <3>1, <3>2
  <2>2. ToSet(<<>>) = {} /\ \A v \in Voices : Once(<<>>, v)
    BY DEF ToSet, Once
  <2> QED
    BY <2>1, <2>2
<1> DEFINE x == IF p = <<>> THEN IdleTab
                ELSE [IdleTab EXCEPT !.writing = TRUE, !.read = s, !.write = p \o s]
<1>4. /\ x \in Tab /\ x.claimed = <<>> /\ x.putBack = <<>> /\ x.reply = "none"
      /\ x.writing \in BOOLEAN
      /\ x.writing = FALSE => x.read = <<>> /\ x.write = <<>>
      /\ x.writing = TRUE => p # <<>> /\ x.read = s /\ x.write = p \o s
  <2>1. <<>> \in Seq(Voices)
    OBVIOUS
  <2> QED
    BY <1>3, <2>1, Idle DEF IdleTab, Tab, Flight
<1>5. tab' = [tab EXCEPT ![t] = x]
  BY <1>2 DEF PutBack, Returned
<1> HIDE DEF x
<1>6. /\ tab' \in [Tabs -> Tab] /\ tab'[t] = x
      /\ \A u \in Tabs : u # t =>
           /\ tab'[u] = tab[u]
           /\ Carried(u)' = Carried(u) /\ Adds(u)' = Adds(u)
           /\ Unsent(u)' = Unsent(u) /\ Claiming(u)' = Claiming(u)
  BY <1>1, <1>4, <1>5, NewTab
<1>7. /\ Carried(t)' = {} /\ Unsent(t)' = {} /\ Adds(t)' \subseteq ToSet(p) \ ToSet(s)
      /\ ToSet(p) \subseteq Carried(t) /\ ToSet(p) \subseteq Unsent(t)
      /\ Claiming(t) = FALSE
      /\ ToSet(x.read) \subseteq ToSet(s) /\ ToSet(x.write) \subseteq ToSet(p) \union ToSet(s)
  <2>1. Carried(t)' = {} /\ Unsent(t)' = {}
    BY <1>3, <1>4, <1>6 DEF Carried, Unsent
  <2>2. ToSet(x.read) \subseteq ToSet(s) /\ ToSet(x.write) \subseteq ToSet(p) \union ToSet(s)
    BY <1>3, <1>4
  <2>3. Adds(t)' \subseteq ToSet(p) \ ToSet(s)
    BY <1>3, <1>4, <1>6 DEF Adds
  <2>4. /\ ToSet(p) \subseteq Carried(t) /\ ToSet(p) \subseteq Unsent(t)
        /\ Claiming(t) = FALSE
    BY <1>1, <1>2 DEF Carried, Unsent, Claiming
  <2> QED
    BY <2>1, <2>2, <2>3, <2>4
<1>8. Tame' = Tame
  BY <1>1 DEF Tame
<1>9. TypeOK'
  BY <1>1, <1>6 DEF TypeOK
<1>10. DrainsInOrder'
  BY <1>1, <1>4, <1>6, Idle DEF IInv, DrainsInOrder, Claiming
<1>11. FormsFirst'
  BY <1>1, <1>2, <1>6, <1>7, <1>8 DEF IInv, FormsFirst
<1>12. ASSUME NEW v \in Tame PROVE Apart(v)' /\ Spent(v)'
  <2>1. Apart(v) /\ Spent(v) /\ v \in Voices
    BY DEF IInv, HeldOnce, SentOnce, Tame
  <2>2. Once(p, v) /\ Once(s, v) /\ (v \in ToSet(p) => v \notin ToSet(s))
    BY <1>2, <1>7, <2>1 DEF Apart
  <2>3. Once(p \o s, v) /\ Once(<<>>, v)
    BY <2>1, <2>2, Occurrences
  <2>4. Once(x.write, v)
    BY <1>4, <2>3
  <2>5. \A u \in Tabs : v \in Carried(u)' => u # t /\ v \in Carried(u)
    BY <1>6, <1>7
  <2>6. \A u \in Tabs : v \in Adds(u)' => v \in Adds(u) \/ (u = t /\ v \in ToSet(p))
    BY <1>6, <1>7
  <2>7. v \in Adds(t)' => v \in ToSet(p) /\ v \notin ToSet(s) /\ v \in Carried(t) /\ v \in Unsent(t)
    BY <1>7
  <2>8. Apart(v)'
    <3>1. \A u \in Tabs :
            /\ Once(tab'[u].write, v) /\ Once(tab'[u].claimed, v) /\ Once(tab'[u].putBack, v)
            /\ v \in ToSet(tab'[u].claimed) => v \notin ToSet(tab'[u].putBack)
      BY <1>3, <1>4, <1>6, <2>1, <2>4 DEF Apart
    <3>2. ASSUME NEW u \in Tabs, v \in Adds(u)'
          PROVE  v \notin ToSet(store) /\ \A w \in Tabs : v \notin Carried(w)' /\ (v \in Adds(w)' => w = u)
      <4>1. CASE u = t
        BY <1>2, <1>6, <2>1, <2>5, <2>7, <3>2, <4>1 DEF Apart
      <4>2. CASE u # t
        BY <1>6, <2>1, <2>5, <2>6, <2>7, <3>2, <4>2 DEF Apart
      <4> QED
        BY <4>1, <4>2
    <3> QED
      BY <1>1, <1>6, <2>1, <2>5, <3>1, <3>2 DEF Apart
  <2>9. Spent(v)'
    BY <1>1, <1>6, <1>7, <2>1, <2>7 DEF Spent
  <2> QED
    BY <2>8, <2>9
<1>13. LinksTold'
  BY <1>1 DEF IInv, LinksTold
<1> QED
  BY <1>8, <1>9, <1>10, <1>11, <1>12, <1>13 DEF IInv, HeldOnce, SentOnce

(* A tab is closed: what it was sending may be on the Wall, and its sender   *)
(* is not told.                                                              *)
LEMMA CloseTabStep ==
  ASSUME IInv, NEW t \in Tabs, CloseTab(t)
  PROVE  IInv'
<1> DEFINE sent == {v \in Voices \ Malformed :
                      \/ form[v].tab = t /\ form[v].reply = "sent"
                      \/ tab[t].reply = "sent" /\ v = Head(tab[t].claimed)}
           told == {v \in Voices : form[v].tab = t /\ form[v].reply = "ok"}
<1>1. PICK served \in BOOLEAN :
        /\ published' = [v \in Voices |-> published[v] + IF served /\ v \in sent THEN 1 ELSE 0]
        /\ doubted' = doubted \union (IF served THEN sent ELSE {}) \union told
  BY DEF CloseTab
<1>2. sent \subseteq Voices /\ told \subseteq Voices
  OBVIOUS
<1>3. \A v \in Voices : form[v].tab = t /\ form[v].reply = "ok" => v \in told
  OBVIOUS
<1> HIDE DEF sent, told
<1>4. /\ TypeOK /\ IdleTab \in Tab /\ Fault(1) /\ tab' = [tab EXCEPT ![t] = IdleTab]
      /\ UNCHANGED <<store, link, withdrawn, shared>>
      /\ form' = [v \in Voices |-> IF form[v].tab = t /\ form[v].state = "submitting"
                                   THEN NoForm
                                   ELSE form[v]]
  BY Idle DEF CloseTab, IInv
<1>5. /\ tab' \in [Tabs -> Tab] /\ tab'[t] = IdleTab
      /\ \A u \in Tabs : u # t =>
           /\ tab'[u] = tab[u]
           /\ Carried(u)' = Carried(u) /\ Adds(u)' = Adds(u)
           /\ Unsent(u)' = Unsent(u) /\ Claiming(u)' = Claiming(u)
  BY <1>4, NewTab
<1>6. /\ IdleTab.claimed = <<>> /\ IdleTab.putBack = <<>> /\ IdleTab.reply = "none"
      /\ IdleTab.writing = FALSE /\ IdleTab.read = <<>> /\ IdleTab.write = <<>>
      /\ ToSet(<<>>) = {} /\ \A v \in Voices : Once(<<>>, v)
  BY DEF IdleTab, ToSet, Once
<1>7. Carried(t)' = {} /\ Adds(t)' = {} /\ Unsent(t)' = {}
  BY <1>5, <1>6 DEF Carried, Adds, Unsent
<1>8. /\ published' \in [Voices -> Nat]
      /\ \A v \in Voices : published[v] \in Nat /\ published'[v] >= published[v]
      /\ \A v \in Tame' : v \in Tame /\ published'[v] = published[v] /\ v \notin told
  <2>1. published \in [Voices -> Nat]
    BY <1>4 DEF TypeOK
  <2>2. published' \in [Voices -> Nat]
    BY <1>1, <2>1
  <2>3. \A v \in Voices : published[v] \in Nat /\ published'[v] >= published[v]
    BY <1>1, <2>1
  <2>4. \A v \in Tame' : v \in Tame /\ v \notin told /\ ~(served /\ v \in sent)
    BY <1>1, <1>4 DEF Tame
  <2>5. \A v \in Tame' : published'[v] = published[v]
    BY <1>1, <2>1, <2>4 DEF Tame
  <2> QED
    BY <2>2, <2>3, <2>4, <2>5
<1>9. /\ form' \in [Voices -> Form]
      /\ \A v \in Voices : form'[v].state # "queued" => form[v].state # "queued"
      /\ \A v \in Voices : form'[v].reply # "none" => form'[v] = form[v]
      /\ \A v \in Voices : v \notin told /\ form[v].state \in {"queued", "done"}
                             => form'[v] = form[v]
      /\ \A v \in Voices : form[v].tab # t => form'[v] = form[v]
  <2>1. NoForm \in Form /\ NoForm.reply = "none" /\ NoForm.state = "idle"
    BY DEF NoForm, Form, Flight, Replies
  <2>2. form \in [Voices -> Form]
    BY <1>4 DEF TypeOK
  <2>3. form' \in [Voices -> Form]
    BY <1>4, <2>1, <2>2
  <2> QED
    BY <1>4, <2>1, <2>3
<1>10. TypeOK'
  <2>1. \A w \in Voices : withdrawn'[w] <= published'[w]
    <3> SUFFICES ASSUME NEW w \in Voices PROVE withdrawn'[w] <= published'[w]
      OBVIOUS
    <3>1. /\ withdrawn[w] <= published[w] /\ published'[w] >= published[w]
          /\ withdrawn[w] \in Nat /\ published[w] \in Nat /\ published'[w] \in Nat
      BY <1>4, <1>8 DEF TypeOK
    <3> QED
      BY <1>4, <3>1
  <2>2. cut' \subseteq Voices
    <3>1. Carried(t) \subseteq Voices /\ ToSet(tab[t].write) \subseteq Voices
          /\ ToSet(tab[t].read) \subseteq Voices
      <4>1. tab[t] \in Tab
        BY <1>4 DEF TypeOK
      <4>2. /\ tab[t].claimed \in Seq(Voices) /\ tab[t].putBack \in Seq(Voices)
            /\ tab[t].read \in Seq(Voices) /\ tab[t].write \in Seq(Voices)
        BY <4>1 DEF Tab
      <4> QED
        BY <4>2 DEF Carried, ToSet
    <3> QED
      BY <1>4, <3>1 DEF CloseTab, TypeOK
  <2>3. faults' \in 0..MaxFaults /\ doubted' \subseteq Voices
    BY <1>1, <1>2, <1>4, OneFault DEF TypeOK
  <2> QED
    BY <1>4, <1>5, <1>8, <1>9, <2>1, <2>2, <2>3 DEF TypeOK
<1>11. DrainsInOrder'
  BY <1>5, <1>6, <1>9 DEF IInv, DrainsInOrder
<1>12. FormsFirst'
  <2>1. \A v \in Voices : form'[v].state # "queued" =>
          /\ v \notin ToSet(store')
          /\ \A u \in Tabs : v \notin Carried(u)' \union ToSet(tab'[u].read) \union ToSet(tab'[u].write)
    BY <1>4, <1>5, <1>6, <1>7, <1>9 DEF IInv, FormsFirst
  <2>2. ASSUME NEW v \in Tame', published'[v] > 0
        PROVE  \/ form'[v].state \in {"queued", "done"}
               \/ form'[v].state = "submitting" /\ form'[v].reply = "ok"
    <3>1. v \in Voices /\ v \in Tame /\ published[v] > 0 /\ v \notin told
      BY <1>8, <2>2 DEF Tame
    <3>2. \/ form[v].state \in {"queued", "done"}
          \/ form[v].state = "submitting" /\ form[v].reply = "ok"
      BY <3>1 DEF IInv, FormsFirst
    <3> QED
      BY <1>3, <1>9, <3>1, <3>2
  <2> QED
    BY <2>1, <2>2 DEF FormsFirst, Tame
<1>13. ASSUME NEW v \in Tame' PROVE Apart(v)' /\ Spent(v)'
  <2>1. Apart(v) /\ Spent(v) /\ v \in Voices /\ published'[v] = published[v]
    BY <1>8 DEF IInv, HeldOnce, SentOnce, Tame
  <2>2. Apart(v)'
    BY <1>4, <1>5, <1>6, <1>7, <2>1 DEF Apart
  <2>3. Spent(v)'
    BY <1>4, <1>5, <1>7, <2>1 DEF Spent
  <2> QED
    BY <2>2, <2>3
<1>14. LinksTold'
  BY <1>4, <1>8, Upwards DEF IInv, LinksTold
<1> QED
  BY <1>10, <1>11, <1>12, <1>13, <1>14 DEF IInv, HeldOnce, SentOnce

-----------------------------------------------------------------------------
(* "A submission is never lost": the inductive invariant is about a drain    *)
(* that forgets nothing.                                                     *)

\* A drain that has not begun has nothing in hand, and one that ends has nothing
\* left to send; an answer says what became of the voice that was sent; what a
\* tab has read of the queue is in what it is about to write there, or in hand.
NothingForgotten ==
  \A t \in Tabs :
    /\ tab[t].drain = "idle" => tab[t].claimed = <<>> /\ tab[t].putBack = <<>>
    /\ tab[t].drain = "ending" => tab[t].claimed = <<>>
    /\ tab[t].reply = "ok" => published[Head(tab[t].claimed)] > 0
    /\ tab[t].reply = "refused" => Head(tab[t].claimed) \in Malformed
    /\ ToSet(tab[t].read) \subseteq ToSet(tab[t].write) \union Carried(t)

KInv == IInv /\ NothingForgotten /\ KeptUntilSettled

\* What may become of a voice that is not held any more.
Settled(v) == published[v] > 0 \/ v \in Malformed \/ v \in cut

(* A step keeps the promise when it tells nobody anew that a voice is kept,  *)
(* and lets go of none that is not settled.                                  *)
LEMMA StillKept ==
  ASSUME IInv, KeptUntilSettled,
         \A v \in Voices : form'[v].state = "queued" => form[v].state = "queued",
         \A v \in Voices : published[v] > 0 => published'[v] > 0,
         cut \subseteq cut',
         \A v \in Voices : Held(v) => Held(v)' \/ Settled(v)'
  PROVE  KeptUntilSettled'
<1> SUFFICES ASSUME NEW v \in Voices, VoiceForm(form'[v].state).says = "kept"
             PROVE  Held(v)' \/ Settled(v)'
  BY DEF KeptUntilSettled, Settled
<1>1. form'[v].state = "queued"
  BY DEF VoiceForm
<1>2. VoiceForm(form[v].state).says = "kept"
  BY <1>1 DEF VoiceForm
<1>3. Held(v) \/ published[v] > 0 \/ v \in Malformed \/ v \in cut
  BY <1>2 DEF KeptUntilSettled
<1> QED
  BY <1>3 DEF Settled

(* A step that leaves the queue and the tabs alone.                          *)
LEMMA ElsewhereKept ==
  ASSUME KInv, UNCHANGED <<store, tab>>,
         \A v \in Voices : form'[v].state = "queued" => form[v].state = "queued",
         \A v \in Voices : published[v] > 0 => published'[v] > 0,
         cut \subseteq cut'
  PROVE  (NothingForgotten /\ KeptUntilSettled)'
<1>1. \A v \in Voices : Held(v)' = Held(v)
  BY DEF Held, Carried
<1>2. KeptUntilSettled'
  BY <1>1, StillKept DEF KInv
<1>3. \A t \in Tabs : tab[t].reply = "ok" => Head(tab[t].claimed) \in Voices
  <2> SUFFICES ASSUME NEW t \in Tabs, tab[t].reply = "ok"
               PROVE  Head(tab[t].claimed) \in Voices
    OBVIOUS
  <2>1. tab[t].claimed \in Seq(Voices) /\ tab[t].claimed # <<>>
    BY DEF KInv, IInv, TypeOK, Tab, DrainsInOrder
  <2> QED
    BY <2>1
<1>4. NothingForgotten'
  BY <1>3 DEF KInv, NothingForgotten, Carried
<1> QED
  BY <1>2, <1>4

(* The link, and a form that is sent or served.                              *)
LEMMA FormsKeep ==
  ASSUME KInv, NEW v \in Voices,
         \/ OpenLink(v) \/ ServeLink(v) \/ LinkAnswered(v)
         \/ ServeForm(v) \/ \E t \in Tabs : Submit(t, v)
  PROVE  (NothingForgotten /\ KeptUntilSettled)'
<1>1. TypeOK
  BY DEF KInv, IInv
<1>2. CASE OpenLink(v) \/ ServeLink(v) \/ LinkAnswered(v)
  <2>1. UNCHANGED <<store, tab, form, published, cut>>
    BY <1>2 DEF OpenLink, ServeLink, LinkAnswered, wall
  <2> QED
    BY <2>1, ElsewhereKept
<1>3. CASE ServeForm(v)
  <2>1. PICK o \in Outcomes(v) : Serve(v, o) /\ form' = [form EXCEPT ![v].reply = o.reply]
    BY <1>3 DEF ServeForm
  <2>2. /\ UNCHANGED <<store, cut>>
        /\ \A w \in Voices : published'[w] >= published[w] /\ published'[w] \in Nat
    BY <2>1, Served DEF KInv
  <2>3. UNCHANGED tab /\ \A w \in Voices : form'[w].state = form[w].state
    BY <1>1, <1>3, <2>1 DEF ServeForm, TypeOK, Form
  <2>4. \A w \in Voices : published[w] > 0 => published'[w] > 0
    BY <1>1, <2>2 DEF TypeOK
  <2> QED
    BY <2>2, <2>3, <2>4, ElsewhereKept
<1>4. ASSUME NEW t \in Tabs, Submit(t, v)
      PROVE  (NothingForgotten /\ KeptUntilSettled)'
  <2>1. UNCHANGED <<store, tab, published, cut>>
    BY <1>4 DEF Submit, wall
  <2>2. \A w \in Voices : form'[w].state = "queued" => form[w].state = "queued"
    BY <1>1, <1>4 DEF Submit, TypeOK
  <2> QED
    BY <2>1, <2>2, ElsewhereKept
<1> QED
  BY <1>2, <1>3, <1>4

(* A step of one tab: what it held is held after it, or settled.             *)
LEMMA TabKeeps ==
  ASSUME KInv, NEW t \in Tabs, NEW x \in Tab, tab' = [tab EXCEPT ![t] = x],
         \A v \in Voices : form'[v].state = "queued" => form[v].state = "queued",
         \A v \in Voices : published[v] > 0 => published'[v] > 0,
         cut \subseteq cut',
         x.drain = "idle" => x.claimed = <<>> /\ x.putBack = <<>>,
         x.drain = "ending" => x.claimed = <<>>,
         x.reply = "ok" => published'[Head(x.claimed)] > 0,
         x.reply = "refused" => Head(x.claimed) \in Malformed,
         ToSet(x.read) \subseteq ToSet(x.write) \union ToSet(x.claimed) \union ToSet(x.putBack),
         \A v \in Voices :
           v \in ToSet(store) \union Carried(t) \union ToSet(tab[t].write)
             => \/ v \in ToSet(store') \union ToSet(x.write)
                           \union ToSet(x.claimed) \union ToSet(x.putBack)
                \/ Settled(v)'
  PROVE  (NothingForgotten /\ KeptUntilSettled)'
<1>1. /\ tab' \in [Tabs -> Tab] /\ tab'[t] = x
      /\ \A u \in Tabs : u # t => tab'[u] = tab[u] /\ Carried(u)' = Carried(u)
  BY NewTab DEF KInv, IInv
<1>2. Carried(t)' = ToSet(x.claimed) \union ToSet(x.putBack)
  BY <1>1 DEF Carried
<1>3. ASSUME NEW v \in Voices, Held(v) PROVE Held(v)' \/ Settled(v)'
  <2>1. CASE v \in ToSet(store) \union Carried(t) \union ToSet(tab[t].write)
    BY <1>1, <1>2, <2>1 DEF Held
  <2>2. CASE v \notin ToSet(store) \union Carried(t) \union ToSet(tab[t].write)
    <3>1. PICK u \in Tabs : v \in Carried(u) \/ v \in ToSet(tab[u].write)
      BY <1>3, <2>2 DEF Held
    <3>2. u # t
      BY <2>2, <3>1
    <3> QED
      BY <1>1, <3>1, <3>2 DEF Held
  <2> QED
    BY <2>1, <2>2
<1>4. KeptUntilSettled'
  BY <1>3, StillKept DEF KInv
<1>5. ASSUME NEW u \in Tabs
      PROVE  /\ tab'[u].drain = "idle" => tab'[u].claimed = <<>> /\ tab'[u].putBack = <<>>
             /\ tab'[u].drain = "ending" => tab'[u].claimed = <<>>
             /\ tab'[u].reply = "ok" => published'[Head(tab'[u].claimed)] > 0
             /\ tab'[u].reply = "refused" => Head(tab'[u].claimed) \in Malformed
             /\ ToSet(tab'[u].read) \subseteq ToSet(tab'[u].write) \union Carried(u)'
  <2>1. CASE u = t
    BY <1>1, <1>2, <2>1
  <2>2. CASE u # t
    <3>1. tab[u].reply = "ok" => Head(tab[u].claimed) \in Voices
      <4>1. tab[u].claimed \in Seq(Voices) /\ (tab[u].reply # "none" => tab[u].claimed # <<>>)
        BY DEF KInv, IInv, TypeOK, Tab, DrainsInOrder
      <4> QED
        BY <4>1
    <3> QED
      BY <1>1, <2>2, <3>1 DEF KInv, NothingForgotten
  <2> QED
    BY <2>1, <2>2
<1> QED
  BY <1>4, <1>5 DEF NothingForgotten

(* A form is answered: a voice that had no answer is in the write it makes.  *)
LEMMA AnsweredKeeps ==
  ASSUME KInv, NEW v \in Voices, Answered(v)
  PROVE  (NothingForgotten /\ KeptUntilSettled)'
<1>1. /\ form[v].tab \in Tabs /\ TypeOK /\ UNCHANGED <<store, published, cut>>
      /\ store \in Seq(Voices)
  BY DEF Answered, wall, KInv, IInv, DrainsInOrder, Replies, TypeOK
<1>2. PICK t \in Tabs : t = form[v].tab
  BY <1>1
<1>3. /\ tab[t] \in Tab /\ tab[t].writing = FALSE
      /\ tab[t].read = <<>> /\ tab[t].write = <<>>
  BY <1>1, <1>2 DEF Answered, Free, TypeOK, Tab, KInv, IInv, DrainsInOrder
<1>4. CASE form[v].reply = "lost"
  <2> DEFINE x == [tab[t] EXCEPT !.writing = TRUE, !.read = store, !.write = Append(store, v)]
  <2>1. Append(store, v) \in Seq(Voices) /\ ToSet(Append(store, v)) = ToSet(store) \union {v}
    BY <1>1, Elements
  <2>2. /\ x \in Tab /\ x.read = store /\ x.write = Append(store, v)
        /\ x.drain = tab[t].drain /\ x.claimed = tab[t].claimed
        /\ x.putBack = tab[t].putBack /\ x.reply = tab[t].reply
    BY <1>1, <1>3, <2>1 DEF Tab
  <2>3. tab' = [tab EXCEPT ![t] = x]
    BY <1>1, <1>2, <1>4 DEF Answered, TypeOK
  <2> HIDE DEF x
  <2>4. /\ tab' \in [Tabs -> Tab] /\ tab'[t] = x
        /\ \A u \in Tabs : u # t => tab'[u] = tab[u] /\ Carried(u)' = Carried(u)
    BY <1>1, <2>2, <2>3, NewTab
  <2>5. Carried(t)' = Carried(t)
    BY <2>2, <2>4 DEF Carried
  <2>6. /\ form'[v].state = "queued"
        /\ \A w \in Voices : w # v => form'[w] = form[w]
    BY <1>1, <1>4 DEF Answered, TypeOK, Form
  <2>7. NothingForgotten'
    <3>1. \A u \in Tabs : /\ tab'[u].drain = tab[u].drain /\ tab'[u].claimed = tab[u].claimed
                          /\ tab'[u].putBack = tab[u].putBack /\ tab'[u].reply = tab[u].reply
                          /\ ToSet(tab'[u].read) \subseteq ToSet(tab'[u].write) \union Carried(u)'
      BY <2>1, <2>2, <2>4 DEF KInv, NothingForgotten
    <3> QED
      BY <1>1, <3>1 DEF KInv, NothingForgotten
  <2>8. \A w \in Voices : Held(w) => Held(w)'
    <3>1. ToSet(<<>>) = {}
      BY DEF ToSet
    <3> QED
      BY <1>1, <1>3, <2>4, <2>5, <3>1 DEF Held
  <2>9. Held(v)'
    BY <2>1, <2>2, <2>4 DEF Held
  <2>10. ASSUME NEW w \in Voices, VoiceForm(form'[w].state).says = "kept"
         PROVE  Held(w)' \/ published'[w] > 0 \/ w \in Malformed \/ w \in cut'
    BY <1>1, <2>6, <2>8, <2>9, <2>10 DEF KInv, KeptUntilSettled
  <2> QED
    BY <2>7, <2>10 DEF KeptUntilSettled
<1>5. CASE form[v].reply # "lost"
  <2>1. UNCHANGED tab
    BY <1>5 DEF Answered
  <2>2. \A w \in Voices : form'[w].state = "queued" => form[w].state = "queued"
    <3>1. form' = [form EXCEPT ![v].reply = "none",
                     ![v].state = IF form[v].reply = "ok" THEN "done" ELSE "error"]
      BY <1>5 DEF Answered
    <3> QED
      BY <1>1, <3>1 DEF TypeOK, Form
  <2> QED
    BY <1>1, <2>1, <2>2, ElsewhereKept
<1> QED
  BY <1>4, <1>5

(* A drain takes its next voice, or ends with nothing left to send.          *)
LEMMA SendNextKeeps ==
  ASSUME KInv, NEW t \in Tabs, SendNext(t)
  PROVE  (NothingForgotten /\ KeptUntilSettled)'
<1>1. /\ tab[t] \in Tab /\ tab[t].drain = "sending" /\ TypeOK
      /\ UNCHANGED <<store, form, published, cut>>
  BY DEF SendNext, wall, KInv, IInv, TypeOK
<1> DEFINE x == IF tab[t].claimed = <<>> THEN [tab[t] EXCEPT !.drain = "ending"]
                ELSE [tab[t] EXCEPT !.reply = "sent"]
<1>2. /\ x \in Tab /\ x.claimed = tab[t].claimed /\ x.putBack = tab[t].putBack
      /\ x.read = tab[t].read /\ x.write = tab[t].write
      /\ x.drain # "idle" /\ (x.drain = "ending" => x.claimed = <<>>)
      /\ x.reply \in {"none", "sent"}
  BY <1>1 DEF SendNext, Tab, Flight
<1>3. tab' = [tab EXCEPT ![t] = x]
  BY DEF SendNext
<1> HIDE DEF x
<1>4. /\ Carried(t) = ToSet(x.claimed) \union ToSet(x.putBack)
      /\ ToSet(x.read) \subseteq ToSet(x.write) \union ToSet(x.claimed) \union ToSet(x.putBack)
  BY <1>2 DEF Carried, KInv, NothingForgotten
<1> QED
  BY <1>1, <1>2, <1>3, <1>4, TabKeeps

(* The server has a request of a drain, and says what became of the voice.   *)
LEMMA ServeDrainKeeps ==
  ASSUME KInv, NEW t \in Tabs, ServeDrain(t)
  PROVE  (NothingForgotten /\ KeptUntilSettled)'
<1>1. /\ tab[t] \in Tab /\ TypeOK /\ IInv /\ UNCHANGED form
      /\ tab[t].claimed # <<>> /\ tab[t].claimed \in Seq(Voices)
  BY DEF ServeDrain, KInv, IInv, TypeOK, Tab, DrainsInOrder
<1>2. PICK v \in Voices : v = Head(tab[t].claimed)
  BY <1>1, Elements
<1>3. PICK o \in Outcomes(v) : Serve(v, o) /\ tab' = [tab EXCEPT ![t].reply = o.reply]
  BY <1>2 DEF ServeDrain
<1>4. o.reply \in Replies /\ (o.reply = "ok" => o.on)
  BY Answers
<1>5. o.reply = "refused" => v \in Malformed
  BY DEF Outcomes
<1>6. /\ UNCHANGED <<store, cut>> /\ published[v] \in Nat
      /\ published'[v] = IF o.on THEN published[v] + 1 ELSE published[v]
      /\ \A w \in Voices : published'[w] >= published[w] /\ published'[w] \in Nat
  BY <1>1, <1>3, Served
<1>7. \A w \in Voices : published[w] > 0 => published'[w] > 0
  BY <1>1, <1>6 DEF TypeOK
<1> DEFINE x == [tab[t] EXCEPT !.reply = o.reply]
<1>8. /\ x \in Tab /\ x.claimed = tab[t].claimed /\ x.putBack = tab[t].putBack
      /\ x.read = tab[t].read /\ x.write = tab[t].write
      /\ x.drain = tab[t].drain /\ x.reply = o.reply
  BY <1>1, <1>4 DEF Tab, Flight
<1>9. tab' = [tab EXCEPT ![t] = x]
  BY <1>3
<1> HIDE DEF x
<1>10. /\ Carried(t) = ToSet(x.claimed) \union ToSet(x.putBack)
       /\ ToSet(x.read) \subseteq ToSet(x.write) \union ToSet(x.claimed) \union ToSet(x.putBack)
       /\ x.drain = "idle" => x.claimed = <<>> /\ x.putBack = <<>>
       /\ x.drain = "ending" => x.claimed = <<>>
  BY <1>8 DEF Carried, KInv, NothingForgotten
<1>11. x.reply = "ok" => published'[Head(x.claimed)] > 0
  <2>1. o.reply = "ok" => published'[v] = published[v] + 1
    BY <1>4, <1>6
  <2> QED
    BY <1>2, <1>6, <1>8, <2>1
<1>12. x.reply = "refused" => Head(x.claimed) \in Malformed
  BY <1>2, <1>5, <1>8
<1>13. \A w \in Voices :
         w \in ToSet(store) \union Carried(t) \union ToSet(tab[t].write)
           => w \in ToSet(store') \union ToSet(x.write)
                       \union ToSet(x.claimed) \union ToSet(x.putBack)
  BY <1>6, <1>8, <1>10
<1> QED
  BY <1>1, <1>6, <1>7, <1>8, <1>9, <1>10, <1>11, <1>12, <1>13, TabKeeps

(* A voice that is settled is on the Wall or refused; any other is put back. *)
LEMMA SettleKeeps ==
  ASSUME KInv, NEW t \in Tabs, Settle(t)
  PROVE  (NothingForgotten /\ KeptUntilSettled)'
<1>1. /\ tab[t] \in Tab /\ tab[t].reply \in Replies /\ TypeOK
      /\ tab[t].read = <<>> /\ tab[t].write = <<>>
      /\ UNCHANGED <<store, form, published, cut>>
  BY DEF Settle, Free, wall, KInv, IInv, TypeOK, DrainsInOrder
<1>2. PICK c \in Seq(Voices), p \in Seq(Voices) : c = tab[t].claimed /\ p = tab[t].putBack
  BY <1>1 DEF Tab
<1>3. c # <<>>
  BY <1>1, <1>2 DEF KInv, IInv, DrainsInOrder, Replies
<1>4. PICK g \in Voices : g = Head(c)
  BY <1>3, Elements
<1>5. /\ Tail(c) \in Seq(Voices) /\ ToSet(c) = {g} \union ToSet(Tail(c))
      /\ Append(p, g) \in Seq(Voices) /\ ToSet(Append(p, g)) = ToSet(p) \union {g}
      /\ ToSet(<<>>) = {}
  BY <1>3, <1>4, Elements
<1>6. tab[t].drain \notin {"idle", "ending"}
  BY <1>2, <1>3 DEF KInv, NothingForgotten
<1> DEFINE back == IF tab[t].reply \in NotFinal THEN Append(p, g) ELSE p
           x == [tab[t] EXCEPT !.reply = "none", !.claimed = Tail(c), !.putBack = back]
<1>7. /\ back \in Seq(Voices) /\ ToSet(p) \subseteq ToSet(back)
      /\ tab[t].reply \in NotFinal => g \in ToSet(back)
  BY <1>5
<1> HIDE DEF back
<1>8. /\ x \in Tab /\ x.claimed = Tail(c) /\ x.putBack = back /\ x.reply = "none"
      /\ x.drain = tab[t].drain /\ x.read = <<>> /\ x.write = <<>>
  BY <1>1, <1>5, <1>7 DEF Tab, Flight
<1>9. tab' = [tab EXCEPT ![t] = x]
  BY <1>2, <1>4 DEF Settle, back
<1> HIDE DEF x
<1>10. tab[t].reply \notin NotFinal => Settled(g)'
  <2>1. tab[t].reply \notin NotFinal => tab[t].reply \in {"ok", "refused"}
    BY <1>1 DEF Replies, NotFinal
  <2> QED
    BY <1>1, <1>2, <1>4, <2>1 DEF KInv, NothingForgotten, Settled
<1>11. \A v \in Voices :
         v \in ToSet(store) \union Carried(t) \union ToSet(tab[t].write)
           => \/ v \in ToSet(store') \union ToSet(x.write)
                         \union ToSet(x.claimed) \union ToSet(x.putBack)
              \/ Settled(v)'
  <2>1. Carried(t) = {g} \union ToSet(Tail(c)) \union ToSet(p)
    BY <1>2, <1>5 DEF Carried
  <2> QED
    BY <1>1, <1>5, <1>7, <1>8, <1>10, <2>1
<1> QED
  BY <1>1, <1>5, <1>6, <1>8, <1>9, <1>11, TabKeeps

(* A claim takes over what it is about to take out of the queue.             *)
LEMMA FlushKeeps ==
  ASSUME KInv, NEW t \in Tabs, Flush(t)
  PROVE  (NothingForgotten /\ KeptUntilSettled)'
<1>1. /\ store \in Seq(Voices) /\ tab[t].write = <<>>
      /\ tab[t].claimed = <<>> /\ tab[t].putBack = <<>>
      /\ UNCHANGED <<store, form, published, cut>>
  BY DEF Flush, Free, wall, KInv, IInv, TypeOK, DrainsInOrder, NothingForgotten
<1>2. PICK s \in Seq(Voices) : s = store
  BY <1>1
<1> DEFINE x == [IdleTab EXCEPT !.drain = "sending", !.claimed = s,
                   !.writing = TRUE, !.read = s, !.write = <<>>]
<1>3. /\ x \in Tab /\ x.claimed = s /\ x.putBack = <<>> /\ x.reply = "none"
      /\ x.drain = "sending" /\ x.read = s /\ x.write = <<>>
  <2>1. <<>> \in Seq(Voices)
    OBVIOUS
  <2> QED
    BY <2>1 DEF IdleTab, Tab, Flight
<1>4. tab' = [tab EXCEPT ![t] = x]
  BY <1>2 DEF Flush, AfterClaim
<1> HIDE DEF x
<1>5. Carried(t) = {} /\ ToSet(<<>>) = {}
  BY <1>1 DEF Carried, ToSet
<1> QED
  BY <1>1, <1>2, <1>3, <1>4, <1>5, TabKeeps

(* What a write takes out of the queue is in the hands of its tab, or was    *)
(* not read: then it is dropped.                                             *)
LEMMA WriteKeeps ==
  ASSUME KInv, NEW t \in Tabs, Write(t)
  PROVE  (NothingForgotten /\ KeptUntilSettled)'
<1>1. tab[t] \in Tab /\ TypeOK /\ UNCHANGED <<form, published>>
  BY DEF Write, wall, KInv, IInv, TypeOK
<1> DEFINE x == [tab[t] EXCEPT !.writing = FALSE, !.read = <<>>, !.write = <<>>]
<1>2. /\ x \in Tab /\ x.claimed = tab[t].claimed /\ x.putBack = tab[t].putBack
      /\ x.drain = tab[t].drain /\ x.reply = tab[t].reply
      /\ x.read = <<>> /\ x.write = <<>>
  <2>1. <<>> \in Seq(Voices)
    OBVIOUS
  <2> QED
    BY <1>1, <2>1 DEF Tab
<1>3. tab' = [tab EXCEPT ![t] = x]
  BY DEF Write
<1> HIDE DEF x
<1>4. ToSet(<<>>) = {}
  BY DEF ToSet
<1>5. \/ store' = tab[t].write /\ cut' = cut \union (ToSet(store) \ ToSet(tab[t].read))
      \/ store' = store /\ cut' = cut \union (ToSet(tab[t].write) \ ToSet(store))
  BY DEF Write
<1>6. /\ Carried(t) = ToSet(x.claimed) \union ToSet(x.putBack)
      /\ ToSet(tab[t].read) \subseteq ToSet(tab[t].write) \union Carried(t)
      /\ x.drain = "idle" => x.claimed = <<>> /\ x.putBack = <<>>
      /\ x.drain = "ending" => x.claimed = <<>>
      /\ x.reply = "ok" => published[Head(x.claimed)] > 0
      /\ x.reply = "refused" => Head(x.claimed) \in Malformed
  BY <1>2 DEF Carried, KInv, NothingForgotten
<1>7. \A v \in Voices :
        v \in ToSet(store) \union Carried(t) \union ToSet(tab[t].write)
          => \/ v \in ToSet(store') \union Carried(t)
             \/ v \in cut'
  BY <1>5, <1>6
<1>8. cut \subseteq cut'
  BY <1>5
<1>9. \A v \in Voices :
        v \in ToSet(store) \union Carried(t) \union ToSet(tab[t].write)
          => \/ v \in ToSet(store') \union ToSet(x.write)
                        \union ToSet(x.claimed) \union ToSet(x.putBack)
             \/ Settled(v)'
  BY <1>6, <1>7 DEF Settled
<1>10. x.reply = "ok" => published'[Head(x.claimed)] > 0
  BY <1>1, <1>6
<1> QED
  BY <1>1, <1>2, <1>3, <1>4, <1>6, <1>8, <1>9, <1>10, TabKeeps

(* A drain that ends writes back what it still has in hand.                  *)
LEMMA PutBackKeeps ==
  ASSUME KInv, NEW t \in Tabs, PutBack(t)
  PROVE  (NothingForgotten /\ KeptUntilSettled)'
<1>1. /\ tab[t] \in Tab /\ tab[t].claimed = <<>> /\ tab[t].write = <<>> /\ TypeOK
      /\ store \in Seq(Voices) /\ UNCHANGED <<store, form, published, cut>>
  BY DEF PutBack, Free, wall, KInv, IInv, TypeOK, DrainsInOrder, NothingForgotten
<1>2. PICK p \in Seq(Voices), s \in Seq(Voices) : p = tab[t].putBack /\ s = store
  BY <1>1 DEF Tab
<1>3. /\ p \o s \in Seq(Voices) /\ ToSet(p \o s) = ToSet(p) \union ToSet(s)
      /\ ToSet(<<>>) = {}
  <2>1. ASSUME NEW v \in Voices
        PROVE  p \o s \in Seq(Voices) /\ ToSet(p \o s) = ToSet(p) \union ToSet(s)
    BY Elements
  <2>2. CASE Voices = {}
    <3>1. p = <<>> /\ s = <<>>
      BY <2>2
    <3>2. p \o s = <<>>
      BY <3>1
    <3> QED
      BY <3>1, <3>2 DEF ToSet
  <2>3. ToSet(<<>>) = {}
    BY DEF ToSet
  <2> QED
    BY <2>1, <2>2, <2>3
<1>4. Carried(t) = ToSet(p)
  BY <1>1, <1>2, <1>3 DEF Carried
<1> DEFINE x == IF p = <<>> THEN IdleTab
                ELSE [IdleTab EXCEPT !.writing = TRUE, !.read = s, !.write = p \o s]
<1>5. /\ x \in Tab /\ x.drain = "idle" /\ x.claimed = <<>> /\ x.putBack = <<>>
      /\ x.reply = "none"
      /\ p # <<>> => x.read = s /\ x.write = p \o s
      /\ p = <<>> => x.read = <<>>
  BY <1>3, Idle DEF IdleTab, Tab
<1>6. tab' = [tab EXCEPT ![t] = x]
  BY <1>2 DEF PutBack, Returned
<1> HIDE DEF x
<1>7. ToSet(x.read) \subseteq ToSet(x.write) \union ToSet(x.claimed) \union ToSet(x.putBack)
  BY <1>3, <1>5
<1>8. \A v \in Voices :
        v \in ToSet(store) \union Carried(t) \union ToSet(tab[t].write)
          => v \in ToSet(store') \union ToSet(x.write)
                      \union ToSet(x.claimed) \union ToSet(x.putBack)
  BY <1>1, <1>2, <1>3, <1>4, <1>5
<1> QED
  BY <1>1, <1>5, <1>6, <1>7, <1>8, TabKeeps

(* What a tab had in hand when it is closed is dropped.                      *)
LEMMA CloseTabKeeps ==
  ASSUME KInv, NEW t \in Tabs, CloseTab(t)
  PROVE  (NothingForgotten /\ KeptUntilSettled)'
<1>1. /\ TypeOK /\ IdleTab \in Tab /\ tab' = [tab EXCEPT ![t] = IdleTab] /\ UNCHANGED store
      /\ cut \subseteq cut' /\ Carried(t) \subseteq cut'
  BY Idle DEF CloseTab, KInv, IInv
<1>2. ToSet(tab[t].write) \subseteq cut'
  <2>1. CASE tab[t].writing
    BY <2>1 DEF CloseTab
  <2>2. CASE ~ tab[t].writing
    <3>1. tab[t].write = <<>>
      BY <2>2 DEF KInv, IInv, DrainsInOrder
    <3> QED
      BY <3>1 DEF ToSet
  <2> QED
    BY <2>1, <2>2
<1>3. \A v \in Voices : form'[v].state = "queued" => form[v].state = "queued"
  BY DEF CloseTab, NoForm
<1>4. \A v \in Voices : published[v] > 0 => published'[v] > 0
  <2> DEFINE sent == {v \in Voices \ Malformed :
                        \/ form[v].tab = t /\ form[v].reply = "sent"
                        \/ tab[t].reply = "sent" /\ v = Head(tab[t].claimed)}
  <2>1. PICK served \in BOOLEAN :
          published' = [v \in Voices |-> published[v] + IF served /\ v \in sent THEN 1 ELSE 0]
    BY DEF CloseTab
  <2> HIDE DEF sent
  <2> QED
    BY <1>1, <2>1 DEF TypeOK
<1>5. /\ IdleTab.claimed = <<>> /\ IdleTab.putBack = <<>> /\ IdleTab.reply = "none"
      /\ IdleTab.read = <<>> /\ ToSet(<<>>) = {}
  BY DEF IdleTab, ToSet
<1>6. \A v \in Voices :
        v \in ToSet(store) \union Carried(t) \union ToSet(tab[t].write)
          => \/ v \in ToSet(store') \union ToSet(IdleTab.write)
                        \union ToSet(IdleTab.claimed) \union ToSet(IdleTab.putBack)
             \/ Settled(v)'
  BY <1>1, <1>2 DEF Settled
<1> QED
  BY <1>1, <1>3, <1>4, <1>5, <1>6, TabKeeps

-----------------------------------------------------------------------------
(* The theorems.                                                             *)

(* Every step preserves the invariant.                                       *)
LEMMA NextIInv == IInv /\ [Next]_vars => IInv'
<1> SUFFICES ASSUME IInv, [Next]_vars PROVE IInv'
  OBVIOUS
<1>1. CASE UNCHANGED vars
  BY <1>1 DEF vars, IInv, TypeOK, DrainsInOrder, FormsFirst, HeldOnce, Apart, SentOnce, Spent,
              LinksTold, Tame, Carried, Adds, Unsent, Claiming
<1>2. ASSUME NEW v \in Voices,
             \/ ServeForm(v) \/ Answered(v)
             \/ OpenLink(v) \/ ServeLink(v) \/ LinkAnswered(v)
             \/ \E t \in Tabs : Submit(t, v)
      PROVE  IInv'
  BY <1>2, ServeFormStep, AnsweredStep, LinkStep, SubmitStep
<1>3. ASSUME NEW t \in Tabs,
             \/ Flush(t) \/ Write(t) \/ SendNext(t) \/ ServeDrain(t)
             \/ Settle(t) \/ PutBack(t) \/ CloseTab(t)
      PROVE  IInv'
  BY <1>3, FlushStep, WriteStep, SendNextStep, ServeDrainStep, SettleStep, PutBackStep,
     CloseTabStep
<1> QED
  BY <1>1, <1>2, <1>3 DEF Next

(* What the queue and the tabs hold is as IInv says, however many tabs are   *)
(* open, answers lost, tabs closed and writes refused.                       *)
THEOREM Correct == Spec => []IInv
<1> QED
  BY InitIInv, NextIInv, PTL DEF Spec

(* Every variable keeps its type.                                            *)
THEOREM TypeCorrect == Spec => []TypeOK
<1>1. IInv => TypeOK
  BY DEF IInv
<1> QED
  BY <1>1, Correct, PTL

(* A voice whose sender was told what became of it, and which no two tabs    *)
(* claimed, is on the Wall once, however often its form, the queue and the   *)
(* tabs try; and a link that is said to have worked has taken it off.        *)
THEOREM PublishedAtMostOnce == Spec => []PublishedOnce
<1>1. IInv => PublishedOnce
  <2> SUFFICES ASSUME IInv, NEW v \in Voices \ (doubted \union shared)
               PROVE  published[v] <= 1 /\ (link[v] = "done" => published[v] <= withdrawn[v])
    BY DEF PublishedOnce
  <2>1. v \in Voices /\ Spent(v)
    BY DEF IInv, SentOnce, Tame
  <2> QED
    BY <2>1 DEF IInv, LinksTold, Spent
<1> QED
  BY <1>1, Correct, PTL

(* Every step keeps the promise.                                             *)
LEMMA NextKInv == KInv /\ [Next]_vars => KInv'
<1> SUFFICES ASSUME KInv, [Next]_vars PROVE KInv'
  OBVIOUS
<1>1. IInv'
  BY NextIInv DEF KInv
<1>2. CASE UNCHANGED vars
  <2>1. /\ UNCHANGED <<store, tab, form, published, cut>>
    BY <1>2 DEF vars
  <2> QED
    BY <1>1, <2>1, ElsewhereKept DEF KInv
<1>3. ASSUME NEW v \in Voices,
             \/ ServeForm(v) \/ Answered(v)
             \/ OpenLink(v) \/ ServeLink(v) \/ LinkAnswered(v)
             \/ \E t \in Tabs : Submit(t, v)
      PROVE  KInv'
  BY <1>1, <1>3, FormsKeep, AnsweredKeeps DEF KInv
<1>4. ASSUME NEW t \in Tabs,
             \/ Flush(t) \/ Write(t) \/ SendNext(t) \/ ServeDrain(t)
             \/ Settle(t) \/ PutBack(t) \/ CloseTab(t)
      PROVE  KInv'
  BY <1>1, <1>4, FlushKeeps, WriteKeeps, SendNextKeeps, ServeDrainKeeps, SettleKeeps,
     PutBackKeeps, CloseTabKeeps DEF KInv
<1> QED
  BY <1>2, <1>3, <1>4 DEF Next

(* Before the first step nobody was told anything.                           *)
LEMMA InitKInv == Init => KInv
<1> SUFFICES ASSUME Init PROVE KInv
  OBVIOUS
<1>1. \A t \in Tabs : tab[t] = IdleTab
  BY DEF Init
<1>2. NothingForgotten
  BY <1>1 DEF NothingForgotten, IdleTab, ToSet
<1>3. KeptUntilSettled
  BY DEF Init, KeptUntilSettled, VoiceForm, NoForm
<1> QED
  BY <1>2, <1>3, InitIInv DEF KInv

(* A voice its author was told is kept is never lost: until it is on the     *)
(* Wall or refused it is in the queue or in the hands of a tab, whatever the *)
(* tabs do at the same time, unless a tab was closed on it or a write        *)
(* dropped it.                                                               *)
THEOREM NeverLost == Spec => []KeptUntilSettled
<1>1. KInv => KeptUntilSettled
  BY DEF KInv
<1> QED
  BY <1>1, InitKInv, NextKInv, PTL DEF Spec

(* The queue delivers: for any number of tabs and voices, whatever answers   *)
(* are lost and wherever tabs are closed, no voice that its author was told  *)
(* is kept is lost, and none is on the Wall twice or stays after withdrawal. *)
THEOREM Delivers == Spec => []NeitherLostNorDoubled
<1>1. KeptUntilSettled /\ PublishedOnce => NeitherLostNorDoubled
  BY DEF NeitherLostNorDoubled
<1> QED
  BY <1>1, NeverLost, PublishedAtMostOnce, PTL
=============================================================================
