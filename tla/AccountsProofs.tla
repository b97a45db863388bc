---------------------------- MODULE AccountsProofs ----------------------------
(***************************************************************************)
(* Theorems about Accounts, for any members, requests, links, sessions,    *)
(* files and workers, and any number of arrivals and of failures.          *)
(***************************************************************************)
EXTENDS Accounts, TLAPS

-----------------------------------------------------------------------------
(* The inductive invariant: what a request that was let in, or has read a    *)
(* row, may still rely on when its next statement runs.                      *)

\* Rows belong to members, and who is not there has none of a member's marks.
Rows ==
  /\ \A m \in Members : ~Exists(m) => user[m] = NoUser
  /\ \A s \in Sessions : session[s].live => session[s].of \in Members
  /\ \A l \in Links : link[l] # FreeLink => link[l].of \in Members /\ link[l].state # "none"

\* The requests that hold link l after having read it, and those that will send it.
Readers(l) == {r \in Requests : req[r].op = "verify" /\ req[r].link = l}
Senders(l) == {r \in Requests : req[r].op \in {"register", "request"} /\ req[r].link = l}

\* A link that will be sent is nobody else's; one that was not raced is held by
\* one request at most, by none once it has begun a session, and as long as it
\* is unused whoever holds it has not burned it yet.
LinkKnown(l) ==
  /\ \A r \in Senders(l) : link[l] = FreeLink /\ \A q \in Requests : req[q].link = l => q = r
  /\ link[l] # FreeLink /\ ~link[l].raced =>
       /\ link[l].begun <= 1
       /\ link[l].begun = 1 => Readers(l) = {} /\ link[l].state # "unused"
       /\ \A q, r \in Readers(l) : q = r
       /\ link[l].state = "unused" => \A r \in Readers(l) : req[r].at = "burn"

LinksKnown ==
  /\ \A l \in Links : LinkKnown(l)
  /\ \A r \in Requests : req[r].at = "issue" => req[r].op \in {"register", "request"}

\* An upload under way has its key to itself: no row, no worker and no other
\* request has it, and until it is put there is no such object.
UploadsKnown ==
  \A r \in Requests :
    /\ req[r].op = "upload" => req[r].file \in Files /\ req[r].at \in {"act", "asset"}
    /\ req[r].at = "asset" => req[r].op = "upload"
    /\ req[r].file \in Files =>
         /\ req[r].op = "upload" /\ row[req[r].file] = Nobody
         /\ \A q \in Requests : req[q].file = req[r].file => q = r
         /\ \A w \in Workers : req[r].file \notin worker[w].found
         /\ req[r].at = "act" => req[r].file \notin object

\* A worker is at work for a member; what it has found is out of storage, or was
\* left there by a failure.
WorkersKnow ==
  \A w \in Workers :
    /\ worker[w].at # "idle" => worker[w].who \in Members
    /\ \A f \in worker[w].found : f \notin object \/ f \in left

\* A member's own request that was let in before the bar is marked late.
LateIsKnown ==
  \A r \in Requests : req[r].op \in Asking /\ Barred(user[req[r].who]) => req[r].late

IInv == /\ TypeOK
        /\ Rows
        /\ LinksKnown
        /\ UploadsKnown
        /\ WorkersKnow
        /\ LateIsKnown
        /\ FilesAreAccountedFor

-----------------------------------------------------------------------------
(* Type correctness of one step.                                             *)

ReqType == [Requests -> Request \union {Idle}]

(* What the code does to a request leaves it a request: it ends, it goes on, *)
(* it is overtaken, it begins.                                               *)
LEMMA RequestsTyped ==
  ASSUME TypeOK
  PROVE  /\ \A r \in Requests : Ended(r) \in ReqType
         /\ \A r \in Requests, at \in Points : req[r] # Idle => Goes(r, at) \in ReqType
         /\ \A m \in Members, reqs \in ReqType : Overtaken(m, reqs) \in ReqType
         /\ \A r \in Requests, fields \in Request : Begin(r, fields) => req' \in ReqType
<1> USE DEF ReqType
<1>1. ASSUME NEW r \in Requests PROVE Ended(r) \in ReqType
  BY DEF TypeOK, Ended
<1>2. ASSUME NEW r \in Requests, NEW at \in Points, req[r] # Idle
      PROVE  Goes(r, at) \in ReqType
  <2>1. req[r] \in Request
    BY <1>2 DEF TypeOK
  <2>2. [req[r] EXCEPT !.at = at] \in Request
    BY <2>1 DEF Request
  <2> QED
    BY <2>2 DEF TypeOK, Goes
<1>3. ASSUME NEW m \in Members, NEW reqs \in ReqType
      PROVE  Overtaken(m, reqs) \in ReqType
  <2>1. ASSUME NEW q \in Requests, reqs[q].op \in Asking
        PROVE  [reqs[q] EXCEPT !.late = TRUE] \in Request
    <3>1. reqs[q] \in Request
      BY <2>1 DEF Idle, Asking
    <3> QED
      BY <3>1 DEF Request
  <2> QED
    BY <2>1 DEF Overtaken
<1>4. ASSUME NEW r \in Requests, NEW fields \in Request, Begin(r, fields)
      PROVE  req' \in ReqType
  BY <1>4 DEF TypeOK, Begin
<1> QED
  BY <1>1, <1>2, <1>3, <1>4




(* AuthService, MagicLinkService and SessionService keep the types.          *)
LEMMA SigningTyped ==
  ASSUME TypeOK, Rows, NEW r \in Requests
  PROVE  /\ \A m \in Members, l \in Links, withPassword \in BOOLEAN :
              Register(r, m, l, withPassword) \/ RequestMagicLink(r, m, l) =>
                req' \in ReqType /\ UNCHANGED <<identity, rest>>
         /\ \A m \in Members : Login(r, m) => req' \in ReqType /\ UNCHANGED <<identity, rest>>
         /\ \A l \in Links : Verify(r, l) =>
              /\ req' \in ReqType /\ link' \in [Links -> Link]
              /\ UNCHANGED <<user, session, rest>>
         /\ \A s \in Sessions, op \in Asking, f \in Files \union {NoFile} :
              Resolve(r, s, op, f) => req' \in ReqType /\ UNCHANGED <<identity, rest>>
<1>1. ASSUME NEW m \in Members, NEW l \in Links, NEW withPassword \in BOOLEAN,
             Register(r, m, l, withPassword) \/ RequestMagicLink(r, m, l)
      PROVE  req' \in ReqType /\ UNCHANGED <<identity, rest>>
  <2> DEFINE new(op, at, pw) == [Idle EXCEPT !.op = op, !.who = m, !.link = l,
                                   !.withPassword = pw, !.at = at]
  <2>1. \A op \in Signing, at \in Points, pw \in BOOLEAN : new(op, at, pw) \in Request
    BY DEF Request, Idle
  <2>2. [Idle EXCEPT !.op = "request", !.who = m, !.link = l, !.at = "issue"] \in Request
    BY DEF Request, Idle, Signing, Points
  <2> QED
    BY <1>1, <2>1, <2>2, RequestsTyped DEF Register, RequestMagicLink, Signing, Points
<1>2. ASSUME NEW m \in Members, Login(r, m)
      PROVE  req' \in ReqType /\ UNCHANGED <<identity, rest>>
  <2>1. [Idle EXCEPT !.op = "login", !.who = m, !.at = "start"] \in Request
    BY DEF Request, Idle, Signing, Points
  <2> QED
    BY <1>2, <2>1, RequestsTyped DEF Login
<1>3. ASSUME NEW l \in Links, Verify(r, l)
      PROVE  /\ req' \in ReqType /\ link' \in [Links -> Link]
             /\ UNCHANGED <<user, session, rest>>
  <2>1. link[l].of \in Members
    BY <1>3 DEF Verify, Rows, FreeLink
  <2>2. [Idle EXCEPT !.op = "verify", !.who = link[l].of, !.link = l, !.at = "burn"] \in Request
    BY <2>1 DEF Request, Idle, Signing, Points
  <2>3. link' \in [Links -> Link]
    <3> DEFINE again == link[l].raced \/ \E q \in Requests : req[q].at = "burn" /\ req[q].link = l
    <3>1. again \in BOOLEAN
      OBVIOUS
    <3>2. link' = [link EXCEPT ![l].raced = again]
      BY <1>3 DEF Verify
    <3> HIDE DEF again
    <3>3. [link[l] EXCEPT !.raced = again] \in Link
      BY <3>1 DEF TypeOK, Link
    <3> QED
      BY <3>2, <3>3 DEF TypeOK
  <2> QED
    BY <1>3, <2>2, <2>3, RequestsTyped DEF Verify
<1>4. ASSUME NEW s \in Sessions, NEW op \in Asking, NEW f \in Files \union {NoFile},
             Resolve(r, s, op, f)
      PROVE  req' \in ReqType /\ UNCHANGED <<identity, rest>>
  <2>1. session[s].of \in Members
    BY <1>4 DEF Resolve, Rows
  <2>2. [Idle EXCEPT !.op = op, !.who = session[s].of, !.file = f, !.at = "act"] \in Request
    BY <2>1 DEF Request, Idle, Points
  <2> QED
    BY <1>4, <2>2, RequestsTyped DEF Resolve
<1> QED
  BY <1>1, <1>2, <1>3, <1>4

(* Writing a column of a row leaves it a row.                                *)
LEMMA RowsTyped ==
  /\ \A u \in User, b \in BOOLEAN : [u EXCEPT !.password = b] \in User
  /\ \A u \in User, b \in BOOLEAN : [u EXCEPT !.recorded = b] \in User
  /\ \A u \in User : [u EXCEPT !.verified = TRUE] \in User
  /\ \A u \in User, s \in Statuses : [u EXCEPT !.status = s] \in User
  /\ \A u \in User, d \in {"asked", "due"} : [u EXCEPT !.deletion = d] \in User
  /\ \A l \in Link, s \in {"used", "expired"} : [l EXCEPT !.state = s] \in Link
  /\ \A s \in Session : [s EXCEPT !.live = FALSE] \in Session
  BY DEF User, Link, Session

LEMMA SignedOutTyped ==
  ASSUME TypeOK, NEW m
  PROVE  SignedOut(m) \in [Sessions -> Session]
  <1>1. \A x \in Session : [x EXCEPT !.live = FALSE] \in Session
  BY DEF Session
<1> QED
  BY <1>1 DEF TypeOK, SignedOut

(* The statements of a request keep the types of users, links, sessions and  *)
(* requests.                                                                 *)
LEMMA ContinueTyped ==
  ASSUME TypeOK, UploadsKnown, NEW r \in Requests, Continue(r)
  PROVE  /\ user' \in [Members -> User] /\ link' \in [Links -> Link]
         /\ session' \in [Sessions -> Session] /\ req' \in ReqType
         /\ voice' \in [Members -> {"none", "named", "purged"}]
         /\ object' \subseteq Files /\ row' \in [Files -> Members \union {Nobody}]
         /\ left' \subseteq Files /\ worker' = worker /\ faults' \in 0..MaxFaults
<1> USE RequestsTyped DEF ReqType
<1> DEFINE m == req[r].who
<1>1. CASE CreateUser(r)
  <2>1. m \in Members
    BY <1>1 DEF CreateUser, TypeOK, Request, Idle
  <2>2. \A b \in BOOLEAN : [NoUser EXCEPT !.exists = TRUE, !.password = b] \in User
    BY DEF NoUser, User, Statuses
  <2>3. req[r].withPassword \in BOOLEAN
    <3>1. req[r] \in Request
      BY <1>1 DEF CreateUser, TypeOK, Idle
    <3> QED
      BY <3>1 DEF Request
  <2>4. user' \in [Members -> User]
    BY <1>1, <2>2, <2>3 DEF CreateUser, TypeOK
  <2>5. req' \in ReqType
    BY <1>1 DEF CreateUser, Points, Idle
  <2> QED
    BY <1>1, <2>4, <2>5 DEF CreateUser, TypeOK, rest, files
<1>2. CASE Record(r)
  <2>1. m \in Members
    BY <1>2 DEF Record, TypeOK, Request, Idle
  <2> DEFINE now == user[m].recorded \/ Exists(m)
  <2>2. now \in BOOLEAN
    OBVIOUS
  <2>3. user' = [user EXCEPT ![m].recorded = now]
    BY <1>2 DEF Record
  <2> HIDE DEF now
  <2>5. user' \in [Members -> User]
    <3>1. \A u \in User, b \in BOOLEAN : [u EXCEPT !.recorded = b] \in User
      BY RowsTyped
    <3>2. \A u \in User, b \in BOOLEAN : [u EXCEPT !.password = b] \in User
      BY RowsTyped
    <3> QED
      BY <2>2, <2>3, <3>1, <3>2 DEF TypeOK
  <2>6. req' \in ReqType
    BY <1>2 DEF Record, Points, Idle
  <2> QED
    BY <1>2, <2>5, <2>6 DEF Record, TypeOK, rest, files
<1>3. CASE Issue(r)
  <2>1. m \in Members
    BY <1>3 DEF Issue, TypeOK, Request, Idle
  <2>3. link' \in [Links -> Link]
    <3>1. FreeLink \in Link
      BY DEF FreeLink, Link
    <3>2. \A k \in Link : [k EXCEPT !.of = m, !.state = "unused"] \in Link
      BY <2>1 DEF Link
    <3>3. [FreeLink EXCEPT !.of = m, !.state = "unused"] \in Link
      BY <3>1, <3>2
    <3> QED
      BY <1>3, <3>3 DEF TypeOK, Issue
  <2>4. faults' \in 0..MaxFaults
    BY <1>3, AccountsAssumption DEF Issue, Send, TypeOK
  <2> QED
    BY <1>3, <2>3, <2>4 DEF Issue, TypeOK, files
<1>4. CASE Burn(r)
  <2>2. link' \in [Links -> Link]
    <3>1. \A l \in Link : [l EXCEPT !.state = "used"] \in Link
      BY RowsTyped
    <3> QED
      BY <1>4, <3>1 DEF TypeOK, Burn, Burned
  <2>3. req' \in ReqType
    BY <1>4 DEF Burn, Points, Idle
  <2> QED
    BY <1>4, <2>2, <2>3 DEF Burn, TypeOK, rest, files
<1>5. CASE Prove(r)
  <2>2. user' \in [Members -> User]
    <3>1. \A u \in User : [u EXCEPT !.verified = TRUE] \in User
      BY RowsTyped
    <3> QED
      BY <1>5, <3>1 DEF TypeOK, Prove, Proved
  <2>3. req' \in ReqType
    BY <1>5 DEF Prove, Points, Idle
  <2> QED
    BY <1>5, <2>2, <2>3 DEF Prove, TypeOK, rest, files
<1>6. CASE Start(r)
  <2>1. m \in Members
    BY <1>6 DEF Start, TypeOK, Request, Idle
  <2>2. [of |-> m, live |-> TRUE] \in Session
    BY <2>1 DEF Session
  <2>3. session' \in [Sessions -> Session]
    BY <1>6, <2>2 DEF Start, TypeOK
  <2>4. link' \in [Links -> Link]
    <3>1. \A l \in Link : [l EXCEPT !.begun = IF l.begun = 2 THEN 2 ELSE l.begun + 1] \in Link
      BY DEF Link
    <3> QED
      BY <1>6, <3>1 DEF TypeOK, Start
  <2> QED
    BY <1>6, <2>3, <2>4 DEF Start, TypeOK, rest, files
<1>7. CASE SetPassword(r)
  <2>1. m \in Members
    BY <1>7 DEF SetPassword, Acts, TypeOK, Request, Idle
  <2> DEFINE now == user[m].password \/ Exists(m)
  <2>2. now \in BOOLEAN
    OBVIOUS
  <2>3. user' = [user EXCEPT ![m].password = now]
    BY <1>7 DEF SetPassword
  <2> HIDE DEF now
  <2>5. user' \in [Members -> User]
    <3>1. \A u \in User, b \in BOOLEAN : [u EXCEPT !.recorded = b] \in User
      BY RowsTyped
    <3>2. \A u \in User, b \in BOOLEAN : [u EXCEPT !.password = b] \in User
      BY RowsTyped
    <3> QED
      BY <2>2, <2>3, <3>1, <3>2 DEF TypeOK
  <2> QED
    BY <1>7, <2>5 DEF SetPassword, TypeOK, rest, files
<1>8. CASE Revoke(r)
  <2>1. session' \in [Sessions -> Session]
    <3>1. \A s \in Session : [s EXCEPT !.live = FALSE] \in Session
      BY RowsTyped
    <3> QED
      BY <1>8, <3>1 DEF TypeOK, Revoke
  <2> QED
    BY <1>8, <2>1 DEF Revoke, TypeOK, rest, files
<1>9. CASE SetPresenceHidden(r)
  <2> DEFINE s == IF req[r].op = "hide" THEN "HIDDEN" ELSE "ACTIVE"
  <2>1. s \in Statuses
    BY DEF Statuses
  <2>2. user' \in [Members -> User]
    <3>1. user' = user \/ user' = [user EXCEPT ![m].status = s]
      BY <1>9 DEF SetPresenceHidden
    <3> HIDE DEF s
    <3>2. \A u \in User : [u EXCEPT !.status = s] \in User
      BY <2>1, RowsTyped
    <3> QED
      BY <3>1, <3>2 DEF TypeOK
  <2>3. req' \in ReqType
    BY <1>9 DEF SetPresenceHidden, Acts, Points, Idle
  <2> QED
    BY <1>9, <2>2, <2>3 DEF SetPresenceHidden, TypeOK, rest, files
<1>10. CASE RequestDeletion(r)
  <2>2. user' \in [Members -> User]
    <3>1. \A u \in User : [u EXCEPT !.deletion = "asked"] \in User
      BY RowsTyped
    <3>2. \A u \in User : [u EXCEPT !.status = "DELETION_PENDING"] \in User
      BY RowsTyped DEF Statuses
    <3> QED
      BY <1>10, <3>1, <3>2 DEF TypeOK, RequestDeletion
  <2>3. m \in Members
    BY <1>10 DEF RequestDeletion, Acts, TypeOK, Request, Idle
  <2>4. req' \in ReqType
    BY <1>10, <2>3 DEF RequestDeletion, Acts, Points, Idle
  <2>5. session' \in [Sessions -> Session]
    BY <1>10, SignedOutTyped DEF RequestDeletion, TypeOK
  <2> QED
    BY <1>10, <2>2, <2>4, <2>5 DEF RequestDeletion, TypeOK, rest, files
<1>11. CASE Speak(r)
  <2>1. voice' \in [Members -> {"none", "named", "purged"}]
    BY <1>11 DEF Speak, TypeOK
  <2> QED
    BY <1>11, <2>1 DEF Speak, TypeOK, identity, files
<1>12. CASE PutObject(r)
  <2>1. req[r].file \in Files
    BY <1>12 DEF PutObject, Acts, UploadsKnown
  <2>2. req' \in ReqType
    BY <1>12 DEF PutObject, Acts, Points, Idle
  <2> QED
    BY <1>12, <2>1, <2>2 DEF PutObject, TypeOK, identity
<1>13. CASE CreateAsset(r)
  <2>1. req[r].file \in Files
    BY <1>13 DEF CreateAsset, UploadsKnown
  <2>2. m \in Members
    BY <1>13 DEF CreateAsset, TypeOK, Request, Idle
  <2> QED
    BY <1>13, <2>1, <2>2 DEF CreateAsset, TypeOK, identity
<1>14. CASE SignOut(r)
  <2>1. session' \in [Sessions -> Session]
    BY <1>14, SignedOutTyped DEF SignOut
  <2> QED
    BY <1>14, <2>1 DEF SignOut, TypeOK, rest, files
<1> QED
  BY <1>1, <1>2, <1>3, <1>4, <1>5, <1>6, <1>7, <1>8, <1>9, <1>10, <1>11, <1>12,
     <1>13, <1>14 DEF Continue

WorkerType == [Workers -> [at : {"idle", "voices", "files", "rows", "delete"},
                           who : Members \union {Nobody}, found : SUBSET Files]]

(* DeletionWorker keeps the types.                                           *)
LEMMA PurgeTyped ==
  ASSUME TypeOK, NEW w \in Workers,
         Purge(w) \/ CrashWorker(w) \/ \E m \in Members : BeginPurge(w, m)
  PROVE  /\ user' \in [Members -> User] /\ link' \in [Links -> Link]
         /\ session' \in [Sessions -> Session] /\ req' = req
         /\ voice' \in [Members -> {"none", "named", "purged"}]
         /\ object' \subseteq Files /\ row' \in [Files -> Members \union {Nobody}]
         /\ left' \subseteq Files /\ worker' \in WorkerType /\ faults' \in 0..MaxFaults
<1> USE DEF WorkerType
<1>1. Rests \in [at : {"idle", "voices", "files", "rows", "delete"},
                 who : Members \union {Nobody}, found : SUBSET Files]
  BY DEF Rests
<1>2. \A m \in Members : UploadsOf(m) \subseteq Files
  BY DEF UploadsOf
<1>3. ASSUME NEW m \in Members, BeginPurge(w, m) PROVE worker' \in WorkerType
  BY <1>3 DEF TypeOK, BeginPurge, FirstStep
<1>4. CASE PurgeVoices(w)
  <2>1. worker' \in WorkerType
    BY <1>4 DEF TypeOK, PurgeVoices
  <2>2. voice' \in [Members -> {"none", "named", "purged"}]
    BY <1>4 DEF TypeOK, PurgeVoices
  <2> QED
    BY <1>4, <2>1, <2>2 DEF TypeOK, PurgeVoices, identity, files
<1>5. CASE RemoveObjects(w)
  <2> DEFINE found == UploadsOf(worker[w].who)
  <2>1. found \subseteq Files
    BY DEF UploadsOf
  <2>2. worker' = [worker EXCEPT ![w].at = "rows", ![w].found = found]
    BY <1>5 DEF RemoveObjects
  <2>3. /\ UNCHANGED <<identity, voice, row, req>>
        /\ \/ object' = object \ found /\ UNCHANGED <<left, faults>>
           \/ /\ faults < MaxFaults /\ faults' = faults + 1
              /\ left' = left \union found /\ UNCHANGED object
    BY <1>5 DEF RemoveObjects, ToRemove
  <2> HIDE DEF found
  <2>4. worker' \in WorkerType
    BY <2>1, <2>2 DEF TypeOK
  <2>5. faults' \in 0..MaxFaults
    BY <2>3, AccountsAssumption DEF TypeOK
  <2> QED
    BY <2>1, <2>3, <2>4, <2>5 DEF TypeOK, identity
<1>6. CASE DeleteRows(w)
  <2> DEFINE all == UploadsOf(worker[w].who)
  <2>1. all \subseteq Files
    BY DEF UploadsOf
  <2>2. /\ worker' = [worker EXCEPT ![w].at = "delete", ![w].found = {}]
        /\ row' = [f \in Files |-> IF f \in all THEN Nobody ELSE row[f]]
        /\ left' = left \union (all \ worker[w].found)
        /\ UNCHANGED <<identity, voice, object, req, faults>>
    BY <1>6 DEF DeleteRows
  <2> HIDE DEF all
  <2>3. worker' \in WorkerType
    BY <2>2 DEF TypeOK
  <2>4. row' \in [Files -> Members \union {Nobody}]
    BY <2>2 DEF TypeOK
  <2> QED
    BY <2>1, <2>2, <2>3, <2>4 DEF TypeOK, identity
<1>7. CASE DeleteUser(w)
  <2>1. worker' \in WorkerType
    BY <1>1, <1>7 DEF TypeOK, DeleteUser
  <2>2. CASE user[worker[w].who].recorded
    BY <1>7, <2>1, <2>2 DEF TypeOK, DeleteUser, identity
  <2>3. CASE ~user[worker[w].who].recorded
    <3> DEFINE m == worker[w].who
    <3>1. /\ user' = [user EXCEPT ![m] = NoUser]
          /\ link' = [l \in Links |-> IF link[l].of = m THEN FreeLink ELSE link[l]]
          /\ session' = [s \in Sessions |-> IF session[s].of = m THEN NoRow ELSE session[s]]
          /\ row' = [f \in Files |-> IF row[f] = m THEN Nobody ELSE row[f]]
          /\ left' = left \union UploadsOf(m)
          /\ UNCHANGED <<voice, object, req, faults>>
      BY <1>7, <2>3 DEF DeleteUser
    <3>2. NoUser \in User /\ FreeLink \in Link /\ NoRow \in Session /\ UploadsOf(m) \subseteq Files
      BY DEF NoUser, User, Statuses, FreeLink, Link, NoRow, Session, UploadsOf
    <3> QED
      BY <2>1, <3>1, <3>2 DEF TypeOK
  <2> QED
    BY <2>2, <2>3
<1>8. CASE CrashWorker(w)
  <2>1. faults' \in 0..MaxFaults
    BY <1>8, AccountsAssumption DEF TypeOK, CrashWorker
  <2>2. worker' \in WorkerType
    BY <1>1, <1>8 DEF TypeOK, CrashWorker
  <2> QED
    BY <1>8, <2>1, <2>2 DEF TypeOK, CrashWorker, identity, files
<1> QED
  BY <1>3, <1>4, <1>5, <1>6, <1>7, <1>8 DEF Purge, BeginPurge, TypeOK, identity, files

(* Moderation, time, RetentionWorker and a request cut short.                *)
LEMMA OthersTyped ==
  ASSUME TypeOK, UploadsKnown,
         \/ \E r \in Requests, m \in Members : Suspend(r, m)
         \/ \E r \in Requests : Crash(r)
         \/ \E m \in Members : MonthPasses(m)
         \/ \E l \in Links : ExpireLink(l)
         \/ \E s \in Sessions : ExpireSession(s)
         \/ PurgeExpiredTokens \/ PurgeSessions
  PROVE  /\ user' \in [Members -> User] /\ link' \in [Links -> Link]
         /\ session' \in [Sessions -> Session] /\ req' \in ReqType
         /\ left' \subseteq Files /\ faults' \in 0..MaxFaults
         /\ UNCHANGED <<voice, object, row, worker>>
<1>1. ASSUME NEW r \in Requests, NEW m \in Members, Suspend(r, m)
      PROVE  user' \in [Members -> User] /\ req' \in ReqType /\ UNCHANGED <<link, session, rest>>
  <2>1. \A u \in User : [u EXCEPT !.status = "SUSPENDED"] \in User
    BY RowsTyped DEF Statuses
  <2>2. user' \in [Members -> User]
    BY <1>1, <2>1 DEF TypeOK, Suspend
  <2>3. [Idle EXCEPT !.op = "suspend", !.who = m, !.at = "signout"] \in Request
    BY DEF Idle, Request, Points
  <2>4. [req EXCEPT ![r] = [Idle EXCEPT !.op = "suspend", !.who = m, !.at = "signout"]] \in ReqType
    BY <2>3 DEF TypeOK, ReqType
  <2> QED
    BY <1>1, <2>2, <2>4, RequestsTyped DEF Suspend
<1>2. ASSUME NEW r \in Requests, Crash(r)
      PROVE  /\ req' \in ReqType /\ left' \subseteq Files /\ faults' \in 0..MaxFaults
             /\ UNCHANGED <<identity, voice, object, row, worker>>
  <2>1. left' \subseteq Files
    BY <1>2 DEF TypeOK, Crash, UploadsKnown
  <2>2. faults' \in 0..MaxFaults
    BY <1>2, AccountsAssumption DEF TypeOK, Crash
  <2> QED
    BY <1>2, <2>1, <2>2, RequestsTyped DEF Crash
<1>3. ASSUME NEW m \in Members, MonthPasses(m)
      PROVE  user' \in [Members -> User] /\ UNCHANGED <<link, session, req, rest>>
  <2>1. \A u \in User : [u EXCEPT !.deletion = "due"] \in User
    BY RowsTyped
  <2> QED
    BY <1>3, <2>1 DEF TypeOK, MonthPasses
<1>4. ASSUME NEW l \in Links, ExpireLink(l)
      PROVE  link' \in [Links -> Link] /\ UNCHANGED <<user, session, req, rest>>
  <2>1. \A k \in Link : [k EXCEPT !.state = "expired"] \in Link
    BY RowsTyped
  <2> QED
    BY <1>4, <2>1 DEF TypeOK, ExpireLink
<1>5. ASSUME NEW s \in Sessions, ExpireSession(s)
      PROVE  session' \in [Sessions -> Session] /\ UNCHANGED <<user, link, req, rest>>
  <2>1. \A x \in Session : [x EXCEPT !.live = FALSE] \in Session
    BY RowsTyped
  <2> QED
    BY <1>5, <2>1 DEF TypeOK, ExpireSession
<1>6. ASSUME PurgeExpiredTokens
      PROVE  link' \in [Links -> Link] /\ UNCHANGED <<user, session, req, rest>>
  <2>1. FreeLink \in Link
    BY DEF FreeLink, Link
  <2> QED
    BY <1>6, <2>1 DEF TypeOK, PurgeExpiredTokens
<1>7. ASSUME PurgeSessions
      PROVE  session' \in [Sessions -> Session] /\ UNCHANGED <<user, link, req, rest>>
  <2>1. NoRow \in Session
    BY DEF NoRow, Session
  <2> QED
    BY <1>7, <2>1 DEF TypeOK, PurgeSessions
<1> QED
  BY <1>1, <1>2, <1>3, <1>4, <1>5, <1>6, <1>7 DEF TypeOK, ReqType, identity, rest, files

(* Every step keeps the types.                                               *)
LEMMA StepTypeOK ==
  ASSUME IInv, [Next]_vars
  PROVE  TypeOK'
<1> USE DEF IInv, ReqType, WorkerType
<1>1. ASSUME NEW r \in Requests, Arrive(r), arrivals < MaxArrivals, arrivals' = arrivals + 1
      PROVE  TypeOK'
  <2>1. arrivals' \in 0..MaxArrivals
    BY <1>1, AccountsAssumption DEF TypeOK
  <2>2. CASE \E m \in Members : Suspend(r, m)
    BY <2>1, <2>2, OthersTyped DEF TypeOK
  <2>3. CASE ~\E m \in Members : Suspend(r, m)
    <3>1. /\ req' \in ReqType /\ link' \in [Links -> Link]
          /\ UNCHANGED <<user, session, rest>>
      BY <1>1, <2>3, SigningTyped DEF Arrive, TypeOK, identity
    <3> QED
      BY <2>1, <3>1 DEF TypeOK, rest, files
  <2> QED
    BY <2>2, <2>3
<1>2. ASSUME NEW r \in Requests, Continue(r), UNCHANGED arrivals PROVE TypeOK'
  BY <1>2, ContinueTyped DEF TypeOK
<1>3. ASSUME NEW w \in Workers, UNCHANGED arrivals,
             Purge(w) \/ CrashWorker(w) \/ \E m \in Members : BeginPurge(w, m)
      PROVE  TypeOK'
  BY <1>3, PurgeTyped DEF TypeOK
<1>4. ASSUME \/ \E r \in Requests : Crash(r)
             \/ \E m \in Members : MonthPasses(m)
             \/ \E l \in Links : ExpireLink(l)
             \/ \E s \in Sessions : ExpireSession(s)
             \/ PurgeExpiredTokens \/ PurgeSessions,
             UNCHANGED arrivals
      PROVE  TypeOK'
  BY <1>4, OthersTyped DEF TypeOK
<1>5. CASE UNCHANGED vars
  BY <1>5 DEF TypeOK, vars
<1> QED
  BY <1>1, <1>2, <1>3, <1>4, <1>5 DEF Next

-----------------------------------------------------------------------------
(* Requests.                                                                 *)

\* A step that is calm leaves every request with what it holds, or without a
\* link and a file; it burns no link, and takes no upload further.
Calm ==
  \A q \in Requests :
    \/ /\ req'[q].link = NoLink /\ req'[q].file = NoFile
       /\ req'[q].op # "upload" /\ req'[q].at \notin {"asset", "issue"}
    \/ /\ req'[q].op = req[q].op /\ req'[q].link = req[q].link /\ req'[q].file = req[q].file
       /\ req[q].at = "burn" => req'[q].at = "burn"
       /\ \/ req'[q].at = req[q].at
          \/ req[q].op # "upload" /\ req'[q].at \notin {"asset", "issue"}
          \/ req[q].op = "register" /\ req'[q].at = "issue"

\* And no upload ends.
Carries == \A q \in Requests : req[q].op = "upload" => req'[q].file = req[q].file

\* A request that has gone on, and one that was overtaken.
Moved(q, at) == [q EXCEPT !.at = at]
Marked(q)    == [q EXCEPT !.late = TRUE]

(* Going on changes where a request is and being overtaken marks it, and     *)
(* neither changes anything else.                                            *)
LEMMA FieldsKept ==
  ASSUME NEW q \in Request, NEW at
  PROVE  /\ Moved(q, at).op = q.op /\ Moved(q, at).link = q.link
         /\ Moved(q, at).file = q.file /\ Moved(q, at).who = q.who
         /\ Moved(q, at).late = q.late /\ Moved(q, at).at = at
         /\ Marked(q).op = q.op /\ Marked(q).link = q.link
         /\ Marked(q).file = q.file /\ Marked(q).who = q.who
         /\ Marked(q).late = TRUE /\ Marked(q).at = q.at
<1> DEFINE moved == [q EXCEPT !.at = at]
<1> DEFINE marked == [q EXCEPT !.late = TRUE]
<1>1. /\ moved.op = q.op /\ moved.link = q.link /\ moved.file = q.file
      /\ moved.who = q.who /\ moved.late = q.late /\ moved.at = at
  BY DEF Request
<1>2. /\ marked.op = q.op /\ marked.link = q.link /\ marked.file = q.file
      /\ marked.who = q.who /\ marked.late = TRUE /\ marked.at = q.at
  BY DEF Request
<1> QED
  BY <1>1, <1>2 DEF Moved, Marked

(* What the requests are after a step of one of them.                        *)
LEMMA RequestsAfter ==
  ASSUME TypeOK, NEW r \in Requests
  PROVE  /\ Ended(r)[r] = Idle /\ \A q \in Requests \ {r} : Ended(r)[q] = req[q]
         /\ \A at : /\ Goes(r, at)[r] = Moved(req[r], at)
                    /\ \A q \in Requests \ {r} : Goes(r, at)[q] = req[q]
         /\ \A m, reqs : \A q \in Requests :
              Overtaken(m, reqs)[q] = IF reqs[q].who = m /\ reqs[q].op \in Asking
                                      THEN Marked(reqs[q]) ELSE reqs[q]
         /\ \A fields : Begin(r, fields) =>
              /\ req[r] = Idle /\ req'[r] = fields
              /\ \A q \in Requests \ {r} : req'[q] = req[q]
  BY DEF TypeOK, Ended, Goes, Overtaken, Begin, Moved, Marked

(* Every statement of a request is calm, except where a link is burned, an   *)
(* object put, or its row created.                                           *)
LEMMA ContinueCalm ==
  ASSUME TypeOK, UploadsKnown, NEW r \in Requests,
         Continue(r), ~Burn(r), ~PutObject(r), ~CreateAsset(r)
  PROVE  Calm /\ Carries
<1>1. /\ req[r].op # "upload" /\ req[r].at # "burn" /\ req[r].at # "idle"
      /\ \/ req' = Ended(r)
         \/ \E at \in Points \ {"asset", "issue"} : req' = Goes(r, at)
         \/ req[r].op = "register" /\ req' = Goes(r, "issue")
         \/ \E m \in {req[r].who} : req' = Overtaken(m, Goes(r, "record"))
  <2>1. CASE CreateUser(r)
    BY <2>1 DEF CreateUser, UploadsKnown, Points
  <2>2. CASE Record(r)
    BY <2>2 DEF Record, UploadsKnown, Points
  <2>3. CASE Issue(r)
    BY <2>3 DEF Issue, UploadsKnown, Points
  <2>4. CASE Prove(r)
    BY <2>4 DEF Prove, UploadsKnown, Points
  <2>5. CASE Start(r)
    BY <2>5 DEF Start, UploadsKnown, Points
  <2>6. CASE SetPassword(r)
    BY <2>6 DEF SetPassword, Acts, Points
  <2>7. CASE Revoke(r)
    BY <2>7 DEF Revoke, Acts, Points
  <2>8. CASE SetPresenceHidden(r)
    BY <2>8 DEF SetPresenceHidden, Acts, Points
  <2>9. CASE RequestDeletion(r)
    BY <2>9 DEF RequestDeletion, Acts, Points
  <2>10. CASE Speak(r)
    BY <2>10 DEF Speak, Acts, Points
  <2>11. CASE SignOut(r)
    BY <2>11 DEF SignOut, UploadsKnown, Points
  <2> QED
    BY <2>1, <2>2, <2>3, <2>4, <2>5, <2>6, <2>7, <2>8, <2>9, <2>10, <2>11 DEF Continue
<1>2. \A q \in Requests : req[q].at = "asset" => req[q].op = "upload"
  BY DEF UploadsKnown
<1>3. CASE req' = Ended(r)
  BY <1>1, <1>3 DEF Ended, Idle, Calm, Carries, TypeOK
<1>4. req[r] \in Request
  BY <1>1 DEF TypeOK, Idle
<1>5. ASSUME NEW at \in Points \ {"asset"}, req' = Goes(r, at),
             at = "issue" => req[r].op = "register"
      PROVE  Calm /\ Carries
  <2>1. req'[r] = Moved(req[r], at) /\ \A q \in Requests \ {r} : req'[q] = req[q]
    BY <1>5, RequestsAfter
  <2>2. /\ req'[r].op = req[r].op /\ req'[r].link = req[r].link
        /\ req'[r].file = req[r].file /\ req'[r].at = at
    BY <1>4, <2>1 DEF Moved, Request
  <2> QED
    BY <1>1, <1>2, <1>5, <2>1, <2>2 DEF Calm, Carries
<1>6. ASSUME NEW m, req' = Overtaken(m, Goes(r, "record"))
      PROVE  Calm /\ Carries
  <2> DEFINE reqs == Goes(r, "record")
  <2>1. reqs[r] = Moved(req[r], "record") /\ \A q \in Requests \ {r} : reqs[q] = req[q]
    BY RequestsAfter
  <2> HIDE DEF reqs
  <2>2. \A q \in Requests : \/ req'[q] = reqs[q]
                            \/ reqs[q].op \in Asking /\ req'[q] = Marked(reqs[q])
    BY <1>6, RequestsAfter DEF reqs
  <2>3. \A q \in Requests : reqs[q].op \in Asking => reqs[q] \in Request
    <3>1. reqs[r] \in Request
      BY <1>4, <2>1 DEF Moved, Request, Points
    <3> QED
      BY <2>1, <3>1 DEF TypeOK, Idle, Asking
  <2>4. \A q \in Requests :
          reqs[q].op \in Asking =>
            /\ Marked(reqs[q]).op = reqs[q].op /\ Marked(reqs[q]).link = reqs[q].link
            /\ Marked(reqs[q]).file = reqs[q].file /\ Marked(reqs[q]).at = reqs[q].at
    BY <2>3, FieldsKept
  <2>5. \A q \in Requests :
          /\ req'[q].op = reqs[q].op /\ req'[q].link = reqs[q].link
          /\ req'[q].file = reqs[q].file /\ req'[q].at = reqs[q].at
    BY <2>2, <2>4
  <2>6. /\ reqs[r].op = req[r].op /\ reqs[r].link = req[r].link
        /\ reqs[r].file = req[r].file /\ reqs[r].at = "record"
    BY <1>4, <2>1 DEF Moved, Request
  <2> QED
    BY <1>1, <1>2, <2>1, <2>5, <2>6 DEF Calm, Carries
<1>7. CASE \E at \in Points \ {"asset", "issue"} : req' = Goes(r, at)
  BY <1>5, <1>7
<1>8. CASE req[r].op = "register" /\ req' = Goes(r, "issue")
  BY <1>5, <1>8 DEF Points
<1> QED
  BY <1>1, <1>3, <1>6, <1>7, <1>8

(* So is every other step that begins no upload, reads no link and claims    *)
(* none; only a crash ends an upload.                                        *)
LEMMA OthersCalm ==
  ASSUME TypeOK, UploadsKnown
  PROVE  /\ \A r \in Requests, m \in Members : Login(r, m) => Calm /\ Carries
         /\ \A r \in Requests, s \in Sessions, op \in Asking, f \in Files \union {NoFile} :
              Resolve(r, s, op, f) =>
                /\ op # "upload" => Calm
                /\ Carries /\ req'[r].link = NoLink
                /\ \A q \in Requests \ {r} : req'[q] = req[q]
         /\ \A r \in Requests, m \in Members : Suspend(r, m) => Calm /\ Carries
         /\ \A r \in Requests : Crash(r) => Calm
         /\ UNCHANGED req => Calm /\ Carries
<1>0. \A q \in Requests : req[q].at = "asset" => req[q].op = "upload"
  BY DEF UploadsKnown
<1>1. ASSUME NEW r \in Requests, NEW m \in Members, Login(r, m) PROVE Calm /\ Carries
  <2> DEFINE new == [Idle EXCEPT !.op = "login", !.who = m, !.at = "start"]
  <2>1. /\ req[r] = Idle /\ \A q \in Requests \ {r} : req'[q] = req[q]
        /\ req'[r] = new
    BY <1>1, RequestsAfter DEF Login
  <2>2. new.op = "login" /\ new.at = "start" /\ new.link = NoLink /\ new.file = NoFile
    BY DEF Idle
  <2> HIDE DEF new
  <2> QED
    BY <1>0, <2>1, <2>2 DEF Calm, Carries, Idle
<1>2. ASSUME NEW r \in Requests, NEW s \in Sessions, NEW op \in Asking,
             NEW f \in Files \union {NoFile}, Resolve(r, s, op, f)
      PROVE  /\ op # "upload" => Calm
             /\ Carries /\ req'[r].link = NoLink
             /\ \A q \in Requests \ {r} : req'[q] = req[q]
  <2> DEFINE new == [Idle EXCEPT !.op = op, !.who = session[s].of, !.file = f, !.at = "act"]
  <2>1. /\ req[r] = Idle /\ \A q \in Requests \ {r} : req'[q] = req[q]
        /\ op # "upload" => f = NoFile
        /\ req'[r] = new
    BY <1>2, RequestsAfter DEF Resolve
  <2>2. new.op = op /\ new.at = "act" /\ new.link = NoLink /\ new.file = f
    BY DEF Idle
  <2> HIDE DEF new
  <2> QED
    BY <1>0, <2>1, <2>2 DEF Calm, Carries, Idle
<1>3. ASSUME NEW r \in Requests, NEW m \in Members, Suspend(r, m) PROVE Calm /\ Carries
  <2> DEFINE new  == [Idle EXCEPT !.op = "suspend", !.who = m, !.at = "signout"]
             reqs == [req EXCEPT ![r] = new]
  <2>1. new.op = "suspend" /\ new.at = "signout" /\ new.link = NoLink /\ new.file = NoFile
    BY DEF Idle
  <2>2. req[r] = Idle /\ reqs[r] = new /\ \A q \in Requests \ {r} : reqs[q] = req[q]
    BY <1>3 DEF Suspend, TypeOK
  <2>3. req' = Overtaken(m, reqs)
    BY <1>3 DEF Suspend
  <2> HIDE DEF new, reqs
  <2>4. \A q \in Requests : \/ req'[q] = reqs[q]
                            \/ reqs[q].op \in Asking /\ req'[q] = Marked(reqs[q])
    BY <2>3, RequestsAfter
  <2>5. \A q \in Requests : req[q].op \in Asking => req[q] \in Request
    BY DEF TypeOK, Idle, Asking
  <2>6. \A q \in Requests \ {r} :
          /\ req'[q].op = req[q].op /\ req'[q].link = req[q].link
          /\ req'[q].file = req[q].file /\ req'[q].at = req[q].at
    <3>1. \A q \in Requests :
            req[q].op \in Asking =>
              /\ Marked(req[q]).op = req[q].op /\ Marked(req[q]).link = req[q].link
              /\ Marked(req[q]).file = req[q].file /\ Marked(req[q]).at = req[q].at
      BY <2>5, FieldsKept
    <3> QED
      BY <2>2, <2>4, <3>1
  <2>7. req'[r] = new
    BY <2>1, <2>2, <2>4 DEF Asking
  <2> QED
    BY <1>0, <2>1, <2>2, <2>6, <2>7 DEF Calm, Carries, Idle
<1>4. ASSUME NEW r \in Requests, Crash(r) PROVE Calm
  BY <1>0, <1>4 DEF Crash, Ended, Idle, Calm, TypeOK
<1>5. UNCHANGED req => Calm /\ Carries
  BY <1>0 DEF Calm, Carries
<1> QED
  BY <1>1, <1>2, <1>3, <1>4, <1>5

(* The deletion worker, the clock and the sweepers touch no request.          *)
LEMMA RequestsUntouched ==
  ASSUME [Next]_vars
  PROVE  UNCHANGED req \/ \E r \in Requests : Arrive(r) \/ Continue(r) \/ Crash(r)
<1>1. ASSUME NEW w \in Workers, Purge(w) \/ CrashWorker(w) \/ \E m \in Members : BeginPurge(w, m)
      PROVE  UNCHANGED req
  BY <1>1 DEF Purge, PurgeVoices, RemoveObjects, DeleteRows, DeleteUser, CrashWorker, BeginPurge
<1>2. (\E m \in Members : MonthPasses(m)) \/ (\E l \in Links : ExpireLink(l))
      \/ (\E s \in Sessions : ExpireSession(s)) \/ PurgeExpiredTokens \/ PurgeSessions
      \/ UNCHANGED vars => UNCHANGED req
  BY DEF MonthPasses, ExpireLink, ExpireSession, PurgeExpiredTokens, PurgeSessions, vars
<1> QED
  BY <1>1, <1>2 DEF Next

-----------------------------------------------------------------------------
(* Links.                                                                    *)

(* Where no link changes, what is known of links stays so in a calm step.     *)
LEMMA LinksCalm ==
  ASSUME LinksKnown, UNCHANGED link, Calm
  PROVE  LinksKnown'
<1>1. ASSUME NEW l \in Links PROVE LinkKnown(l)'
  <2>1. l # NoLink
    BY AccountsAssumption
  <2>2. \A q \in Requests : req'[q].link = l => req[q].link = l /\ req'[q].op = req[q].op
    BY <2>1 DEF Calm
  <2>3. Senders(l)' \subseteq Senders(l) /\ Readers(l)' \subseteq Readers(l)
    BY <2>2 DEF Senders, Readers
  <2>4. \A r \in Readers(l)' : req[r].at = "burn" => req'[r].at = "burn"
    BY <2>1 DEF Readers, Calm
  <2> QED
    BY <2>2, <2>3, <2>4 DEF LinksKnown, LinkKnown
<1>2. \A r \in Requests : req'[r].at = "issue" => req'[r].op \in {"register", "request"}
  BY DEF Calm, LinksKnown
<1> QED
  BY <1>1, <1>2 DEF LinksKnown

(* A request that has seen that a link is free for it has it to itself.      *)
LEMMA LinkClaimed ==
  ASSUME TypeOK, LinksKnown, NEW r \in Requests, NEW m \in Members, NEW l \in Links,
         NEW withPassword \in BOOLEAN,
         Register(r, m, l, withPassword) \/ RequestMagicLink(r, m, l)
  PROVE  LinksKnown'
<1>1. /\ FreeFor(l) /\ UNCHANGED link /\ req[r] = Idle
      /\ \A q \in Requests \ {r} : req'[q] = req[q]
      /\ req'[r].link = l /\ req'[r].op \in {"register", "request"}
  <2>1. CASE Register(r, m, l, withPassword)
    <3>1. /\ FreeFor(l) /\ UNCHANGED identity /\ req[r] = Idle
          /\ \E at \in Points : req' = [req EXCEPT ![r] =
               [Idle EXCEPT !.op = "register", !.who = m, !.link = l,
                  !.withPassword = withPassword, !.at = at]]
      BY <2>1 DEF Register, Begin, Points
    <3> QED
      BY <3>1 DEF TypeOK, Idle, identity
  <2>2. CASE RequestMagicLink(r, m, l)
    <3>1. /\ FreeFor(l) /\ UNCHANGED identity /\ req[r] = Idle
          /\ req' = [req EXCEPT ![r] =
               [Idle EXCEPT !.op = "request", !.who = m, !.link = l, !.at = "issue"]]
      BY <2>2 DEF RequestMagicLink, Begin
    <3> QED
      BY <3>1 DEF TypeOK, Idle, identity
  <2> QED
    BY <2>1, <2>2
<1>2. \A q \in Requests : req[q].link # l
  BY <1>1 DEF FreeFor
<1>0. \A q \in Requests : req'[q].at = "issue" => req'[q].op \in {"register", "request"}
  BY <1>1 DEF LinksKnown
<1> SUFFICES ASSUME NEW k \in Links PROVE LinkKnown(k)'
  BY <1>0 DEF LinksKnown
<1>3. CASE k = l
  <2>1. link'[k] = FreeLink /\ \A q \in Requests : req'[q].link = k => q = r
    BY <1>1, <1>2, <1>3 DEF FreeFor
  <2> QED
    BY <2>1 DEF Senders, LinkKnown
<1>4. CASE k # l
  <2>1. Senders(k)' = Senders(k) /\ Readers(k)' = Readers(k)
    BY <1>1, <1>4, AccountsAssumption DEF Senders, Readers, Idle
  <2>2. \A q \in Requests : req'[q].link = k => req[q].link = k
    BY <1>1, <1>4
  <2>3. \A s \in Readers(k)' : req'[s] = req[s]
    BY <1>1, <1>4 DEF Readers
  <2> QED
    BY <1>1, <2>1, <2>2, <2>3 DEF LinksKnown, LinkKnown
<1> QED
  BY <1>3, <1>4

(* Where a second request reads a link before the first has burned it, the   *)
(* link is marked.                                                           *)
LEMMA LinkRead ==
  ASSUME TypeOK, LinksKnown, NEW r \in Requests, NEW l \in Links, Verify(r, l)
  PROVE  LinksKnown'
<1> DEFINE again == link[l].raced \/ \E q \in Requests : req[q].at = "burn" /\ req[q].link = l
<1>1. again \in BOOLEAN /\ link' = [link EXCEPT ![l].raced = again]
  BY DEF Verify
<1>2. /\ link[l].state = "unused" /\ req[r] = Idle
      /\ \A q \in Requests \ {r} : req'[q] = req[q]
      /\ req'[r].link = l /\ req'[r].op = "verify" /\ req'[r].at = "burn"
  BY DEF Verify, Begin, TypeOK, Idle
<1>3. link[l] # FreeLink
  BY <1>2 DEF FreeLink
<1>4. ~again => Readers(l) = {}
  BY <1>2, <1>3 DEF LinksKnown, LinkKnown, Readers
<1>5. Senders(l) = {}
  BY <1>3 DEF LinksKnown, LinkKnown
<1> HIDE DEF again
<1>6. /\ link'[l].raced = again /\ link'[l].begun = link[l].begun
      /\ link'[l].state = "unused"
  BY <1>1, <1>2 DEF TypeOK, Link
<1>0. \A q \in Requests : req'[q].at = "issue" => req'[q].op \in {"register", "request"}
  BY <1>2 DEF LinksKnown
<1> SUFFICES ASSUME NEW k \in Links PROVE LinkKnown(k)'
  BY <1>0 DEF LinksKnown
<1>7. CASE k = l
  <2>1. Senders(k)' = {}
    BY <1>2, <1>5, <1>7 DEF Senders
  <2>2. Readers(k)' = Readers(k) \union {r} /\ r \notin Readers(k)
    BY <1>2, <1>7 DEF Readers, Idle
  <2>3. CASE ~again
    <3>1. ~link[l].raced
      BY <1>1, <2>3 DEF again
    <3>2. link[l].begun # 1 /\ link[l].begun <= 1
      BY <1>2, <1>3, <3>1 DEF LinksKnown, LinkKnown
    <3> QED
      BY <1>2, <1>4, <1>6, <1>7, <2>1, <2>2, <2>3, <3>2 DEF LinkKnown
  <2> QED
    BY <1>6, <1>7, <2>1, <2>3 DEF LinkKnown
<1>8. CASE k # l
  <2>1. Senders(k)' = Senders(k) /\ Readers(k)' = Readers(k)
    BY <1>2, <1>8, AccountsAssumption DEF Senders, Readers, Idle
  <2>2. \A q \in Requests : req'[q].link = k => req[q].link = k
    BY <1>2, <1>8
  <2>3. \A s \in Readers(k)' : req'[s] = req[s]
    BY <1>2, <1>8 DEF Readers
  <2>4. link'[k] = link[k]
    BY <1>1, <1>8 DEF TypeOK
  <2> QED
    BY <2>1, <2>2, <2>3, <2>4 DEF LinksKnown, LinkKnown
<1> QED
  BY <1>7, <1>8

(* Sending, burning and using a link keep what is known of it: who sends it  *)
(* has it alone, a burned link is used, and the one that holds a link which  *)
(* was not raced ends with the session it begins.                            *)
LEMMA LinkUsed ==
  ASSUME TypeOK, LinksKnown, UploadsKnown, NEW r \in Requests, Issue(r) \/ Burn(r) \/ Start(r)
  PROVE  LinksKnown'
<1> DEFINE l == req[r].link
<1>1. ASSUME NEW k \in Links, k # l PROVE link'[k] = link[k]
  BY <1>1 DEF Issue, Burn, Start, TypeOK
<1>2. \A q \in Requests \ {r} : req'[q] = req[q]
  BY DEF Issue, Burn, Start, Ended, Goes, TypeOK
<1>3. req'[r] = Idle \/ req'[r] = [req[r] EXCEPT !.at = "prove"]
  BY DEF Issue, Burn, Start, Ended, Goes, TypeOK
<1>4. req[r] \in Request
  <2>1. req[r].at # "idle"
    BY DEF Issue, Burn, Start
  <2> QED
    BY <2>1 DEF TypeOK, Idle
<1>5. req'[r] = Idle \/ (req'[r].op = req[r].op /\ req'[r].link = l /\ req'[r].at = "prove")
  BY <1>3, <1>4 DEF Request
<1>6. \A q \in Requests : req'[q].at = "issue" => req'[q].op \in {"register", "request"}
  BY <1>2, <1>5 DEF LinksKnown, Idle
<1> SUFFICES ASSUME NEW k \in Links PROVE LinkKnown(k)'
  BY <1>6 DEF LinksKnown
<1>7. \A q \in Requests : req'[q].link = k => req[q].link = k /\ req'[q].op = req[q].op
  BY <1>2, <1>5, AccountsAssumption DEF Idle
<1>8. Senders(k)' \subseteq Senders(k) /\ Readers(k)' \subseteq Readers(k)
  BY <1>7 DEF Senders, Readers
<1>9. req'[r] = Idle => r \notin Senders(k)' /\ r \notin Readers(k)'
  BY DEF Senders, Readers, Idle
<1>10. CASE k # l
  <2>1. link'[k] = link[k]
    BY <1>1, <1>10
  <2>2. \A q \in Readers(k)' : req'[q] = req[q]
    BY <1>2, <1>7, <1>10 DEF Readers
  <2> QED
    BY <1>7, <1>8, <2>1, <2>2 DEF LinksKnown, LinkKnown
<1>11. CASE k = l /\ Issue(r)
  <2>1. r \in Senders(k) /\ req'[r] = Idle
    BY <1>11 DEF Issue, Ended, Senders, LinksKnown, TypeOK
  <2>2. \A q \in Requests : req[q].link = k => q = r
    BY <2>1 DEF LinksKnown, LinkKnown
  <2>3. Senders(k)' = {} /\ Readers(k)' = {}
    BY <1>8, <1>9, <2>1, <2>2 DEF Senders, Readers
  <2>4. link'[k] = link[k] \/ link'[k] = [FreeLink EXCEPT !.of = req[r].who, !.state = "unused"]
    BY <1>11 DEF Issue, TypeOK
  <2>5. link'[k].begun = 0
    <3>1. link[k] = FreeLink
      BY <2>1 DEF LinksKnown, LinkKnown
    <3>2. [FreeLink EXCEPT !.of = req[r].who, !.state = "unused"].begun = 0
      BY DEF FreeLink
    <3>3. FreeLink.begun = 0
      BY DEF FreeLink
    <3> QED
      BY <2>4, <3>1, <3>2, <3>3
  <2> QED
    BY <2>3, <2>5 DEF LinkKnown
<1>12. CASE k = l /\ Burn(r)
  <2>1. CASE link[k].state = "none"
    <3>1. link'[k] = link[k] /\ req'[r] = Idle
      BY <1>12, <2>1 DEF Burn, Ended, TypeOK
    <3>2. \A q \in Readers(k)' : req'[q] = req[q]
      BY <1>2, <1>9, <3>1 DEF Readers
    <3> QED
      BY <1>7, <1>8, <3>1, <3>2 DEF LinksKnown, LinkKnown
  <2>2. CASE link[k].state # "none"
    <3>1. link' = [link EXCEPT ![k].state = "used"]
      BY <1>12, <2>2 DEF Burn, Burned
    <3>2. /\ link'[k].state = "used" /\ link'[k].begun = link[k].begun
          /\ link'[k].raced = link[k].raced
      BY <3>1 DEF TypeOK, Link
    <3>3. link[k] # FreeLink
      BY <2>2 DEF FreeLink
    <3>4. Senders(k)' = {}
      BY <1>8, <3>3 DEF LinksKnown, LinkKnown
    <3> QED
      BY <1>8, <3>2, <3>3, <3>4 DEF LinksKnown, LinkKnown
  <2> QED
    BY <2>1, <2>2
<1>13. CASE k = l /\ Start(r)
  <2>1. req'[r] = Idle /\ req[r].at = "start"
    BY <1>13 DEF Start, Ended, TypeOK
  <2>2. \A q \in Readers(k)' : req'[q] = req[q]
    BY <1>2, <1>9, <2>1 DEF Readers
  <2>3. CASE link'[k] = link[k]
    BY <1>7, <1>8, <2>2, <2>3 DEF LinksKnown, LinkKnown
  <2>4. CASE link'[k] # link[k]
    <3>1. /\ req[r].op = "verify" /\ link[k].of # Nobody
          /\ link' = [link EXCEPT ![k].begun = IF @ = 2 THEN 2 ELSE @ + 1]
      BY <1>13, <2>4 DEF Start
    <3>2. /\ link'[k].state = link[k].state /\ link'[k].raced = link[k].raced
          /\ link'[k].begun = IF link[k].begun = 2 THEN 2 ELSE link[k].begun + 1
      BY <3>1 DEF TypeOK, Link
    <3>3. link[k] # FreeLink
      BY <3>1 DEF FreeLink
    <3>4. Senders(k)' = {}
      BY <1>8, <3>3 DEF LinksKnown, LinkKnown
    <3>5. r \in Readers(k) /\ r \notin Readers(k)'
      BY <1>9, <1>13, <2>1, <3>1 DEF Readers
    <3>6. ASSUME ~link[k].raced
          PROVE  link[k].begun = 0 /\ Readers(k)' = {} /\ link[k].state # "unused"
      <4>1. link[k].begun \in 0..2
        BY DEF TypeOK, Link
      <4> QED
        BY <1>8, <2>1, <3>3, <3>5, <3>6, <4>1 DEF LinksKnown, LinkKnown
    <3> QED
      BY <3>2, <3>4, <3>6 DEF LinkKnown
  <2> QED
    BY <2>3, <2>4
<1> QED
  BY <1>10, <1>11, <1>12, <1>13

(* Expiry and the rows that are deleted keep what is known of links.         *)
LEMMA LinksPurged ==
  ASSUME TypeOK, LinksKnown, UNCHANGED req,
         \A k \in Links :
           \/ link'[k] \in {link[k], FreeLink}
           \/ link[k] # FreeLink /\ link'[k] = [link[k] EXCEPT !.state = "expired"]
  PROVE  LinksKnown'
<1> SUFFICES ASSUME NEW k \in Links PROVE LinkKnown(k)'
  BY DEF LinksKnown
<1>1. Senders(k)' = Senders(k) /\ Readers(k)' = Readers(k)
  BY DEF Senders, Readers
<1>2. CASE link'[k] = link[k]
  BY <1>1, <1>2 DEF LinksKnown, LinkKnown
<1>3. CASE link'[k] = FreeLink
  BY <1>1, <1>3 DEF LinksKnown, LinkKnown
<1>4. CASE link[k] # FreeLink /\ link'[k] = [link[k] EXCEPT !.state = "expired"]
  <2>1. /\ link'[k].state = "expired" /\ link'[k].begun = link[k].begun
        /\ link'[k].raced = link[k].raced
    BY <1>4 DEF TypeOK, Link
  <2> QED
    BY <1>1, <1>4, <2>1 DEF LinksKnown, LinkKnown
<1> QED
  BY <1>2, <1>3, <1>4

LEMMA StepLinks ==
  ASSUME IInv, [Next]_vars
  PROVE  LinksKnown'
<1> USE DEF IInv
<1>1. ASSUME NEW r \in Requests, Arrive(r) PROVE LinksKnown'
  <2>1. CASE \E m \in Members, l \in Links, withPassword \in BOOLEAN :
               Register(r, m, l, withPassword) \/ RequestMagicLink(r, m, l)
    BY <2>1, LinkClaimed
  <2>2. CASE \E l \in Links : Verify(r, l)
    BY <2>2, LinkRead
  <2>3. CASE \E m \in Members : Login(r, m) \/ Suspend(r, m)
    <3>1. UNCHANGED link
      BY <2>3 DEF Login, Suspend, identity
    <3> QED
      BY <2>3, <3>1, OthersCalm, LinksCalm
  <2>4. ASSUME NEW s \in Sessions, NEW op \in Asking, NEW f \in Files \union {NoFile},
               Resolve(r, s, op, f)
        PROVE  LinksKnown'
    <3>1. /\ UNCHANGED link /\ req'[r].link = NoLink /\ req'[r].at = "act"
          /\ \A q \in Requests \ {r} : req'[q] = req[q]
      BY <2>4, OthersCalm DEF Resolve, Begin, identity, TypeOK, Idle
    <3>2. ASSUME NEW k \in Links PROVE LinkKnown(k)'
      <4>1. \A q \in Requests : req'[q].link = k => q # r /\ req'[q] = req[q]
        BY <3>1, AccountsAssumption
      <4>2. Senders(k)' \subseteq Senders(k) /\ Readers(k)' \subseteq Readers(k)
        BY <4>1 DEF Senders, Readers
      <4>3. \A q \in Readers(k)' : req'[q] = req[q]
        BY <4>1 DEF Readers
      <4> QED
        BY <3>1, <4>1, <4>2, <4>3 DEF LinksKnown, LinkKnown
    <3> QED
      BY <3>1, <3>2 DEF LinksKnown
  <2> QED
    BY <1>1, <2>1, <2>2, <2>3, <2>4 DEF Arrive
<1>2. ASSUME NEW r \in Requests, Continue(r) PROVE LinksKnown'
  <2>1. CASE Issue(r) \/ Burn(r) \/ Start(r)
    BY <2>1, LinkUsed
  <2>2. CASE PutObject(r) \/ CreateAsset(r)
    <3>1. UNCHANGED link
      BY <2>2 DEF PutObject, CreateAsset, identity
    <3>2. /\ req[r] # Idle /\ \A q \in Requests \ {r} : req'[q] = req[q]
          /\ req'[r] = Idle \/ req'[r] = [req[r] EXCEPT !.at = "asset"]
          /\ req[r].op = "upload"
      <4>1. /\ req[r].op = "upload"
            /\ req' = Ended(r) \/ req' = Goes(r, "asset")
        BY <2>2 DEF PutObject, CreateAsset, Acts, UploadsKnown
      <4>2. req[r] # Idle
        BY <4>1 DEF Idle
      <4> QED
        BY <4>1, <4>2, RequestsAfter DEF Moved
    <3>3. \/ req'[r] = Idle
          \/ req'[r].op = "upload" /\ req'[r].link = req[r].link /\ req'[r].at = "asset"
      BY <3>2 DEF TypeOK, Request
    <3>4. ASSUME NEW k \in Links PROVE LinkKnown(k)'
      <4>1. \A q \in Requests : req'[q].link = k => req[q].link = k
        BY <3>2, <3>3, AccountsAssumption DEF Idle
      <4>2. r \notin Senders(k)' /\ r \notin Readers(k)'
        BY <3>3 DEF Senders, Readers, Idle
      <4>3. Senders(k)' \subseteq Senders(k) /\ Readers(k)' \subseteq Readers(k)
        BY <3>2, <4>2 DEF Senders, Readers
      <4>4. \A q \in Readers(k)' : req'[q] = req[q]
        BY <3>2, <4>2 DEF Readers
      <4> QED
        BY <3>1, <4>1, <4>3, <4>4 DEF LinksKnown, LinkKnown
    <3>5. \A q \in Requests : req'[q].at = "issue" => req'[q].op \in {"register", "request"}
      BY <3>2, <3>3 DEF LinksKnown, Idle
    <3> QED
      BY <3>4, <3>5 DEF LinksKnown
  <2>3. CASE ~Issue(r) /\ ~Burn(r) /\ ~Start(r) /\ ~PutObject(r) /\ ~CreateAsset(r)
    <3>1. UNCHANGED link
      BY <1>2, <2>3 DEF Continue, CreateUser, Record, Prove, SetPassword, Revoke,
         SetPresenceHidden, RequestDeletion, Speak, SignOut, identity
    <3> QED
      BY <1>2, <2>3, <3>1, ContinueCalm, LinksCalm
  <2> QED
    BY <2>1, <2>2, <2>3
<1>3. ASSUME NEW r \in Requests, Crash(r) PROVE LinksKnown'
  BY <1>3, OthersCalm, LinksCalm DEF Crash, identity
<1>4. ASSUME NEW w \in Workers, Purge(w) \/ CrashWorker(w) \/ \E m \in Members : BeginPurge(w, m)
      PROVE  LinksKnown'
  <2>1. UNCHANGED req /\ \A k \in Links : link'[k] \in {link[k], FreeLink}
    BY <1>4 DEF Purge, PurgeVoices, RemoveObjects, DeleteRows, DeleteUser, CrashWorker,
       BeginPurge, identity
  <2> QED
    BY <2>1, LinksPurged
<1>5. ASSUME NEW m \in Members, MonthPasses(m) PROVE LinksKnown'
  BY <1>5, LinksPurged DEF MonthPasses
<1>6. ASSUME NEW l \in Links, ExpireLink(l) PROVE LinksKnown'
  <2>1. link[l] # FreeLink
    BY <1>6 DEF ExpireLink, FreeLink
  <2> QED
    BY <1>6, <2>1, LinksPurged DEF ExpireLink, TypeOK
<1>7. CASE PurgeExpiredTokens
  BY <1>7, LinksPurged DEF PurgeExpiredTokens
<1>8. CASE PurgeSessions \/ (\E s \in Sessions : ExpireSession(s)) \/ UNCHANGED vars
  BY <1>8, LinksPurged DEF PurgeSessions, ExpireSession, vars
<1> QED
  BY <1>1, <1>2, <1>3, <1>4, <1>5, <1>6, <1>7, <1>8 DEF Next

-----------------------------------------------------------------------------
(* Rows.                                                                     *)

(* The statements that write a member's row.                                 *)
LEMMA UserWritten ==
  ASSUME [Next]_vars
  PROVE  \/ UNCHANGED user
         \/ \E r \in Requests : \/ CreateUser(r) \/ Prove(r) \/ SetPresenceHidden(r)
                                \/ RequestDeletion(r) \/ Record(r) \/ SetPassword(r)
         \/ \E m \in Members : MonthPasses(m) \/ \E r \in Requests : Suspend(r, m)
         \/ \E w \in Workers : DeleteUser(w)
<1>1. ASSUME NEW r \in Requests, Arrive(r)
      PROVE  UNCHANGED user \/ \E m \in Members : Suspend(r, m)
  BY <1>1 DEF Arrive, Register, RequestMagicLink, Login, Verify, Resolve, identity
<1>2. ASSUME NEW r \in Requests, Continue(r) \/ Crash(r)
      PROVE  \/ UNCHANGED user
             \/ CreateUser(r) \/ Prove(r) \/ SetPresenceHidden(r) \/ RequestDeletion(r)
             \/ Record(r) \/ SetPassword(r)
  BY <1>2 DEF Continue, Issue, Burn, Start, Revoke, Speak, PutObject, CreateAsset, SignOut,
     Crash, identity
<1>3. ASSUME NEW w \in Workers, Purge(w) \/ CrashWorker(w) \/ \E m \in Members : BeginPurge(w, m)
      PROVE  UNCHANGED user \/ DeleteUser(w)
  BY <1>3 DEF Purge, PurgeVoices, RemoveObjects, DeleteRows, CrashWorker, BeginPurge, identity
<1>4. (\E l \in Links : ExpireLink(l)) \/ (\E s \in Sessions : ExpireSession(s))
      \/ PurgeExpiredTokens \/ PurgeSessions \/ UNCHANGED vars => UNCHANGED user
  BY DEF ExpireLink, ExpireSession, PurgeExpiredTokens, PurgeSessions, vars
<1> QED
  BY <1>1, <1>2, <1>3, <1>4 DEF Next

(* None of them but CreateUser makes a row for who is not there.              *)
LEMMA UsersRemain ==
  ASSUME IInv, [Next]_vars
  PROVE  \A m \in Members : ~Exists(m)' => user'[m] = NoUser
<1> USE DEF IInv, Exists
<1>0. \A m \in Members : user[m] \in User
  BY DEF TypeOK
<1>1. CASE UNCHANGED user
  BY <1>1 DEF Rows
<1>2. ASSUME NEW r \in Requests, CreateUser(r) \/ Prove(r) \/ SetPresenceHidden(r) \/ RequestDeletion(r)
      PROVE  \A m \in Members : ~Exists(m)' => user'[m] = NoUser
  <2> DEFINE m == req[r].who
  <2>1. \A x \in Members \ {m} : user'[x] = user[x]
    BY <1>2 DEF CreateUser, Prove, SetPresenceHidden, RequestDeletion, TypeOK
  <2>2. ASSUME m \in Members PROVE user'[m].exists \/ user'[m] = user[m]
    <3>1. CASE CreateUser(r)
      <4>1. user' = user \/ user' = [user EXCEPT ![m] = [NoUser EXCEPT !.exists = TRUE,
                                                       !.password = req[r].withPassword]]
        BY <3>1 DEF CreateUser
      <4> QED
        BY <2>2, <4>1 DEF TypeOK, NoUser
    <3>2. CASE Prove(r)
      <4>1. user' = user \/ (user' = [user EXCEPT ![m].verified = TRUE] /\ user[m].exists)
        BY <3>2 DEF Prove, Proved
      <4>2. \A u \in User : [u EXCEPT !.verified = TRUE].exists = u.exists
        BY DEF User
      <4>3. user'[m] = user[m] \/ (user'[m] = [user[m] EXCEPT !.verified = TRUE] /\ user[m].exists)
        BY <2>2, <4>1 DEF TypeOK
      <4> QED
        BY <1>0, <2>2, <4>2, <4>3
    <3>3. CASE SetPresenceHidden(r)
      BY <1>0, <2>2, <3>3 DEF SetPresenceHidden, TypeOK, User
    <3>4. CASE RequestDeletion(r)
      <4>1. \/ user' = user
            \/ /\ user[m].exists
               /\ user' = [user EXCEPT ![m].deletion = "asked", ![m].status = "DELETION_PENDING"]
        BY <3>4 DEF RequestDeletion
      <4>2. \A u \in User : [u EXCEPT !.deletion = "asked", !.status = "DELETION_PENDING"].exists = u.exists
        BY DEF User
      <4>3. CASE user' = [user EXCEPT ![m].deletion = "asked", ![m].status = "DELETION_PENDING"]
        <5>1. user'[m] = [user[m] EXCEPT !.deletion = "asked", !.status = "DELETION_PENDING"]
          BY <2>2, <4>3 DEF TypeOK
        <5> QED
          BY <1>0, <2>2, <4>1, <4>2, <5>1
      <4> QED
        BY <4>1, <4>3
    <3> QED
      BY <1>2, <3>1, <3>2, <3>3, <3>4
  <2> QED
    BY <2>1, <2>2 DEF Rows
<1>3. ASSUME NEW r \in Requests, Record(r) \/ SetPassword(r)
      PROVE  \A m \in Members : ~Exists(m)' => user'[m] = NoUser
  <2> DEFINE m == req[r].who
             b == user[m].recorded \/ user[m].exists
             c == user[m].password \/ user[m].exists
  <2>1. /\ b \in BOOLEAN /\ c \in BOOLEAN
        /\ user' = [user EXCEPT ![m].recorded = b] \/ user' = [user EXCEPT ![m].password = c]
    BY <1>3 DEF Record, SetPassword
  <2>2. m \in Members /\ ~user[m].exists => b = FALSE /\ c = FALSE
    BY DEF Rows, NoUser
  <2> HIDE DEF b, c
  <2>3. \A x \in Members \ {m} : user'[x] = user[x]
    BY <2>1 DEF TypeOK
  <2>4. [NoUser EXCEPT !.recorded = FALSE] = NoUser /\ [NoUser EXCEPT !.password = FALSE] = NoUser
    <3>1. NoUser \in User
      BY DEF NoUser, User, Statuses
    <3> DEFINE unrecorded == [NoUser EXCEPT !.recorded = FALSE]
               unset      == [NoUser EXCEPT !.password = FALSE]
    <3>2. unrecorded \in User /\ unset \in User
      BY <3>1, RowsTyped
    <3>3. ASSUME NEW u \in User, u.exists = FALSE, u.status = "ACTIVE", u.verified = FALSE,
                 u.password = FALSE, u.recorded = FALSE, u.deletion = "none"
          PROVE  u = NoUser
      BY <3>3 DEF User, NoUser
    <3>4. /\ unrecorded.exists = FALSE /\ unrecorded.status = "ACTIVE" /\ unrecorded.verified = FALSE
          /\ unrecorded.password = FALSE /\ unrecorded.recorded = FALSE /\ unrecorded.deletion = "none"
      BY DEF NoUser
    <3>5. /\ unset.exists = FALSE /\ unset.status = "ACTIVE" /\ unset.verified = FALSE
          /\ unset.password = FALSE /\ unset.recorded = FALSE /\ unset.deletion = "none"
      BY DEF NoUser
    <3> HIDE DEF unrecorded, unset
    <3>6. unrecorded = NoUser /\ unset = NoUser
      BY <3>2, <3>3, <3>4, <3>5
    <3> QED
      BY <3>6 DEF unrecorded, unset
  <2>5. ASSUME m \in Members, ~user'[m].exists PROVE user'[m] = NoUser
    <3>1. user'[m] = [user[m] EXCEPT !.recorded = b] \/ user'[m] = [user[m] EXCEPT !.password = c]
      BY <2>1, <2>5 DEF TypeOK
    <3>2. ~user[m].exists
      BY <1>0, <2>5, <3>1 DEF User
    <3>3. user[m] = NoUser
      BY <2>5, <3>2 DEF Rows
    <3> QED
      BY <2>2, <2>4, <2>5, <3>1, <3>2, <3>3
  <2> QED
    BY <2>3, <2>5 DEF Rows
<1>4. ASSUME NEW m \in Members, MonthPasses(m) \/ \E r \in Requests : Suspend(r, m)
      PROVE  \A x \in Members : ~Exists(x)' => user'[x] = NoUser
  <2>1. \A x \in Members \ {m} : user'[x] = user[x]
    BY <1>4 DEF MonthPasses, Suspend, TypeOK
  <2>2. user[m].exists
    <3>1. user[m].deletion = "asked" \/ user[m].exists
      BY <1>4 DEF MonthPasses, Suspend
    <3>2. NoUser.deletion = "none"
      BY DEF NoUser
    <3> QED
      BY <3>1, <3>2 DEF Rows
  <2>3. user'[m].exists
    <3>1. user' = [user EXCEPT ![m].deletion = "due"] \/ user' = [user EXCEPT ![m].status = "SUSPENDED"]
      BY <1>4 DEF MonthPasses, Suspend
    <3>2. \A u \in User : /\ [u EXCEPT !.deletion = "due"].exists = u.exists
                         /\ [u EXCEPT !.status = "SUSPENDED"].exists = u.exists
      BY DEF User
    <3>3. \/ user'[m] = [user[m] EXCEPT !.deletion = "due"]
          \/ user'[m] = [user[m] EXCEPT !.status = "SUSPENDED"]
      BY <3>1 DEF TypeOK
    <3> QED
      BY <1>0, <2>2, <3>2, <3>3
  <2> QED
    BY <2>1, <2>3 DEF Rows
<1>5. ASSUME NEW w \in Workers, DeleteUser(w)
      PROVE  \A m \in Members : ~Exists(m)' => user'[m] = NoUser
  BY <1>5 DEF DeleteUser, Rows, TypeOK, identity
<1> QED
  BY <1>1, <1>2, <1>3, <1>4, <1>5, UserWritten

(* A session is begun for a member.                                          *)
LEMMA SessionsRemain ==
  ASSUME IInv, [Next]_vars
  PROVE  \A s \in Sessions : session'[s].live => session'[s].of \in Members
<1> USE DEF IInv
<1>0. \A s \in Sessions : session[s] \in Session /\ [session[s] EXCEPT !.live = FALSE].live = FALSE
  BY DEF TypeOK, Session
<1>1. CASE \A s \in Sessions : session'[s] = session[s] \/ ~session'[s].live
  BY <1>1 DEF Rows
<1>2. ASSUME NEW r \in Requests, Start(r) PROVE \A s \in Sessions : session'[s].live => session'[s].of \in Members
  <2>1. req[r].who \in Members \union {Nobody}
    BY <1>2 DEF Start, TypeOK, Request, Idle
  <2>2. UNCHANGED session \/ \E s \in Sessions : session' = [session EXCEPT ![s] = [of |-> req[r].who, live |-> TRUE]]
    BY <1>2 DEF Start
  <2>3. req[r].who \in Members
    BY <1>2 DEF Start, TypeOK, Request, Idle
  <2> QED
    BY <2>2, <2>3 DEF Rows, TypeOK
<1>3. ASSUME NEW r \in Requests, SignOut(r) \/ RequestDeletion(r)
      PROVE  \A s \in Sessions : session'[s] = session[s] \/ ~session'[s].live
  <2>1. UNCHANGED session \/ session' = SignedOut(req[r].who)
    BY <1>3 DEF SignOut, RequestDeletion
  <2> QED
    BY <1>0, <2>1 DEF SignedOut, TypeOK
<1>4. ASSUME NEW r \in Requests, Revoke(r)
      PROVE  \A s \in Sessions : session'[s] = session[s] \/ ~session'[s].live
  BY <1>0, <1>4 DEF Revoke, TypeOK
<1>5. ASSUME NEW w \in Workers, DeleteUser(w)
      PROVE  \A s \in Sessions : session'[s] = session[s] \/ ~session'[s].live
  BY <1>5 DEF DeleteUser, NoRow, identity
<1>6. CASE PurgeSessions \/ \E s \in Sessions : ExpireSession(s)
  <2>1. ASSUME NEW s \in Sessions, ExpireSession(s) PROVE \A x \in Sessions : session'[x] = session[x] \/ ~session'[x].live
    BY <1>0, <2>1 DEF ExpireSession, TypeOK
  <2>2. ASSUME PurgeSessions PROVE \A x \in Sessions : session'[x] = session[x] \/ ~session'[x].live
    BY <2>2 DEF PurgeSessions, NoRow
  <2> QED
    BY <1>1, <1>6, <2>1, <2>2
<1>7. ASSUME NEW r \in Requests, Arrive(r) PROVE UNCHANGED session
  BY <1>7 DEF Arrive, Register, RequestMagicLink, Login, Verify, Resolve, Suspend, identity
<1>8. ASSUME NEW r \in Requests, Continue(r) \/ Crash(r)
      PROVE  UNCHANGED session \/ Start(r) \/ SignOut(r) \/ RequestDeletion(r) \/ Revoke(r)
  BY <1>8 DEF Continue, CreateUser, Record, Issue, Burn, Prove, SetPassword, SetPresenceHidden,
     Speak, PutObject, CreateAsset, Crash, identity
<1>9. ASSUME NEW w \in Workers, Purge(w) \/ CrashWorker(w) \/ \E m \in Members : BeginPurge(w, m)
      PROVE  UNCHANGED session \/ DeleteUser(w)
  BY <1>9 DEF Purge, PurgeVoices, RemoveObjects, DeleteRows, CrashWorker, BeginPurge, identity
<1>10. (\E l \in Links : ExpireLink(l)) \/ (\E m \in Members : MonthPasses(m))
       \/ PurgeExpiredTokens \/ UNCHANGED vars => UNCHANGED session
  BY DEF ExpireLink, MonthPasses, PurgeExpiredTokens, vars
<1> QED
  BY <1>1, <1>2, <1>3, <1>4, <1>5, <1>6, <1>7, <1>8, <1>9, <1>10 DEF Next

(* A link is a member's from the moment it is issued until its row is gone.  *)
LEMMA LinksRemain ==
  ASSUME IInv, [Next]_vars
  PROVE  \A l \in Links : link'[l] # FreeLink => link'[l].of \in Members /\ link'[l].state # "none"
<1> USE DEF IInv
<1> DEFINE Same(l) == /\ link[l] # FreeLink /\ link'[l].of = link[l].of
                      /\ link'[l].state \in {link[l].state, "used", "expired"}
           Kept == \A l \in Links : link'[l] \in {link[l], FreeLink} \/ Same(l)
<1>0. \A l \in Links : link[l] \in Link
  BY DEF TypeOK
<1>1. Kept => \A l \in Links : link'[l] # FreeLink => link'[l].of \in Members /\ link'[l].state # "none"
  BY DEF Rows
<1>2. ASSUME NEW r \in Requests, Issue(r)
      PROVE  \A l \in Links : link'[l] # FreeLink => link'[l].of \in Members /\ link'[l].state # "none"
  <2>1. link' = link \/ (Exists(req[r].who) /\ link' = [link EXCEPT ![req[r].link] =
                            [FreeLink EXCEPT !.of = req[r].who, !.state = "unused"]])
    BY <1>2 DEF Issue
  <2>2. req[r].who \in Members
    BY <1>2 DEF Issue, TypeOK, Request, Idle
  <2>3. [FreeLink EXCEPT !.of = req[r].who, !.state = "unused"].of = req[r].who
    BY DEF FreeLink
  <2>4. [FreeLink EXCEPT !.of = req[r].who, !.state = "unused"].state = "unused"
    BY DEF FreeLink
  <2> QED
    BY <2>1, <2>2, <2>3, <2>4 DEF Rows, TypeOK
<1>3. ASSUME NEW r \in Requests, NEW l \in Links, Verify(r, l) PROVE Kept
  <2> DEFINE b == link[l].raced \/ \E q \in Requests : req[q].at = "burn" /\ req[q].link = l
  <2>1. link' = [link EXCEPT ![l].raced = b] /\ link[l] # FreeLink
    BY <1>3 DEF Verify, FreeLink
  <2> HIDE DEF b
  <2> QED
    BY <1>0, <2>1 DEF TypeOK, Link
<1>4. ASSUME NEW r \in Requests, Burn(r) PROVE Kept
  <2>1. UNCHANGED link \/ (link[req[r].link].state # "none" /\ link' = [link EXCEPT ![req[r].link].state = "used"])
    BY <1>4 DEF Burn, Burned
  <2>2. FreeLink.state = "none"
    BY DEF FreeLink
  <2> QED
    BY <1>0, <2>1, <2>2 DEF TypeOK, Link
<1>5. ASSUME NEW r \in Requests, Start(r) PROVE Kept
  <2>1. UNCHANGED link \/ (link[req[r].link].of # Nobody /\ link' = [link EXCEPT ![req[r].link].begun = IF @ = 2 THEN 2 ELSE @ + 1])
    BY <1>5 DEF Start
  <2>2. FreeLink.of = Nobody
    BY DEF FreeLink
  <2> QED
    BY <1>0, <2>1, <2>2 DEF TypeOK, Link
<1>6. ASSUME NEW w \in Workers, DeleteUser(w) PROVE Kept
  BY <1>6 DEF DeleteUser, identity
<1>7. CASE \E l \in Links : ExpireLink(l)
  <2>1. FreeLink.state = "none"
    BY DEF FreeLink
  <2>2. Kept
    BY <1>0, <1>7, <2>1 DEF ExpireLink, TypeOK, Link
  <2> QED
    BY <1>1, <2>2
<1>8. CASE PurgeExpiredTokens
  <2>1. Kept
    BY <1>8 DEF PurgeExpiredTokens
  <2> QED
    BY <1>1, <2>1
<1>9. ASSUME NEW r \in Requests, Arrive(r) PROVE UNCHANGED link \/ \E l \in Links : Verify(r, l)
  BY <1>9 DEF Arrive, Register, RequestMagicLink, Login, Resolve, Suspend, identity
<1>10. ASSUME NEW r \in Requests, Continue(r) \/ Crash(r)
       PROVE  UNCHANGED link \/ Issue(r) \/ Burn(r) \/ Start(r)
  BY <1>10 DEF Continue, CreateUser, Record, Prove, SetPassword, Revoke, SetPresenceHidden,
     RequestDeletion, Speak, PutObject, CreateAsset, SignOut, Crash, identity
<1>11. ASSUME NEW w \in Workers, Purge(w) \/ CrashWorker(w) \/ \E m \in Members : BeginPurge(w, m)
       PROVE  UNCHANGED link \/ DeleteUser(w)
  BY <1>11 DEF Purge, PurgeVoices, RemoveObjects, DeleteRows, CrashWorker, BeginPurge, identity
<1>12. (\E m \in Members : MonthPasses(m)) \/ (\E s \in Sessions : ExpireSession(s))
       \/ PurgeSessions \/ UNCHANGED vars => UNCHANGED link
  BY DEF MonthPasses, ExpireSession, PurgeSessions, vars
<1>13. UNCHANGED link => Kept
  OBVIOUS
<1> HIDE DEF Kept
<1> QED
  BY <1>1, <1>2, <1>3, <1>4, <1>5, <1>6, <1>7, <1>8, <1>9, <1>10, <1>11, <1>12, <1>13 DEF Next

LEMMA StepRows ==
  ASSUME IInv, [Next]_vars
  PROVE  Rows'
  BY UsersRemain, SessionsRemain, LinksRemain DEF Rows

-----------------------------------------------------------------------------
(* Uploads and what DeletionWorker finds.                                    *)

\* What a worker finds in a step has a row.
FindsRows ==
  \A w \in Workers : \A f \in worker'[w].found : f \in worker[w].found \/ row[f] # Nobody

\* What a calm step leaves of the uploads.
FilesCalm ==
  \A q \in Requests :
    \/ req'[q].file = NoFile /\ req'[q].op # "upload" /\ req'[q].at # "asset"
    \/ /\ req'[q].op = req[q].op /\ req'[q].file = req[q].file
       /\ \/ req'[q].at = req[q].at
          \/ req[q].op # "upload" /\ req'[q].at # "asset"

(* A step that takes no upload further, adds no object and no row, and where *)
(* a worker finds only files that have a row, leaves every upload its key.   *)
LEMMA UploadsCalm ==
  ASSUME UploadsKnown, FilesCalm, object' \subseteq object,
         \A f \in Files : row'[f] \in {row[f], Nobody},
         FindsRows
  PROVE  UploadsKnown'
<1> SUFFICES ASSUME NEW r \in Requests
             PROVE  /\ req'[r].op = "upload" => req'[r].file \in Files /\ req'[r].at \in {"act", "asset"}
                    /\ req'[r].at = "asset" => req'[r].op = "upload"
                    /\ req'[r].file \in Files =>
                         /\ req'[r].op = "upload" /\ row'[req'[r].file] = Nobody
                         /\ \A q \in Requests : req'[q].file = req'[r].file => q = r
                         /\ \A w \in Workers : req'[r].file \notin worker'[w].found
                         /\ req'[r].at = "act" => req'[r].file \notin object'
  BY DEF UploadsKnown
<1>1. CASE req'[r].file = NoFile /\ req'[r].op # "upload" /\ req'[r].at # "asset"
  BY <1>1, AccountsAssumption
<1>2. CASE /\ req'[r].op = req[r].op /\ req'[r].file = req[r].file
           /\ \/ req'[r].at = req[r].at
              \/ req[r].op # "upload" /\ req'[r].at # "asset"
  <2>1. /\ req'[r].op = "upload" => req'[r].file \in Files /\ req'[r].at \in {"act", "asset"}
        /\ req'[r].at = "asset" => req'[r].op = "upload"
    BY <1>2 DEF UploadsKnown
  <2>2. ASSUME req'[r].file \in Files
        PROVE  /\ req'[r].op = "upload" /\ row'[req'[r].file] = Nobody
               /\ \A w \in Workers : req'[r].file \notin worker'[w].found
               /\ req'[r].at = "act" => req'[r].file \notin object'
    BY <1>2, <2>2 DEF UploadsKnown, FindsRows
  <2>3. ASSUME req'[r].file \in Files, NEW q \in Requests, req'[q].file = req'[r].file
        PROVE  q = r
    <3>1. req[q].file = req'[q].file
      BY <2>3, AccountsAssumption DEF FilesCalm
    <3> QED
      BY <1>2, <2>3, <3>1 DEF UploadsKnown
  <2> QED
    BY <2>1, <2>2, <2>3
<1> QED
  BY <1>1, <1>2 DEF FilesCalm

(* An upload begins with a key nobody has; its object and then its row come  *)
(* to be under that key.                                                     *)
LEMMA UploadsAdvance ==
  ASSUME TypeOK, UploadsKnown, NEW r \in Requests,
         \/ \E s \in Sessions, f \in Files \union {NoFile} : Resolve(r, s, "upload", f)
         \/ PutObject(r) \/ CreateAsset(r)
  PROVE  UploadsKnown'
<1> DEFINE f == req'[r].file
<1>1. UNCHANGED worker /\ \A q \in Requests \ {r} : req'[q] = req[q]
  BY DEF Resolve, Begin, PutObject, CreateAsset, Ended, Goes, rest, TypeOK
<1>2. ASSUME NEW s \in Sessions, NEW g \in Files \union {NoFile}, Resolve(r, s, "upload", g)
      PROVE  UploadsKnown'
  <2>1. /\ req'[r].op = "upload" /\ req'[r].at = "act" /\ req'[r].file = g /\ g \in Files
        /\ FreeKey(g) /\ UNCHANGED <<row, object>>
    BY <1>2 DEF Resolve, Begin, rest, files, TypeOK, Idle
  <2> QED
    BY <1>1, <2>1 DEF UploadsKnown, FreeKey
<1>3. CASE PutObject(r)
  <2>0. req[r] \in Request
    BY <1>3 DEF PutObject, Acts, TypeOK, Idle
  <2>1. /\ req[r].op = "upload" /\ req[r].at = "act" /\ UNCHANGED row
        /\ object' = object \union {req[r].file} /\ req'[r] = [req[r] EXCEPT !.at = "asset"]
    BY <1>3 DEF PutObject, Acts, Goes, TypeOK
  <2>2. req'[r].op = "upload" /\ req'[r].at = "asset" /\ f = req[r].file
    BY <2>0, <2>1 DEF Request
  <2>3. \A q \in Requests \ {r} : req[q].file # f
    BY <2>1, <2>2 DEF UploadsKnown
  <2>4. f \in Files /\ row[f] = Nobody /\ \A w \in Workers : f \notin worker[w].found
    BY <2>1, <2>2 DEF UploadsKnown
  <2>5. ASSUME NEW q \in Requests \ {r}, req[q].file \in Files
        PROVE  /\ \A x \in Requests : req'[x].file = req'[q].file => x = q
               /\ req'[q].at = "act" => req'[q].file \notin object'
    <3>1. req'[q] = req[q] /\ req[q].file # f /\ req[q].file # req[r].file
      BY <1>1, <2>2, <2>3
    <3>2. \A x \in Requests : req[x].file = req[q].file => x = q
      BY <2>5 DEF UploadsKnown
    <3>3. \A x \in Requests : req'[x].file = req'[q].file => x = q
      BY <1>1, <3>1, <3>2
    <3>4. req[q].at = "act" => req[q].file \notin object
      BY <2>5 DEF UploadsKnown
    <3> QED
      BY <2>1, <3>1, <3>3, <3>4
  <2>6. \A q \in Requests : req'[q].file = f => q = r
    BY <1>1, <2>3
  <2>7. \A q \in Requests \ {r} :
          /\ req'[q].op = "upload" => req'[q].file \in Files /\ req'[q].at \in {"act", "asset"}
          /\ req'[q].at = "asset" => req'[q].op = "upload"
          /\ req'[q].file \in Files =>
               /\ req'[q].op = "upload" /\ row'[req'[q].file] = Nobody
               /\ \A w \in Workers : req'[q].file \notin worker'[w].found
    BY <1>1, <2>1 DEF UploadsKnown
  <2>8. ASSUME NEW q \in Requests, q # r, req'[q].file \in Files
        PROVE  /\ \A x \in Requests : req'[x].file = req'[q].file => x = q
               /\ req'[q].at = "act" => req'[q].file \notin object'
    BY <1>1, <2>5, <2>8
  <2>9. /\ req'[r].op = "upload" /\ req'[r].at = "asset" /\ f \in Files /\ row'[f] = Nobody
        /\ \A q \in Requests : req'[q].file = f => q = r
        /\ \A w \in Workers : f \notin worker'[w].found
    BY <1>1, <2>1, <2>2, <2>4, <2>6
  <2> SUFFICES ASSUME NEW q \in Requests
               PROVE  /\ req'[q].op = "upload" => req'[q].file \in Files /\ req'[q].at \in {"act", "asset"}
                      /\ req'[q].at = "asset" => req'[q].op = "upload"
                      /\ req'[q].file \in Files =>
                           /\ req'[q].op = "upload" /\ row'[req'[q].file] = Nobody
                           /\ \A x \in Requests : req'[x].file = req'[q].file => x = q
                           /\ \A w \in Workers : req'[q].file \notin worker'[w].found
                           /\ req'[q].at = "act" => req'[q].file \notin object'
    BY DEF UploadsKnown
  <2>10. CASE q = r
    BY <2>9, <2>10
  <2>11. CASE q # r
    BY <2>7, <2>8, <2>11
  <2> QED
    BY <2>10, <2>11
<1>4. CASE CreateAsset(r)
  <2>1. /\ req'[r] = Idle /\ UNCHANGED object
        /\ UNCHANGED row \/ row' = [row EXCEPT ![req[r].file] = req[r].who]
    BY <1>4 DEF CreateAsset, Ended, TypeOK
  <2>2. req[r].file \in Files
    BY <1>4 DEF CreateAsset, UploadsKnown
  <2>3. \A q \in Requests \ {r} : req[q].file # req[r].file
    BY <2>2 DEF UploadsKnown
  <2> QED
    BY <1>1, <2>1, <2>3, AccountsAssumption DEF UploadsKnown, Idle, TypeOK
<1> QED
  BY <1>2, <1>3, <1>4

(* What each other step does to files, rows and what the workers found.      *)
LEMMA FilesElsewhere ==
  ASSUME TypeOK, WorkersKnow, [Next]_vars
  PROVE  \/ /\ object' \subseteq object /\ \A f \in Files : row'[f] \in {row[f], Nobody}
            /\ FindsRows
         \/ \E r \in Requests : PutObject(r) \/ CreateAsset(r)
<1> DEFINE Elsewhere ==
             /\ object' \subseteq object /\ \A f \in Files : row'[f] \in {row[f], Nobody}
             /\ FindsRows
<1> USE DEF FindsRows
<1>1. UNCHANGED <<object, row, worker>> => Elsewhere
  OBVIOUS
<1>2. ASSUME NEW w \in Workers, Purge(w) \/ CrashWorker(w) \/ \E m \in Members : BeginPurge(w, m)
      PROVE  Elsewhere
  <2>1. CASE PurgeVoices(w)
    <3>1. UNCHANGED <<object, row>> /\ \A x \in Workers : worker'[x].found = worker[x].found
      BY <2>1 DEF PurgeVoices, files, TypeOK
    <3> QED
      BY <3>1
  <2>2. CASE RemoveObjects(w)
    <3> DEFINE found == UploadsOf(worker[w].who)
    <3>1. /\ worker' = [worker EXCEPT ![w].at = "rows", ![w].found = found]
          /\ object' \subseteq object /\ UNCHANGED row
      BY <2>2 DEF RemoveObjects, ToRemove
    <3>3. worker[w].who \in Members
      BY <2>2 DEF RemoveObjects, WorkersKnow
    <3>4. \A f \in found : row[f] # Nobody
      BY <3>3, AccountsAssumption DEF UploadsOf
    <3> HIDE DEF found
    <3>5. worker'[w].found = found /\ \A x \in Workers \ {w} : worker'[x] = worker[x]
      BY <3>1 DEF TypeOK
    <3> QED
      BY <3>1, <3>4, <3>5
  <2>3. CASE DeleteRows(w)
    <3>1. worker'[w].found = {} /\ \A x \in Workers \ {w} : worker'[x] = worker[x]
      BY <2>3 DEF DeleteRows, TypeOK
    <3> QED
      BY <2>3, <3>1 DEF DeleteRows
  <2>4. CASE DeleteUser(w)
    BY <2>4 DEF DeleteUser, Rests
  <2>5. CASE CrashWorker(w)
    BY <2>5 DEF CrashWorker, Rests, files, TypeOK
  <2>6. CASE \E m \in Members : BeginPurge(w, m)
    BY <2>6 DEF BeginPurge, files, TypeOK
  <2> QED
    BY <1>2, <2>1, <2>2, <2>3, <2>4, <2>5, <2>6 DEF Purge
<1>3. ASSUME NEW r \in Requests, Arrive(r) PROVE UNCHANGED <<object, row, worker>>
  BY <1>3 DEF Arrive, Register, RequestMagicLink, Login, Verify, Resolve, Suspend, rest, files
<1>4. ASSUME NEW r \in Requests, Continue(r) \/ Crash(r)
      PROVE  UNCHANGED <<object, row, worker>> \/ PutObject(r) \/ CreateAsset(r)
  BY <1>4 DEF Continue, CreateUser, Record, Issue, Burn, Prove, Start, SetPassword, Revoke,
     SetPresenceHidden, RequestDeletion, Speak, SignOut, Crash, rest, files
<1>5. (\E m \in Members : MonthPasses(m)) \/ (\E l \in Links : ExpireLink(l))
      \/ (\E s \in Sessions : ExpireSession(s)) \/ PurgeExpiredTokens \/ PurgeSessions
      \/ UNCHANGED vars => UNCHANGED <<object, row, worker>>
  BY DEF MonthPasses, ExpireLink, ExpireSession, PurgeExpiredTokens, PurgeSessions, vars, rest, files
<1> HIDE DEF Elsewhere
<1>6. Elsewhere \/ \E r \in Requests : PutObject(r) \/ CreateAsset(r)
  BY <1>1, <1>2, <1>3, <1>4, <1>5 DEF Next
<1> QED
  BY <1>6 DEF Elsewhere

LEMMA StepUploads ==
  ASSUME IInv, [Next]_vars
  PROVE  UploadsKnown'
<1> USE DEF IInv
<1>1. Calm => FilesCalm
  BY DEF Calm, FilesCalm
<1>2. CASE \E r \in Requests : PutObject(r) \/ CreateAsset(r)
  BY <1>2, UploadsAdvance
<1>3. CASE \E r \in Requests, s \in Sessions, f \in Files \union {NoFile} : Resolve(r, s, "upload", f)
  BY <1>3, UploadsAdvance
<1>4. CASE /\ ~\E r \in Requests : PutObject(r) \/ CreateAsset(r)
           /\ ~\E r \in Requests, s \in Sessions, f \in Files \union {NoFile} : Resolve(r, s, "upload", f)
  <2>1. \A q \in Requests : req[q].at = "asset" => req[q].op = "upload"
    BY DEF UploadsKnown
  <2>2. ASSUME NEW r \in Requests, NEW m \in Members, NEW l \in Links, NEW withPassword \in BOOLEAN,
               Register(r, m, l, withPassword)
        PROVE  FilesCalm
    <3>1. \A q \in Requests \ {r} : req'[q] = req[q]
      BY <2>2 DEF Register, Begin, TypeOK
    <3>2. PICK at \in {"issue", "create"} :
            req'[r] = [Idle EXCEPT !.op = "register", !.who = m, !.link = l,
                                   !.withPassword = withPassword, !.at = at]
      BY <2>2 DEF Register, Begin, TypeOK
    <3>3. req'[r].file = NoFile /\ req'[r].op = "register" /\ req'[r].at \in {"issue", "create"}
      BY <3>2 DEF Idle
    <3> QED
      BY <3>1, <3>3 DEF FilesCalm
  <2>3. ASSUME NEW r \in Requests, NEW m \in Members, NEW l \in Links, RequestMagicLink(r, m, l)
        PROVE  FilesCalm
    BY <2>3 DEF RequestMagicLink, Begin, TypeOK, FilesCalm, Idle
  <2>4. ASSUME NEW r \in Requests, NEW l \in Links, Verify(r, l)
        PROVE  FilesCalm
    BY <2>4 DEF Verify, Begin, TypeOK, FilesCalm, Idle
  <2>5. ASSUME NEW r \in Requests, Burn(r)
        PROVE  FilesCalm
    <3>1. req[r] \in Request /\ req[r].op # "upload"
      BY <2>5 DEF Burn, TypeOK, Idle, UploadsKnown
    <3>2. /\ \A q \in Requests \ {r} : req'[q] = req[q]
          /\ req'[r] = Idle \/ req'[r] = [req[r] EXCEPT !.at = "prove"]
      BY <2>5 DEF Burn, Ended, Goes, TypeOK
    <3> QED
      BY <3>1, <3>2 DEF FilesCalm, Idle, Request
  <2>6. ASSUME NEW r \in Requests, Arrive(r) PROVE FilesCalm
    BY <1>1, <1>4, <2>2, <2>3, <2>4, <2>6, OthersCalm DEF Arrive
  <2>7. ASSUME NEW r \in Requests, Continue(r) \/ Crash(r) PROVE FilesCalm
    BY <1>1, <1>4, <2>5, <2>7, ContinueCalm, OthersCalm
  <2>8. UNCHANGED req => FilesCalm
    BY <1>1, OthersCalm
  <2>9. FilesCalm
    BY <2>6, <2>7, <2>8, RequestsUntouched
  <2> QED
    BY <1>4, <2>9, UploadsCalm, FilesElsewhere
<1> QED
  BY <1>2, <1>3, <1>4

(* No step but Crash and CreateAsset ends an upload.                         *)
LEMMA UploadsCarried ==
  ASSUME IInv, [Next]_vars
  PROVE  Carries \/ \E r \in Requests : CreateAsset(r) \/ Crash(r)
<1> USE DEF IInv
<1>1. ASSUME NEW r \in Requests, req[r].op # "upload", \A q \in Requests \ {r} : req'[q] = req[q]
      PROVE  Carries
  BY <1>1 DEF Carries
<1>2. ASSUME NEW r \in Requests, NEW m \in Members, NEW l \in Links, NEW withPassword \in BOOLEAN,
             Register(r, m, l, withPassword) \/ RequestMagicLink(r, m, l)
      PROVE  Carries
  BY <1>1, <1>2 DEF Register, RequestMagicLink, Begin, Idle, TypeOK
<1>3. ASSUME NEW r \in Requests, NEW l \in Links, Verify(r, l)
      PROVE  Carries
  BY <1>1, <1>3 DEF Verify, Begin, Idle, TypeOK
<1>4. ASSUME NEW r \in Requests, Burn(r)
      PROVE  Carries
  BY <1>1, <1>4 DEF Burn, Ended, Goes, TypeOK, UploadsKnown
<1>5. ASSUME NEW r \in Requests, PutObject(r)
      PROVE  Carries
  <2>1. \A q \in Requests \ {r} : req'[q] = req[q]
    BY <1>5 DEF PutObject, Goes, TypeOK
  <2>2. req'[r] = [req[r] EXCEPT !.at = "asset"] /\ req[r] \in Request
    BY <1>5 DEF PutObject, Acts, Goes, TypeOK, Idle
  <2> QED
    BY <2>1, <2>2 DEF Carries, Request
<1>6. ASSUME NEW r \in Requests, Arrive(r) PROVE Carries
  BY <1>2, <1>3, <1>6, OthersCalm DEF Arrive
<1>7. ASSUME NEW r \in Requests, Continue(r) PROVE Carries \/ CreateAsset(r)
  BY <1>4, <1>5, <1>7, ContinueCalm
<1> QED
  BY <1>6, <1>7, RequestsUntouched DEF Carries

(* What is left in storage is never forgotten, and rows change only where    *)
(* they are created or deleted.                                              *)
LEMMA LeftStays ==
  ASSUME [Next]_vars
  PROVE  /\ left \subseteq left'
         /\ \/ UNCHANGED row
            \/ \E r \in Requests : CreateAsset(r)
            \/ \E w \in Workers : DeleteRows(w) \/ DeleteUser(w)
<1>1. ASSUME NEW r \in Requests, Arrive(r) PROVE UNCHANGED <<row, left>>
  BY <1>1 DEF Arrive, Register, RequestMagicLink, Login, Verify, Resolve, Suspend, rest, files
<1>2. ASSUME NEW r \in Requests, Continue(r) \/ Crash(r)
      PROVE  left \subseteq left' /\ (UNCHANGED row \/ CreateAsset(r))
  BY <1>2 DEF Continue, CreateUser, Record, Issue, Burn, Prove, Start, SetPassword, Revoke,
     SetPresenceHidden, RequestDeletion, Speak, PutObject, CreateAsset, SignOut, Crash, rest, files
<1>3. ASSUME NEW w \in Workers, Purge(w) \/ CrashWorker(w) \/ \E m \in Members : BeginPurge(w, m)
      PROVE  left \subseteq left' /\ (UNCHANGED row \/ DeleteRows(w) \/ DeleteUser(w))
  BY <1>3 DEF Purge, PurgeVoices, RemoveObjects, DeleteRows, DeleteUser, CrashWorker, BeginPurge, files
<1>4. (\E m \in Members : MonthPasses(m)) \/ (\E l \in Links : ExpireLink(l))
      \/ (\E s \in Sessions : ExpireSession(s)) \/ PurgeExpiredTokens \/ PurgeSessions
      \/ UNCHANGED vars => UNCHANGED <<row, left>>
  BY DEF MonthPasses, ExpireLink, ExpireSession, PurgeExpiredTokens, PurgeSessions, vars, rest, files
<1> QED
  BY <1>1, <1>2, <1>3, <1>4 DEF Next

(* A file leaves sight only where it is removed or noted as left.            *)
LEMMA StepFiles ==
  ASSUME IInv, [Next]_vars
  PROVE  FilesAreAccountedFor'
<1> USE DEF IInv
<1>1. ASSUME NEW r \in Requests, CreateAsset(r) PROVE FilesAreAccountedFor'
  <2>1. /\ UNCHANGED object /\ \A q \in Requests \ {r} : req'[q] = req[q]
        /\ row' = [row EXCEPT ![req[r].file] = req[r].who] \/ (UNCHANGED row /\ req[r].file \in left')
    BY <1>1 DEF CreateAsset, Ended, TypeOK
  <2>2. req[r].file \in Files /\ req[r].who \in Members
    BY <1>1 DEF CreateAsset, UploadsKnown, TypeOK, Request, Idle
  <2>3. left \subseteq left'
    BY LeftStays
  <2>4. ASSUME NEW f \in object' PROVE row'[f] # Nobody \/ f \in left' \/ \E q \in Requests : req'[q].file = f
    <3>1. CASE f = req[r].file
      BY <2>1, <2>2, <3>1, AccountsAssumption DEF TypeOK
    <3>2. CASE f # req[r].file
      BY <2>1, <2>3, <3>2 DEF FilesAreAccountedFor, TypeOK
    <3> QED
      BY <3>1, <3>2
  <2> QED
    BY <2>4 DEF FilesAreAccountedFor
<1>2. ASSUME NEW r \in Requests, Crash(r) PROVE FilesAreAccountedFor'
  <2>1. /\ UNCHANGED <<object, row>> /\ \A q \in Requests \ {r} : req'[q] = req[q]
        /\ req[r].at = "asset" => req[r].file \in left'
    BY <1>2 DEF Crash, Ended, TypeOK
  <2>2. \A f \in object : req[r].file = f => req[r].at = "asset"
    BY DEF UploadsKnown, TypeOK
  <2> QED
    BY <2>1, <2>2, LeftStays DEF FilesAreAccountedFor
<1>3. ASSUME NEW w \in Workers, DeleteRows(w) PROVE FilesAreAccountedFor'
  <2>1. /\ UNCHANGED <<object, req>>
        /\ \A f \in Files : row'[f] = row[f] \/ f \in left' \/ f \in worker[w].found
    BY <1>3 DEF DeleteRows
  <2>2. \A f \in worker[w].found : f \notin object \/ f \in left'
    BY LeftStays DEF WorkersKnow
  <2> QED
    BY <2>1, <2>2, LeftStays DEF FilesAreAccountedFor, TypeOK
<1>4. ASSUME NEW w \in Workers, DeleteUser(w) PROVE FilesAreAccountedFor'
  <2>1. /\ UNCHANGED <<object, req>>
        /\ \A f \in Files : row'[f] = row[f] \/ f \in left'
    BY <1>4 DEF DeleteUser, UploadsOf
  <2> QED
    BY <2>1, LeftStays DEF FilesAreAccountedFor, TypeOK
<1>5. CASE UNCHANGED row /\ Carries
  <2>1. \A f \in object, q \in Requests : req[q].file = f => req'[q].file = f
    BY <1>5 DEF Carries, UploadsKnown, TypeOK
  <2>2. ASSUME NEW r \in Requests, PutObject(r) PROVE FilesAreAccountedFor'
    BY <1>5, <2>1, <2>2, LeftStays DEF PutObject, Acts, Carries, FilesAreAccountedFor
  <2>3. CASE object' \subseteq object
    BY <1>5, <2>1, <2>3, LeftStays DEF FilesAreAccountedFor
  <2>4. (\E r \in Requests : PutObject(r) \/ CreateAsset(r)) \/ object' \subseteq object
    BY FilesElsewhere
  <2> QED
    BY <1>1, <2>2, <2>3, <2>4
<1> QED
  BY <1>1, <1>2, <1>3, <1>4, <1>5, UploadsCarried, LeftStays

(* No object is put under a key that a worker has found.                     *)
LEMMA StepWorkers ==
  ASSUME IInv, [Next]_vars
  PROVE  WorkersKnow'
<1> USE DEF IInv
<1>1. ASSUME NEW w \in Workers, RemoveObjects(w) PROVE WorkersKnow'
  <2> DEFINE found == UploadsOf(worker[w].who)
  <2>1. /\ worker' = [worker EXCEPT ![w].at = "rows", ![w].found = found]
        /\ object' \subseteq object /\ left \subseteq left'
        /\ \A f \in found : f \notin object' \/ f \in left'
    BY <1>1 DEF RemoveObjects, ToRemove
  <2>2. worker[w].who \in Members
    BY <1>1 DEF RemoveObjects, WorkersKnow
  <2> HIDE DEF found
  <2>3. /\ worker'[w].found = found /\ worker'[w].who = worker[w].who
        /\ \A x \in Workers \ {w} : worker'[x] = worker[x]
    BY <2>1 DEF TypeOK
  <2> QED
    BY <2>1, <2>2, <2>3 DEF WorkersKnow
<1>2. ASSUME NEW r \in Requests, PutObject(r) PROVE WorkersKnow'
  <2>1. UNCHANGED worker /\ object' = object \union {req[r].file}
    BY <1>2 DEF PutObject
  <2>2. req[r].file \in Files
    BY <1>2 DEF PutObject, Acts, UploadsKnown
  <2>3. \A w \in Workers : req[r].file \notin worker[w].found
    BY <2>2 DEF UploadsKnown
  <2> QED
    BY <2>1, <2>3, LeftStays DEF WorkersKnow
<1>3. CASE /\ object' \subseteq object
           /\ \A w \in Workers : /\ worker'[w].found \subseteq worker[w].found
                                 /\ worker'[w].at # "idle" => worker'[w].who \in Members
  BY <1>3, LeftStays DEF WorkersKnow
<1>4. ASSUME NEW w \in Workers, PurgeVoices(w) \/ DeleteRows(w)
      PROVE  WorkersKnow'
  <2>1. /\ UNCHANGED object /\ worker'[w].found \subseteq worker[w].found
        /\ worker'[w].who = worker[w].who /\ worker[w].at # "idle"
        /\ \A x \in Workers \ {w} : worker'[x] = worker[x]
    BY <1>4 DEF PurgeVoices, DeleteRows, files, TypeOK
  <2> QED
    BY <1>3, <2>1 DEF WorkersKnow
<1>5. ASSUME NEW w \in Workers, DeleteUser(w) \/ CrashWorker(w) \/ \E m \in Members : BeginPurge(w, m)
      PROVE  WorkersKnow'
  <2>1. /\ UNCHANGED object
        /\ \A x \in Workers :
             \/ worker'[x] = worker[x] \/ worker'[x] = Rests
             \/ \E m \in Members : worker'[x] = [at |-> "voices", who |-> m, found |-> {}]
    BY <1>5 DEF DeleteUser, CrashWorker, BeginPurge, FirstStep, files, TypeOK
  <2>2. \A x \in Workers :
          /\ worker'[x].found \subseteq worker[x].found
          /\ worker'[x].at # "idle" => worker'[x].who \in Members
    <3> SUFFICES ASSUME NEW x \in Workers
                 PROVE  /\ worker'[x].found \subseteq worker[x].found
                        /\ worker'[x].at # "idle" => worker'[x].who \in Members
      OBVIOUS
    <3>1. CASE worker'[x] = worker[x]
      BY <3>1 DEF WorkersKnow
    <3>2. CASE worker'[x] = Rests
      BY <3>2 DEF Rests
    <3>3. ASSUME NEW m \in Members, worker'[x] = [at |-> "voices", who |-> m, found |-> {}]
          PROVE  worker'[x].found = {} /\ worker'[x].who \in Members
      BY <3>3
    <3> QED
      BY <2>1, <3>1, <3>2, <3>3
  <2> QED
    BY <1>3, <2>1, <2>2
<1>6. UNCHANGED <<object, worker>> => WorkersKnow'
  BY <1>3 DEF WorkersKnow
<1>7. ASSUME NEW r \in Requests, Arrive(r) PROVE UNCHANGED <<object, worker>>
  BY <1>7 DEF Arrive, Register, RequestMagicLink, Login, Verify, Resolve, Suspend, rest, files
<1>8. ASSUME NEW r \in Requests, Continue(r) \/ Crash(r)
      PROVE  UNCHANGED <<object, worker>> \/ PutObject(r)
  BY <1>8 DEF Continue, CreateUser, Record, Issue, Burn, Prove, Start, SetPassword, Revoke,
     SetPresenceHidden, RequestDeletion, Speak, CreateAsset, SignOut, Crash, rest, files
<1>9. (\E m \in Members : MonthPasses(m)) \/ (\E l \in Links : ExpireLink(l))
      \/ (\E s \in Sessions : ExpireSession(s)) \/ PurgeExpiredTokens \/ PurgeSessions
      \/ UNCHANGED vars => UNCHANGED <<object, worker>>
  BY DEF MonthPasses, ExpireLink, ExpireSession, PurgeExpiredTokens, PurgeSessions, vars, rest, files
<1> QED
  BY <1>1, <1>2, <1>4, <1>5, <1>6, <1>7, <1>8, <1>9 DEF Next, Purge

-----------------------------------------------------------------------------
(* The bar.                                                                  *)

(* Only a suspension and a member's own request for deletion bar a member.   *)
LEMMA StatusKept ==
  ASSUME IInv, [Next]_vars, NEW m \in Members
  PROVE  \/ user'[m].status = user[m].status
         \/ ~Barred(user'[m])
         \/ \E r \in Requests : Suspend(r, m)
         \/ \E r \in Requests : RequestDeletion(r) /\ Exists(m) /\ req[r].who = m
<1> USE DEF IInv
<1>0. user[m] \in User
  BY DEF TypeOK
<1>1. ASSUME NEW r \in Requests, CreateUser(r) PROVE user'[m].status = user[m].status \/ ~Barred(user'[m])
  <2>1. user' = user \/ user' = [user EXCEPT ![req[r].who] = [NoUser EXCEPT !.exists = TRUE,
                                                      !.password = req[r].withPassword]]
    BY <1>1 DEF CreateUser
  <2> QED
    BY <2>1 DEF TypeOK, NoUser, Barred
<1>2. ASSUME NEW r \in Requests, Record(r) \/ SetPassword(r) PROVE user'[m].status = user[m].status
  <2> DEFINE b == user[req[r].who].recorded \/ user[req[r].who].exists
             c == user[req[r].who].password \/ user[req[r].who].exists
  <2>1. user' = [user EXCEPT ![req[r].who].recorded = b] \/ user' = [user EXCEPT ![req[r].who].password = c]
    BY <1>2 DEF Record, SetPassword, Exists
  <2> HIDE DEF b, c
  <2> QED
    BY <1>0, <2>1 DEF TypeOK, User
<1>3. ASSUME NEW r \in Requests, Prove(r) PROVE user'[m].status = user[m].status
  BY <1>0, <1>3 DEF Prove, TypeOK, User
<1>4. ASSUME NEW r \in Requests, SetPresenceHidden(r)
      PROVE  user'[m].status = user[m].status \/ ~Barred(user'[m])
  <2> DEFINE s == IF req[r].op = "hide" THEN "HIDDEN" ELSE "ACTIVE"
  <2>1. s \in {"HIDDEN", "ACTIVE"} /\ (UNCHANGED user \/ user' = [user EXCEPT ![req[r].who].status = s])
    BY <1>4 DEF SetPresenceHidden
  <2> HIDE DEF s
  <2> QED
    BY <1>0, <2>1 DEF TypeOK, User, Barred
<1>5. ASSUME NEW r \in Requests, RequestDeletion(r)
      PROVE  user'[m] = user[m] \/ (Exists(m) /\ req[r].who = m)
  BY <1>5 DEF RequestDeletion, TypeOK
<1>6. ASSUME NEW x \in Members, MonthPasses(x) PROVE user'[m].status = user[m].status
  BY <1>0, <1>6 DEF MonthPasses, TypeOK, User
<1>7. ASSUME NEW w \in Workers, DeleteUser(w) PROVE user'[m] = user[m] \/ ~Barred(user'[m])
  BY <1>7 DEF DeleteUser, TypeOK, NoUser, Barred, identity
<1>8. ASSUME NEW r \in Requests, NEW x \in Members, Suspend(r, x) PROVE user'[m] = user[m] \/ x = m
  BY <1>8 DEF Suspend, TypeOK
<1> QED
  BY <1>1, <1>2, <1>3, <1>4, <1>5, <1>6, <1>7, <1>8, UserWritten

\* What a request asks for, and for whom, does not change on the way.
SameAsking(q) == /\ req'[q].op = req[q].op /\ req'[q].who = req[q].who
                 /\ req[q].late => req'[q].late

(* A member's own request is let in only while the member is not barred.     *)
LEMMA AskingKept ==
  ASSUME IInv, [Next]_vars, NEW q \in Requests, req'[q].op \in Asking
  PROVE  SameAsking(q) \/ (UNCHANGED user /\ ~Barred(user[req'[q].who]))
<1> USE DEF IInv
<1>1. ASSUME NEW r \in Requests, req'[r] = Idle \/ req'[r].op \notin Asking,
             \A x \in Requests \ {r} : req'[x] = req[x]
      PROVE  SameAsking(q)
  BY <1>1 DEF SameAsking, Idle, Asking
<1>2. ASSUME NEW r \in Requests, NEW at \in Points, req[r] # Idle, req' = Goes(r, at)
      PROVE  SameAsking(q)
  <2>1. req[r] \in Request
    BY <1>2 DEF TypeOK
  <2> QED
    BY <1>2, <2>1 DEF Goes, SameAsking, TypeOK, Request
<1>3. ASSUME NEW m, NEW reqs, req' = Overtaken(m, reqs), reqs[q] \in Request,
             reqs[q].op = req[q].op /\ reqs[q].who = req[q].who /\ (req[q].late => reqs[q].late)
      PROVE  SameAsking(q)
  <2>1. req'[q] = reqs[q] \/ req'[q] = [reqs[q] EXCEPT !.late = TRUE]
    BY <1>3 DEF Overtaken
  <2> QED
    BY <1>3, <2>1 DEF SameAsking, Request
<1>4. ASSUME NEW r \in Requests, Arrive(r), ~\E m \in Members : Suspend(r, m)
      PROVE  SameAsking(q) \/ (UNCHANGED user /\ ~Barred(user[req'[q].who]))
  <2>1. ASSUME NEW m \in Members, NEW l \in Links, NEW withPassword \in BOOLEAN,
               Register(r, m, l, withPassword)
        PROVE  SameAsking(q)
    <3>1. \E at \in {"issue", "create"} :
            req' = [req EXCEPT ![r] = [Idle EXCEPT !.op = "register", !.who = m, !.link = l,
                                         !.withPassword = withPassword, !.at = at]]
      BY <2>1 DEF Register, Begin
    <3>2. req'[r].op = "register" /\ \A x \in Requests \ {r} : req'[x] = req[x]
      BY <3>1 DEF TypeOK, Idle
    <3> QED
      BY <1>1, <3>2 DEF Asking
  <2>2. ASSUME NEW m \in Members, NEW l \in Links, RequestMagicLink(r, m, l)
        PROVE  SameAsking(q)
    BY <1>1, <2>2 DEF RequestMagicLink, Begin, TypeOK, Asking, Idle
  <2>3. ASSUME NEW m \in Members, Login(r, m)
        PROVE  SameAsking(q)
    BY <1>1, <2>3 DEF Login, Begin, TypeOK, Asking, Idle
  <2>4. ASSUME NEW l \in Links, Verify(r, l)
        PROVE  SameAsking(q)
    BY <1>1, <2>4 DEF Verify, Begin, TypeOK, Asking, Idle
  <2>5. ASSUME NEW s \in Sessions, NEW op \in Asking, NEW f \in Files \union {NoFile},
               Resolve(r, s, op, f)
        PROVE  SameAsking(q) \/ (UNCHANGED user /\ ~Barred(user[req'[q].who]))
    <3>1. /\ UNCHANGED user /\ ~Barred(user[session[s].of])
          /\ req'[r].who = session[s].of /\ \A x \in Requests \ {r} : req'[x] = req[x]
      BY <2>5 DEF Resolve, Begin, identity, TypeOK, Idle
    <3> QED
      BY <3>1 DEF SameAsking
  <2> QED
    BY <1>4, <2>1, <2>2, <2>3, <2>4, <2>5 DEF Arrive
<1>5. ASSUME NEW r \in Requests, NEW m \in Members, Suspend(r, m)
      PROVE  SameAsking(q)
  <2> DEFINE new  == [Idle EXCEPT !.op = "suspend", !.who = m, !.at = "signout"]
             reqs == [req EXCEPT ![r] = new]
  <2>1. new.op = "suspend"
    BY DEF Idle
  <2>2. reqs[r] = new /\ \A x \in Requests \ {r} : reqs[x] = req[x]
    BY DEF TypeOK
  <2>3. req' = Overtaken(m, reqs)
    BY <1>5 DEF Suspend
  <2> HIDE DEF new, reqs
  <2>4. q # r
    BY <2>1, <2>2, <2>3 DEF Overtaken, Asking
  <2>5. reqs[q] = req[q]
    BY <2>2, <2>4
  <2>6. reqs[q] \in Request \/ req'[q] = req[q]
    BY <2>3, <2>5 DEF Overtaken, TypeOK, Asking, Idle
  <2> QED
    BY <1>3, <2>3, <2>5, <2>6 DEF SameAsking
<1>6. ASSUME NEW r \in Requests, RequestDeletion(r)
      PROVE  SameAsking(q)
  <2>1. req[r].op = "delete" /\ (req' = Ended(r) \/ req' = Overtaken(req[r].who, Goes(r, "record")))
    BY <1>6 DEF RequestDeletion, Acts
  <2>2. req[r] \in Request
    BY <2>1 DEF TypeOK, Idle
  <2> DEFINE reqs == Goes(r, "record")
  <2>3. reqs[r] = [req[r] EXCEPT !.at = "record"] /\ \A x \in Requests \ {r} : reqs[x] = req[x]
    BY DEF Goes, TypeOK
  <2>4. reqs[q].op = req[q].op /\ reqs[q].who = req[q].who /\ reqs[q].late = req[q].late
    BY <2>2, <2>3 DEF Request
  <2> HIDE DEF reqs
  <2>5. CASE req' = Ended(r)
    BY <1>1, <2>5 DEF Ended, TypeOK
  <2>6. CASE req' = Overtaken(req[r].who, reqs)
    <3>1. q = r => reqs[q] \in Request
      BY <2>2, <2>3 DEF Request, Points
    <3>2. reqs[q] \in Request \/ req'[q] = req[q]
      BY <2>3, <2>6, <3>1 DEF Overtaken, TypeOK, Asking, Idle
    <3> QED
      BY <1>3, <2>4, <2>6, <3>2 DEF SameAsking
  <2> QED
    BY <2>1, <2>5, <2>6 DEF reqs
<1>7. ASSUME NEW r \in Requests, Continue(r) \/ Crash(r), ~RequestDeletion(r)
      PROVE  SameAsking(q)
  <2>1. \/ req' = Ended(r)
        \/ req[r] # Idle /\ \E at \in Points : req' = Goes(r, at)
    <3>1. Crash(r) => req' = Ended(r)
      BY DEF Crash
    <3>2. Continue(r) => /\ req[r].at # "idle"
                         /\ req' = Ended(r) \/ \E at \in Points : req' = Goes(r, at)
      BY <1>7 DEF Continue, CreateUser, Record, Issue, Burn, Prove, Start, SetPassword, Revoke,
         SetPresenceHidden, Speak, PutObject, CreateAsset, SignOut, Acts, Points
    <3> QED
      BY <1>7, <3>1, <3>2 DEF Idle
  <2>2. CASE req' = Ended(r)
    BY <1>1, <2>2 DEF Ended, TypeOK
  <2> QED
    BY <1>2, <2>1, <2>2
<1> QED
  BY <1>4, <1>5, <1>6, <1>7, RequestsUntouched DEF SameAsking

(* Only the member's own settings lift a bar, as long as there is a member.  *)
LEMMA BarLifted ==
  ASSUME IInv, [Next]_vars, NEW m \in Members, user[m].exists, Barred(user[m]),
         user'[m].exists, ~Barred(user'[m])
  PROVE  \E r \in Requests : SetPresenceHidden(r) /\ req[r].who = m
<1>0. user[m] \in User
  BY DEF IInv, TypeOK
<1>1. ASSUME NEW r \in Requests, CreateUser(r) \/ Prove(r) \/ Record(r) \/ SetPassword(r) PROVE FALSE
  <2> DEFINE b == user[req[r].who].recorded \/ user[req[r].who].exists
             c == user[req[r].who].password \/ user[req[r].who].exists
  <2>1. \/ user'[m] = user[m]
        \/ user' = [user EXCEPT ![req[r].who].recorded = b] \/ user' = [user EXCEPT ![req[r].who].password = c]
        \/ user' = [user EXCEPT ![req[r].who].verified = TRUE]
    BY <1>1 DEF CreateUser, Prove, Proved, Record, SetPassword, Exists, IInv, TypeOK
  <2> HIDE DEF b, c
  <2>2. user'[m].status = user[m].status
    BY <1>0, <2>1 DEF IInv, TypeOK, User
  <2> QED
    BY <2>2 DEF Barred
<1>2. ASSUME NEW r \in Requests, RequestDeletion(r) PROVE FALSE
  <2>1. user'[m] = user[m] \/ user'[m].status = "DELETION_PENDING"
    BY <1>0, <1>2 DEF RequestDeletion, IInv, TypeOK, User
  <2> QED
    BY <2>1 DEF Barred
<1>3. ASSUME NEW r \in Requests, SetPresenceHidden(r) PROVE req[r].who = m
  BY <1>3 DEF SetPresenceHidden, IInv, TypeOK, Barred
<1>4. ASSUME NEW x \in Members, MonthPasses(x) \/ \E r \in Requests : Suspend(r, x) PROVE FALSE
  <2>1. user'[m].status = user[m].status \/ user'[m].status = "SUSPENDED"
    <3>1. CASE MonthPasses(x)
      BY <1>0, <3>1 DEF MonthPasses, IInv, TypeOK, User
    <3>2. ASSUME NEW r \in Requests, Suspend(r, x)
          PROVE  user'[m].status = user[m].status \/ user'[m].status = "SUSPENDED"
      BY <1>0, <3>2 DEF Suspend, IInv, TypeOK, User
    <3> QED
      BY <1>4, <3>1, <3>2
  <2> QED
    BY <2>1 DEF Barred
<1>5. ASSUME NEW w \in Workers, DeleteUser(w) PROVE FALSE
  BY <1>5 DEF DeleteUser, IInv, TypeOK, NoUser, Barred, identity
<1>6. ~UNCHANGED user
  OBVIOUS
<1> QED
  BY <1>1, <1>2, <1>3, <1>4, <1>5, <1>6, UserWritten

(* A bar that falls on a request under way marks it as late.                 *)
LEMMA StepLate ==
  ASSUME IInv, [Next]_vars
  PROVE  LateIsKnown'
<1> SUFFICES ASSUME NEW q \in Requests, req'[q].op \in Asking, Barred(user'[req'[q].who])
             PROVE  req'[q].late
  BY DEF LateIsKnown, Barred
<1> DEFINE m == req'[q].who
<1>1. TypeOK'
  BY StepTypeOK
<1>2. req'[q] \in Request /\ m \in Members
  BY <1>1 DEF TypeOK, Request, Idle, Asking
<1>3. ASSUME NEW n, NEW reqs \in ReqType, req' = Overtaken(n, reqs), n = m
      PROVE  req'[q].late
  <2>1. req'[q] = IF reqs[q].who = n /\ reqs[q].op \in Asking
                  THEN [reqs[q] EXCEPT !.late = TRUE] ELSE reqs[q]
    BY <1>3 DEF Overtaken
  <2>2. reqs[q].op \in Asking => reqs[q] \in Request
    BY DEF ReqType, Idle, Asking
  <2>3. CASE reqs[q].who = n /\ reqs[q].op \in Asking
    <3>1. req'[q] = [reqs[q] EXCEPT !.late = TRUE]
      BY <2>1, <2>3
    <3> QED
      BY <2>2, <2>3, <3>1 DEF Request
  <2>4. CASE ~(reqs[q].who = n /\ reqs[q].op \in Asking)
    BY <1>3, <2>1, <2>4
  <2> QED
    BY <2>3, <2>4
<1>4. ASSUME NEW r \in Requests, Suspend(r, m) PROVE req'[q].late
  <2> DEFINE reqs == [req EXCEPT ![r] = [Idle EXCEPT !.op = "suspend", !.who = m, !.at = "signout"]]
  <2>1. [Idle EXCEPT !.op = "suspend", !.who = m, !.at = "signout"] \in Request
    BY <1>2 DEF Idle, Request, Points
  <2>2. reqs \in ReqType /\ req' = Overtaken(m, reqs)
    BY <1>4, <2>1 DEF IInv, TypeOK, ReqType, Suspend
  <2> QED
    BY <1>3, <2>2
<1>5. ASSUME NEW r \in Requests, RequestDeletion(r), Exists(m), req[r].who = m PROVE req'[q].late
  <2>1. Goes(r, "record") \in ReqType
    BY <1>5, RequestsTyped DEF IInv, RequestDeletion, Acts, Idle, Points
  <2>2. req' = Overtaken(m, Goes(r, "record"))
    BY <1>5 DEF RequestDeletion
  <2> QED
    BY <1>3, <2>1, <2>2
<1>6. CASE SameAsking(q) /\ user'[m].status = user[m].status
  BY <1>6 DEF IInv, LateIsKnown, SameAsking, Barred
<1>7. SameAsking(q)
  BY AskingKept DEF Barred
<1> QED
  BY <1>2, <1>4, <1>5, <1>6, <1>7, StatusKept

-----------------------------------------------------------------------------
(* The theorems.                                                             *)

LEMMA InitIInv ==
  ASSUME Init
  PROVE  IInv
<1>1. TypeOK
  <2>1. NoUser \in User /\ FreeLink \in Link /\ NoRow \in Session
    BY DEF NoUser, User, Statuses, FreeLink, Link, NoRow, Session
  <2> QED
    BY <2>1, AccountsAssumption DEF Init, TypeOK, Rests
<1>2. Rows /\ WorkersKnow /\ LateIsKnown /\ FilesAreAccountedFor
  BY DEF Init, Rows, NoRow, WorkersKnow, Rests, LateIsKnown, Idle, Asking, FilesAreAccountedFor
<1>3. LinksKnown
  BY DEF Init, LinksKnown, LinkKnown, Senders, Readers, Idle
<1>4. UploadsKnown
  BY AccountsAssumption DEF Init, UploadsKnown, Idle
<1> QED
  BY <1>1, <1>2, <1>3, <1>4 DEF IInv

LEMMA StepIInv ==
  ASSUME IInv, [Next]_vars
  PROVE  IInv'
  BY StepTypeOK, StepRows, StepLinks, StepUploads, StepWorkers, StepLate, StepFiles DEF IInv

(* Every state has the types, and what the requests rely on.                 *)
THEOREM Correct == Spec => []IInv
<1>1. Init => IInv
  BY InitIInv
<1>2. IInv /\ [Next]_vars => IInv'
  BY StepIInv
<1> QED
  BY <1>1, <1>2, PTL DEF Spec

(* Users, links, sessions, uploads, requests and workers keep their types.   *)
THEOREM TypeCorrect == Spec => []TypeOK
<1>1. IInv => TypeOK
  BY DEF IInv
<1> QED
  BY <1>1, Correct, PTL

(* A sign-in link begins at most one session, unless two requests had read   *)
(* it before either burned it (MagicLinkService.consume).                    *)
THEOREM LinksWorkOnce == Spec => []LinkWorksOnce
<1>1. IInv => LinkWorksOnce
  <2> SUFFICES ASSUME IInv, NEW l \in Links, link[l].begun > 1 PROVE link[l].raced
    BY DEF LinkWorksOnce
  <2>1. link[l].begun \in 0..2 /\ link[l].begun > 1
    BY DEF IInv, TypeOK, Link
  <2>2. link[l] # FreeLink
    BY <2>1 DEF FreeLink
  <2> QED
    BY <2>1, <2>2 DEF IInv, LinksKnown, LinkKnown
<1> QED
  BY <1>1, Correct, PTL

(* Every file in storage has a row, an upload under way, or a failure that   *)
(* left it there (MediaService.ingest against DeletionWorker).               *)
THEOREM FilesAccounted == Spec => []FilesAreAccountedFor
<1>1. IInv => FilesAreAccountedFor
  BY DEF IInv
<1> QED
  BY <1>1, Correct, PTL

(* No member lifts their own bar, except by a request that was let in before *)
(* it: setPresenceHidden overwrites the status without asking for it.        *)
THEOREM BarHolds == Spec => BarStands
<1> DEFINE Stands ==
      \A m \in Members :
        user[m].status \in {"SUSPENDED", "DELETION_PENDING"} =>
          \/ user'[m].status \in {"SUSPENDED", "DELETION_PENDING"} \/ ~user'[m].exists
          \/ \E r \in Requests : req[r].who = m /\ req[r].late
<1>1. IInv /\ [Next]_vars => Stands
  <2> SUFFICES ASSUME IInv, [Next]_vars, NEW m \in Members, Barred(user[m]),
                      user'[m].exists, ~Barred(user'[m])
               PROVE  \E r \in Requests : req[r].who = m /\ req[r].late
    BY DEF Barred
  <2>1. user[m].exists
    BY DEF IInv, Rows, Exists, NoUser, Barred
  <2>2. user'[m].status # user[m].status
    BY DEF Barred
  <2>3. PICK r \in Requests : SetPresenceHidden(r) /\ req[r].who = m
    BY <2>1, <2>2, BarLifted
  <2> QED
    BY <2>3 DEF SetPresenceHidden, Acts, IInv, LateIsKnown, Asking
<1> QED
  BY <1>1, Correct, PTL DEF Spec, BarStands
=============================================================================
