------------------------------- MODULE Accounts -------------------------------
(***************************************************************************)
(* The life of an account: joining, signing in by link or password,        *)
(* sessions, hidden presence, uploads, suspension, the request to be       *)
(* deleted and DeletionWorker. Each handler is split at its awaits; the    *)
(* statements of an array transaction are one step.                        *)
(*                                                                         *)
(* What a member wrote is one voice; the counter behind it is the subject  *)
(* of VoiceLedger, a moderator's decision that of Moderation.              *)
(*                                                                         *)
(* Bounds: MaxArrivals requests; Links and Sessions, rows in use at one    *)
(* time; MaxFaults requests or purges cut short, mails not sent and        *)
(* objects not removed.                                                    *)
(* BurnNothing, BarredOnlySuspended, VoicesLast and RemoveNothing are      *)
(* plausible mistakes in the definition that follows each of them; only    *)
(* the mutation runs use them.                                             *)
(***************************************************************************)
EXTENDS Integers, FiniteSets

CONSTANTS Members, Requests, Links, Sessions, Files,
          Workers,     \* instances of the API, each runs DeletionWorker every hour
          MaxArrivals, MaxFaults

Nobody == "nobody"
NoLink == "no link"
NoFile == "no file"

ASSUME AccountsAssumption ==
  /\ Nobody \notin Members /\ NoLink \notin Links /\ NoFile \notin Files
  /\ MaxArrivals \in Nat /\ MaxFaults \in Nat

Statuses  == {"ACTIVE", "HIDDEN", "SUSPENDED", "DELETION_PENDING"}
\* recorded: the audit log has an entry whose actor is this member.
User    == [exists : BOOLEAN, status : Statuses, verified : BOOLEAN, password : BOOLEAN,
            recorded : BOOLEAN, deletion : {"none", "asked", "due"}]
NoUser  == [exists |-> FALSE, status |-> "ACTIVE", verified |-> FALSE, password |-> FALSE,
            recorded |-> FALSE, deletion |-> "none"]
\* begun: the sessions a link has begun; raced: read twice before it was burned.
Link    == [of : Members \union {Nobody}, state : {"none", "unused", "used", "expired"},
            begun : 0..2, raced : BOOLEAN]
FreeLink == [of |-> Nobody, state |-> "none", begun |-> 0, raced |-> FALSE]
Session == [of : Members \union {Nobody}, live : BOOLEAN]
NoRow   == [of |-> Nobody, live |-> FALSE]
Signing == {"register", "request", "verify", "login"}
Asking  == {"hide", "restore", "delete", "password", "revoke", "speak", "upload"}
Points  == {"create", "record", "issue", "burn", "prove", "start", "act", "asset", "signout"}
\* late: the member was barred after the request had been let in.
Request == [op : Signing \union Asking \union {"suspend"}, at : Points, who : Members,
            link : Links \union {NoLink}, file : Files \union {NoFile},
            withPassword : BOOLEAN, late : BOOLEAN]
Idle    == [op |-> "idle", at |-> "idle", who |-> Nobody, link |-> NoLink,
            file |-> NoFile, withPassword |-> FALSE, late |-> FALSE]

VARIABLES user, link, session,
          voice,     \* how a member's voice stands on the Wall
          object,    \* the files in storage
          row,       \* the uploader of a file's row, or Nobody
          req,       \* the requests in flight
          worker,    \* each DeletionWorker: where it is, for whom, the rows it has read
          arrivals, faults,
          left       \* history: files a failure or an overlap has left in storage

vars == <<user, link, session, voice, object, row, req, worker, arrivals, faults, left>>
files    == <<object, row, left>>
identity == <<user, link, session>>
rest     == <<voice, files, worker, faults>>   \* untouched by signing in

TypeOK ==
  /\ user \in [Members -> User] /\ link \in [Links -> Link]
  /\ session \in [Sessions -> Session]
  /\ voice \in [Members -> {"none", "named", "purged"}]
  /\ object \subseteq Files /\ row \in [Files -> Members \union {Nobody}]
  /\ req \in [Requests -> Request \union {Idle}]
  /\ worker \in [Workers -> [at : {"idle", "voices", "files", "rows", "delete"},
                             who : Members \union {Nobody}, found : SUBSET Files]]
  /\ arrivals \in 0..MaxArrivals /\ faults \in 0..MaxFaults /\ left \subseteq Files

Rests == [at |-> "idle", who |-> Nobody, found |-> {}]

Init ==
  /\ user = [m \in Members |-> NoUser] /\ link = [l \in Links |-> FreeLink]
  /\ session = [s \in Sessions |-> NoRow]
  /\ voice = [m \in Members |-> "none"]
  /\ object = {} /\ row = [f \in Files |-> Nobody]
  /\ req = [r \in Requests |-> Idle] /\ worker = [w \in Workers |-> Rests]
  /\ arrivals = 0 /\ faults = 0 /\ left = {}

Exists(m) == user[m].exists
BarredOnlySuspended(u) == u.status = "SUSPENDED"
Barred(u) == u.status \in {"SUSPENDED", "DELETION_PENDING"}

Ended(r)     == [req EXCEPT ![r] = Idle]
Goes(r, at)  == [req EXCEPT ![r].at = at]
Begin(r, fields) == req[r] = Idle /\ req' = [req EXCEPT ![r] = fields]
\* The requests let in for m that a change of status overtakes.
Overtaken(m, reqs) ==
  [q \in Requests |-> IF reqs[q].who = m /\ reqs[q].op \in Asking
                      THEN [reqs[q] EXCEPT !.late = TRUE] ELSE reqs[q]]
SignedOut(m) == [s \in Sessions |-> IF session[s].of = m
                                    THEN [session[s] EXCEPT !.live = FALSE] ELSE session[s]]
FreeFor(l)   == link[l] = FreeLink /\ \A r \in Requests : req[r].link # l

-----------------------------------------------------------------------------
(* AuthService, MagicLinkService and SessionService                          *)

\* register: who is a member already is sent a link, unless barred, and told
\* the same as anybody else.
Register(r, m, l, withPassword) ==
  /\ FreeFor(l)
  /\ IF Exists(m) THEN user[m].status \in {"ACTIVE", "HIDDEN"} ELSE TRUE
  /\ Begin(r, [Idle EXCEPT !.op = "register", !.who = m, !.link = l,
                 !.withPassword = withPassword,
                 !.at = IF Exists(m) THEN "issue" ELSE "create"])
  /\ UNCHANGED <<identity, rest>>

\* The address is unique: of two registrations that overlap the second fails.
CreateUser(r) ==
  LET m == req[r].who IN
  /\ req[r].at = "create"
  /\ IF Exists(m)
     THEN req' = Ended(r) /\ UNCHANGED user
     ELSE /\ user' = [user EXCEPT ![m] = [NoUser EXCEPT !.exists = TRUE,
                                            !.password = req[r].withPassword]]
          /\ req' = Goes(r, "record")
  /\ UNCHANGED <<link, session, rest>>

\* The entry names its actor, who must still be there.
Record(r) ==
  /\ req[r].at = "record"
  /\ user' = [user EXCEPT ![req[r].who].recorded = @ \/ Exists(req[r].who)]
  /\ req' = IF req[r].op = "register" /\ Exists(req[r].who) THEN Goes(r, "issue")
            ELSE Ended(r)
  /\ UNCHANGED <<link, session, rest>>

RequestMagicLink(r, m, l) ==
  /\ FreeFor(l) /\ Exists(m) /\ ~Barred(user[m])
  /\ Begin(r, [Idle EXCEPT !.op = "request", !.who = m, !.link = l, !.at = "issue"])
  /\ UNCHANGED <<identity, rest>>

\* MailService.send: the message leaves, or the request ends with the error.
Send(sent) ==
  /\ faults' = faults + (IF sent THEN 0 ELSE 1)
  /\ faults' <= MaxFaults

\* issue: the row, then the mail; a token that is not mailed helps nobody.
Issue(r) ==
  /\ req[r].at = "issue"
  /\ \E sent \in IF Exists(req[r].who) THEN BOOLEAN ELSE {FALSE} :
       /\ IF Exists(req[r].who) THEN Send(sent) ELSE UNCHANGED faults
       /\ link' = IF sent
                    THEN [link EXCEPT ![req[r].link] =
                            [FreeLink EXCEPT !.of = req[r].who, !.state = "unused"]]
                    ELSE link
  /\ req' = Ended(r)
  /\ UNCHANGED <<user, session, voice, files, worker>>

\* loginWithPassword, with the right password; the hash is awaited.
Login(r, m) ==
  /\ Exists(m) /\ user[m].password /\ user[m].status = "ACTIVE"
  /\ Begin(r, [Idle EXCEPT !.op = "login", !.who = m, !.at = "start"])
  /\ UNCHANGED <<identity, rest>>

\* consume: read, then burn, without asking again.
Verify(r, l) ==
  /\ link[l].state = "unused"
  /\ link' = [link EXCEPT ![l].raced =
                @ \/ \E q \in Requests : req[q].at = "burn" /\ req[q].link = l]
  /\ Begin(r, [Idle EXCEPT !.op = "verify", !.who = link[l].of, !.link = l, !.at = "burn"])
  /\ UNCHANGED <<user, session, rest>>

BurnNothing(state) == state
Burned(state) == "used"

Burn(r) ==
  LET l == req[r].link IN
  /\ req[r].at = "burn"
  /\ IF link[l].state = "none"
     THEN req' = Ended(r) /\ UNCHANGED link
     ELSE /\ link' = [link EXCEPT ![l].state = Burned(@)]
          /\ req' = Goes(r, "prove")
  /\ UNCHANGED <<user, session, rest>>

\* consumeMagicLink does not ask for the status of the account.
Proved(proved) == TRUE

Prove(r) ==
  LET m == req[r].who IN
  /\ req[r].at = "prove"
  /\ IF Exists(m)
     THEN /\ user' = [user EXCEPT ![m].verified = Proved(@)]
          /\ req' = Goes(r, "start")
     ELSE req' = Ended(r) /\ UNCHANGED user
  /\ UNCHANGED <<link, session, rest>>

\* startSession.
Start(r) ==
  LET m == req[r].who IN
  /\ req[r].at = "start"
  /\ IF Exists(m)
     THEN \E s \in Sessions :
            /\ session[s] = NoRow
            /\ session' = [session EXCEPT ![s] = [of |-> m, live |-> TRUE]]
            /\ link' = IF req[r].op # "verify" \/ link[req[r].link].of = Nobody THEN link
                       ELSE [link EXCEPT ![req[r].link].begun = IF @ = 2 THEN 2 ELSE @ + 1]
     ELSE UNCHANGED <<session, link>>
  /\ req' = Ended(r)
  /\ UNCHANGED <<user, rest>>

\* SessionGuard and SessionService.resolve let a request in; the handler runs
\* some time later, with the user as it was. An upload has a key of its own.
FreeKey(f) == /\ f \notin object /\ row[f] = Nobody
              /\ \A q \in Requests : req[q].file # f
              /\ \A w \in Workers : f \notin worker[w].found

Resolve(r, s, op, f) ==
  /\ session[s].live /\ ~Barred(user[session[s].of])
  /\ IF op = "upload" THEN f # NoFile /\ FreeKey(f) ELSE f = NoFile
  /\ Begin(r, [Idle EXCEPT !.op = op, !.who = session[s].of, !.file = f, !.at = "act"])
  /\ UNCHANGED <<identity, rest>>

Acts(r, ops) == req[r].at = "act" /\ req[r].op \in ops

SetPassword(r) ==
  /\ Acts(r, {"password"})
  /\ user' = [user EXCEPT ![req[r].who].password = @ \/ Exists(req[r].who)]
  /\ req' = Ended(r)
  /\ UNCHANGED <<link, session, rest>>

\* revokeSession and logout: one session of the member.
Revoke(r) ==
  /\ Acts(r, {"revoke"})
  /\ \E s \in Sessions :
       session' = IF session[s].of = req[r].who
                  THEN [session EXCEPT ![s].live = FALSE] ELSE session
  /\ req' = Ended(r)
  /\ UNCHANGED <<user, link, rest>>

-----------------------------------------------------------------------------
(* MembersService                                                            *)

\* The status is overwritten, whatever it has become.
SetPresenceHidden(r) ==
  LET m == req[r].who IN
  /\ Acts(r, {"hide", "restore"})
  /\ IF Exists(m)
     THEN /\ user' = [user EXCEPT ![m].status =
                        IF req[r].op = "hide" THEN "HIDDEN" ELSE "ACTIVE"]
          /\ req' = Goes(r, "record")
     ELSE req' = Ended(r) /\ UNCHANGED user
  /\ UNCHANGED <<link, session, rest>>

RequestDeletion(r) ==
  LET m == req[r].who IN
  /\ Acts(r, {"delete"})
  /\ IF Exists(m)
     THEN /\ user' = [user EXCEPT ![m].deletion = "asked", ![m].status = "DELETION_PENDING"]
          /\ session' = SignedOut(m)
          /\ req' = Overtaken(m, Goes(r, "record"))
     ELSE req' = Ended(r) /\ UNCHANGED <<user, session>>
  /\ UNCHANGED <<link, rest>>

\* VoiceService.submit for a signed-in member.
Speak(r) ==
  /\ Acts(r, {"speak"})
  /\ voice' = [voice EXCEPT ![req[r].who] = IF Exists(req[r].who) THEN "named" ELSE @]
  /\ req' = Ended(r)
  /\ UNCHANGED <<identity, files, worker, faults>>

\* MediaService.ingest: the object, then its row.
PutObject(r) ==
  /\ Acts(r, {"upload"})
  /\ object' = object \union {req[r].file}
  /\ req' = Goes(r, "asset")
  /\ UNCHANGED <<identity, voice, row, left, worker, faults>>

CreateAsset(r) ==
  /\ req[r].at = "asset"
  /\ IF Exists(req[r].who)
     THEN row' = [row EXCEPT ![req[r].file] = req[r].who] /\ UNCHANGED left
     ELSE left' = left \union {req[r].file} /\ UNCHANGED row
  /\ req' = Ended(r)
  /\ UNCHANGED <<identity, voice, object, worker, faults>>

-----------------------------------------------------------------------------
(* ModerationService.applyToTarget, SUSPEND_ACCOUNT: two statements          *)

Suspend(r, m) ==
  /\ Exists(m) /\ req[r] = Idle
  /\ user' = [user EXCEPT ![m].status = "SUSPENDED"]
  /\ req' = Overtaken(m, [req EXCEPT ![r] = [Idle EXCEPT !.op = "suspend", !.who = m,
                                                         !.at = "signout"]])
  /\ UNCHANGED <<link, session, rest>>

SignOut(r) ==
  /\ req[r].at = "signout"
  /\ session' = SignedOut(req[r].who)
  /\ req' = Ended(r)
  /\ UNCHANGED <<user, link, rest>>

-----------------------------------------------------------------------------
(* DeletionWorker.run, one member after another                              *)

VoicesLast == "delete"
FirstStep == "voices"

BeginPurge(w, m) ==
  /\ worker[w] = Rests /\ Exists(m) /\ user[m].deletion = "due"
  /\ worker' = [worker EXCEPT ![w] = [at |-> FirstStep, who |-> m, found |-> {}]]
  /\ UNCHANGED <<identity, voice, files, req, faults>>

\* As the member chose, the voices are withdrawn or lose their author.
PurgeVoices(w) ==
  /\ worker[w].at = "voices"
  /\ voice' = [voice EXCEPT ![worker[w].who] = IF @ = "named" THEN "purged" ELSE @]
  /\ worker' = [worker EXCEPT ![w].at = "files"]
  /\ UNCHANGED <<identity, files, req, faults>>

\* Every object whose row was found; storage swallows a failure to remove one.
UploadsOf(m) == {f \in Files : row[f] = m}

RemoveNothing(found) == {}
ToRemove(found) == found

RemoveObjects(w) ==
  LET found == UploadsOf(worker[w].who) IN
  /\ worker[w].at = "files"
  /\ \/ object' = object \ ToRemove(found) /\ UNCHANGED <<left, faults>>
     \/ /\ found # {} /\ faults < MaxFaults /\ faults' = faults + 1
        /\ left' = left \union found /\ UNCHANGED object
  /\ worker' = [worker EXCEPT ![w].at = "rows", ![w].found = found]
  /\ UNCHANGED <<identity, voice, row, req>>

\* Rows that were added since are deleted with the others.
DeleteRows(w) ==
  LET all == UploadsOf(worker[w].who) IN
  /\ worker[w].at = "rows"
  /\ row' = [f \in Files |-> IF f \in all THEN Nobody ELSE row[f]]
  /\ left' = left \union (all \ worker[w].found)
  /\ worker' = [worker EXCEPT ![w].at = "delete", ![w].found = {}]
  /\ UNCHANGED <<identity, voice, object, req, faults>>

\* The entries of the audit log would lose their actor, and they must not be
\* changed: the deletion of whom they name is refused, and tried again every
\* hour. Where it succeeds the request goes with the member, the update that
\* follows finds no row, and neither the mail nor the audit entry is reached.
\* Another instance at work for the same member then finds nothing either. The
\* rows of files that were added since go too, and the files stay.
DeleteUser(w) ==
  LET m == worker[w].who IN
  /\ worker[w].at = "delete"
  /\ IF user[m].recorded
     THEN UNCHANGED <<identity, row, left>>
     ELSE /\ user' = [user EXCEPT ![m] = NoUser]
          /\ link' = [l \in Links |-> IF link[l].of = m THEN FreeLink ELSE link[l]]
          /\ session' = [s \in Sessions |-> IF session[s].of = m THEN NoRow ELSE session[s]]
          /\ row' = [f \in Files |-> IF row[f] = m THEN Nobody ELSE row[f]]
          /\ left' = left \union UploadsOf(m)
  /\ worker' = [x \in Workers |->
                  IF x = w \/ (~user[m].recorded /\ worker[x].who = m) THEN Rests ELSE worker[x]]
  /\ UNCHANGED <<voice, object, req, faults>>

-----------------------------------------------------------------------------
(* Time, RetentionWorker and failures                                        *)

\* Thirty days; no request takes that long.
MonthPasses(m) ==
  /\ user[m].deletion = "asked" /\ \A r \in Requests : req[r].who # m
  /\ user' = [user EXCEPT ![m].deletion = "due"]
  /\ UNCHANGED <<link, session, req, rest>>

ExpireLink(l) ==
  /\ link[l].state \in {"unused", "used"}
  /\ link' = [link EXCEPT ![l].state = "expired"]
  /\ UNCHANGED <<user, session, req, rest>>

\* purgeExpiredTokens, and the sessions that are over.
PurgeExpiredTokens ==
  /\ \E l \in Links : link[l].state = "expired"
  /\ link' = [l \in Links |-> IF link[l].state = "expired" THEN FreeLink ELSE link[l]]
  /\ UNCHANGED <<user, session, req, rest>>

PurgeSessions ==
  /\ \E s \in Sessions : session[s] # NoRow /\ ~session[s].live
  /\ session' = [s \in Sessions |-> IF session[s].live THEN session[s] ELSE NoRow]
  /\ UNCHANGED <<user, link, req, rest>>

ExpireSession(s) ==
  /\ session[s].live
  /\ session' = [session EXCEPT ![s].live = FALSE]
  /\ UNCHANGED <<user, link, req, rest>>

Crash(r) ==
  /\ req[r] # Idle /\ faults < MaxFaults /\ faults' = faults + 1
  /\ left' = IF req[r].at = "asset" THEN left \union {req[r].file} ELSE left
  /\ req' = Ended(r)
  /\ UNCHANGED <<identity, voice, object, row, worker>>

CrashWorker(w) ==
  /\ worker[w] # Rests /\ faults < MaxFaults /\ faults' = faults + 1
  /\ worker' = [worker EXCEPT ![w] = Rests]
  /\ UNCHANGED <<identity, voice, files, req>>

Purge(w) == PurgeVoices(w) \/ RemoveObjects(w) \/ DeleteRows(w) \/ DeleteUser(w)

Continue(r) ==
  \/ CreateUser(r) \/ Record(r) \/ Issue(r) \/ Burn(r) \/ Prove(r) \/ Start(r)
  \/ SetPassword(r) \/ Revoke(r) \/ SetPresenceHidden(r) \/ RequestDeletion(r)
  \/ Speak(r) \/ PutObject(r) \/ CreateAsset(r) \/ SignOut(r)

Arrive(r) ==
  \/ \E m \in Members, l \in Links, withPassword \in BOOLEAN :
       Register(r, m, l, withPassword) \/ RequestMagicLink(r, m, l)
  \/ \E m \in Members : Login(r, m) \/ Suspend(r, m)
  \/ \E l \in Links : Verify(r, l)
  \/ \E s \in Sessions, op \in Asking, f \in Files \union {NoFile} : Resolve(r, s, op, f)

Next ==
  \/ \E r \in Requests : /\ Arrive(r) /\ arrivals < MaxArrivals
                          /\ arrivals' = arrivals + 1
  \/ /\ \/ \E r \in Requests : Continue(r) \/ Crash(r)
        \/ \E m \in Members : MonthPasses(m) \/ \E w \in Workers : BeginPurge(w, m)
        \/ \E w \in Workers : Purge(w) \/ CrashWorker(w)
        \/ \E l \in Links : ExpireLink(l)
        \/ \E s \in Sessions : ExpireSession(s)
        \/ PurgeExpiredTokens \/ PurgeSessions
     /\ UNCHANGED arrivals

\* A worker runs every hour and ends what it begins.
Spec == /\ Init /\ [][Next]_vars
        /\ \A w \in Workers :
             /\ \A m \in Members : WF_vars(BeginPurge(w, m) /\ UNCHANGED arrivals)
             /\ WF_vars(Purge(w) /\ UNCHANGED arrivals)

-----------------------------------------------------------------------------
\* "This link works once": a link begins at most one session, unless two
\* requests had read it before either burned it.
LinkWorksOnce == \A l \in Links : link[l].begun > 1 => link[l].raced

\* "The member proves the address first".
AddressIsProved ==
  \A s \in Sessions : session[s].of # Nobody => user[session[s].of].verified

\* Nobody lifts their own suspension or calls their deletion off, unless with a
\* request that had been let in before.
BarStands ==
  [][\A m \in Members :
       user[m].status \in {"SUSPENDED", "DELETION_PENDING"} =>
         \/ user'[m].status \in {"SUSPENDED", "DELETION_PENDING"} \/ ~user'[m].exists
         \/ \E r \in Requests : req[r].who = m /\ req[r].late]_vars

\* A file in storage has a row that leads to it, or is about to get one, or was
\* left by a failure or by an upload of a member who came back.
FilesAreAccountedFor ==
  \A f \in object : row[f] # Nobody \/ f \in left \/ \E r \in Requests : req[r].file = f

\* When the time of a deletion has come the member's voice loses its author, or
\* its place, and the uploads go, whatever becomes of the account, unless a new
\* request puts the time off.
DueIsPurged ==
  \A m \in Members :
    /\ user[m].deletion = "due" ~> user[m].deletion # "due" \/ voice[m] # "named"
    /\ user[m].deletion = "due" ~> user[m].deletion # "due" \/ UploadsOf(m) = {}

\* "The right to disappear, actually executed".
RequestedIsDeleted ==
  \A m \in Members : user[m].deletion = "due" ~> ~Exists(m)
=============================================================================
