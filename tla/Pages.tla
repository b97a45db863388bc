-------------------------------- MODULE Pages --------------------------------
(***************************************************************************)
(* The pages of the web application that ask the API and keep what it      *)
(* answered: the member directory, the forms sent with useSubmit (join,    *)
(* sign in), the page a magic link opens, and the moderators' list of      *)
(* voices behind AdminGate. A tab shows one of them at a time, and leaving *)
(* it drops its state. Requests are served and answered in any order.      *)
(*                                                                         *)
(* Bound: Slots requests at a time; where the browser would have more, the *)
(* next one waits for a slot. ForgetAbort, ErrorsOnly are plausible        *)
(* mistakes in the definition that follows each of them; only the mutation *)
(* runs use them.                                                          *)
(***************************************************************************)
EXTENDS Integers

CONSTANTS Filters,    \* what the directory can be asked for
          Everyone,   \* the empty filter
          Wall,       \* the voices on the Wall
          Slots

ASSUME PagesAssumption == Everyone \in Filters

VARIABLES tab,     \* the page that is open and its state
          ask,     \* requests under way
          link,    \* the magic link in the reader's mail still works
          hidden   \* the voices the server has taken down

pages == <<tab, ask, link, hidden>>

Names   == {"home", "members", "join", "signin", "verify", "admin"}
Nothing == [what |-> "nothing", for |-> Everyone]
NoAsk   == [of |-> "none", filter |-> Everyone, voice |-> "none",
            at |-> "none", answer |-> "none", items |-> {}, live |-> FALSE]

\* A page as it is mounted; of its fields a page uses its own.
Mounted(name) ==
  [name |-> name, filter |-> Everyone, timer |-> name = "members", list |-> Nothing,
   status |-> "idle", attempted |-> FALSE, verify |-> "waiting",
   gate |-> "checking", voices |-> {}, loaded |-> FALSE, busy |-> "none", removed |-> {}]

PagesTypeOK ==
  /\ tab.name \in Names /\ tab.filter \in Filters /\ tab.timer \in BOOLEAN
  /\ tab.list \in [what : {"nothing", "signin", "some"}, for : Filters]
  /\ tab.status \in {"idle", "working", "done", "error"}
  /\ tab.verify \in {"waiting", "failed"} /\ tab.gate \in {"checking", "allowed", "anonymous", "forbidden"}
  /\ tab.voices \subseteq Wall /\ tab.busy \in Wall \union {"none"}
  /\ link \in BOOLEAN /\ hidden \subseteq Wall
  /\ \A s \in Slots : ask[s].at \in {"none", "sent", "served"}

PagesInit ==
  /\ tab = Mounted("home") /\ ask = [s \in Slots |-> NoAsk]
  /\ link = TRUE /\ hidden = {}

Under(of)      == {s \in Slots : ask[s].of = of}
Asking(of)     == [NoAsk EXCEPT !.of = of, !.at = "sent", !.live = TRUE]
Send(s, asked) == ask[s] = NoAsk /\ ask' = [ask EXCEPT ![s] = asked]

\* A page that is left no longer shows its answers; what remains of a request is
\* what it still does on the server, and the answer to a magic link, which
\* nothing cancels.
Dropped(q) == IF q.of = "verify" \/ (q.of = "hide" /\ q.at = "sent")
              THEN [q EXCEPT !.live = FALSE] ELSE NoAsk
Orphaned == [s \in Slots |-> Dropped(ask[s])]

\* The page without the token that a link carries.
OpenWithoutToken ==
  /\ tab.name # "verify"
  /\ tab' = [Mounted("verify") EXCEPT !.verify = "failed"] /\ ask' = Orphaned
  /\ UNCHANGED <<link, hidden>>

Open(name) ==
  /\ tab.name # name
  /\ tab' = Mounted(name) /\ ask' = Orphaned
  /\ UNCHANGED <<link, hidden>>

-----------------------------------------------------------------------------
(* MemberDirectory                                                           *)

\* The cleanup of the effect: a request that is aborted ends in the catch, which
\* empties the list.
ForgetAbort(t) == ask' = ask /\ tab' = t
Abort(t) ==
  /\ ask' = [s \in Slots |-> IF s \in Under("members") THEN NoAsk ELSE ask[s]]
  /\ tab' = IF Under("members") = {} THEN t ELSE [t EXCEPT !.list = Nothing]

Type(f) ==
  /\ tab.name = "members" /\ f # tab.filter
  /\ Abort([tab EXCEPT !.filter = f, !.timer = TRUE])
  /\ UNCHANGED <<link, hidden>>

TimerFires(s) ==
  /\ tab.name = "members" /\ tab.timer
  /\ Send(s, [Asking("members") EXCEPT !.filter = tab.filter])
  /\ tab' = [tab EXCEPT !.timer = FALSE]
  /\ UNCHANGED <<link, hidden>>

Listed(q) ==
  CASE q.answer = "ok"      -> [what |-> "some", for |-> q.filter]
    [] q.answer = "refused" -> [what |-> "signin", for |-> q.filter]
    [] OTHER                -> [what |-> "nothing", for |-> q.filter]

-----------------------------------------------------------------------------
(* The forms, and the page of the magic link                                 *)

\* The button is disabled while the form is being sent, and gone when it is done.
Submit(s) ==
  /\ tab.name \in {"join", "signin"} /\ tab.status \in {"idle", "error"}
  /\ Send(s, Asking("form"))
  /\ tab' = [tab EXCEPT !.status = "working"]
  /\ UNCHANGED <<link, hidden>>

\* The catch of run: whatever was caught.
ErrorsOnly(answer) ==
  CASE answer = "ok" -> "done" [] answer = "refused" -> "error" [] OTHER -> "working"
StatusAfter(answer) == IF answer = "ok" THEN "done" ELSE "error"

\* The effect of VerifyMagicLink; in development React runs it twice.
Verify(s) ==
  /\ tab.name = "verify" /\ tab.verify = "waiting" /\ ~ tab.attempted
  /\ Send(s, Asking("verify"))
  /\ tab' = [tab EXCEPT !.attempted = TRUE]
  /\ UNCHANGED <<link, hidden>>

\* The link gets too old.
LinkLapses ==
  /\ link /\ link' = FALSE
  /\ UNCHANGED <<tab, ask, hidden>>

-----------------------------------------------------------------------------
(* AdminGate and AdminVoiceList                                              *)

Admitted(answer) == CASE answer = "ok"      -> "allowed"
                      [] answer = "refused" -> "forbidden"
                      [] OTHER              -> "anonymous"

\* Each is asked for once, by the effect of its mount.
AskGate(s) ==
  /\ tab.name = "admin" /\ tab.gate = "checking" /\ Under("me") = {}
  /\ Send(s, Asking("me"))
  /\ UNCHANGED <<tab, link, hidden>>

Load(s) ==
  /\ tab.name = "admin" /\ tab.gate = "allowed" /\ ~ tab.loaded /\ Under("voices") = {}
  /\ Send(s, Asking("voices"))
  /\ UNCHANGED <<tab, link, hidden>>

\* The effects of a page that was mounted run.
Effect(s) == Verify(s) \/ AskGate(s) \/ Load(s)

\* Only the button of the voice that was clicked last is disabled.
TakeDown(s, v) ==
  /\ tab.name = "admin" /\ v \in tab.voices /\ tab.busy # v
  /\ Send(s, [Asking("hide") EXCEPT !.voice = v])
  /\ tab' = [tab EXCEPT !.busy = v]
  /\ UNCHANGED <<link, hidden>>

Without(voices, q) == voices \ {q.voice}

-----------------------------------------------------------------------------
(* The API, and the handling of its answers                                  *)

\* publishedVoices of ModerationService, as one page of them.
PublishedVoices == Wall \ hidden

Reply(s, answer, items) ==
  ask' = [ask EXCEPT ![s] = IF @.live \/ @.of = "verify"
                            THEN [@ EXCEPT !.at = "served", !.answer = answer, !.items = items]
                            ELSE NoAsk]

\* What the server did and what it says. A request may be lost on its way, and
\* has done nothing, or its answer on the way back.
Serve(s) ==
  LET of == ask[s].of IN
  /\ ask[s].at = "sent"
  /\ \/ of \in {"members", "me", "form"}
        /\ \E answer \in {"ok", "refused", "failed"} : Reply(s, answer, {})
        /\ UNCHANGED <<link, hidden>>
     \/ of = "verify"
        /\ \/ link' = FALSE /\ Reply(s, IF link THEN "ok" ELSE "refused", {})
           \/ link' \in {link, FALSE} /\ Reply(s, "failed", {})
        /\ UNCHANGED hidden
     \/ of = "voices"
        /\ \E answer \in {"ok", "failed"} : Reply(s, answer, PublishedVoices)
        /\ UNCHANGED <<link, hidden>>
     \/ of = "hide"
        /\ LET gone == hidden \union {ask[s].voice}
           IN \/ hidden' = gone /\ Reply(s, "ok", {})
              \/ hidden' \in {hidden, gone} /\ Reply(s, "failed", {})
        /\ UNCHANGED link
  /\ UNCHANGED tab

\* The page after an answer, by the request it is an answer to.
After(t, q) ==
  CASE q.of = "members" -> [t EXCEPT !.list = Listed(q)]
    [] q.of = "form"    -> [t EXCEPT !.status = StatusAfter(q.answer)]
    [] q.of = "verify"  -> IF q.answer = "ok" THEN Mounted("home")
                           ELSE [t EXCEPT !.verify = "failed"]
    [] q.of = "me"      -> [t EXCEPT !.gate = Admitted(q.answer)]
    [] q.of = "voices"  -> [t EXCEPT !.loaded = TRUE, !.voices = IF q.answer = "ok" THEN q.items ELSE {}]
    [] q.of = "hide"    -> IF q.answer = "ok"
                           THEN [t EXCEPT !.voices = Without(@, q), !.busy = "none",
                                          !.removed = @ \union {q.voice}]
                           ELSE [t EXCEPT !.busy = "none"]

\* The answer to a magic link whose page was left leads home all the same, off
\* the page that was opened since; a refusal is shown to nobody.
AfterLeft(t, q) == IF q.answer = "ok" /\ t.name # "home" THEN Mounted("home") ELSE t

Answered(s) ==
  LET q    == ask[s]
      next == IF q.live THEN After(tab, q) ELSE AfterLeft(tab, q) IN
  /\ q.at = "served"
  /\ tab' = next
  /\ ask' = [(IF next.name = tab.name THEN ask ELSE Orphaned) EXCEPT ![s] = NoAsk]
  /\ UNCHANGED <<link, hidden>>

\* The browser ends every request, with an answer or with an error.
Settle(s) == Serve(s) \/ Answered(s)

-----------------------------------------------------------------------------
(* What the reader sees                                                      *)

JoinForm(t) ==
  CASE t.status = "done" -> "success" [] t.status = "working" -> "waits"
    [] t.status = "error" -> "the error" [] OTHER -> "the form"

\* It does not show the error.
SignInForm(t) ==
  CASE t.status = "done" -> "success" [] t.status = "working" -> "waits" [] OTHER -> "the form"

VerifyMagicLink(t) == IF t.verify = "failed" THEN "the error" ELSE "waits"

AdminVoiceList(t) ==
  IF ~ t.loaded \/ t.busy # "none" THEN "waits" ELSE "the list"

AdminGate(t) ==
  CASE t.gate = "checking" -> "waits" [] t.gate = "allowed" -> AdminVoiceList(t) [] OTHER -> "the error"

MemberDirectory(t) ==
  CASE t.list.what = "some" -> "the list" [] t.list.what = "signin" -> "the error" [] OTHER -> "empty"

View(t) ==
  CASE t.name = "join"    -> JoinForm(t)
    [] t.name = "signin"  -> SignInForm(t)
    [] t.name = "verify"  -> VerifyMagicLink(t)
    [] t.name = "admin"   -> AdminGate(t)
    [] t.name = "members" -> MemberDirectory(t)
    [] OTHER              -> "the page"

-----------------------------------------------------------------------------
PagesNext ==
  \/ \E name \in Names : Open(name)
  \/ OpenWithoutToken \/ LinkLapses
  \/ \E f \in Filters : Type(f)
  \/ \E s \in Slots :
       \/ TimerFires(s) \/ Submit(s) \/ Effect(s) \/ Settle(s)
       \/ \E v \in Wall : TakeDown(s, v)

PagesSpec == PagesInit /\ [][PagesNext]_pages

-----------------------------------------------------------------------------
(* Properties                                                                *)

\* Once nothing is awaited any more the directory shows members for the filter
\* that is typed, and none of an earlier one; and a voice that the page was told
\* is taken down does not come back to the moderators' list, although two
\* removals may overlap: what a page shows fits what it asks, in whatever order
\* the answers come. (Where a late answer leads is another matter: see below.)
DirectoryShowsItsFilter ==
  tab.name = "members" /\ ~ tab.timer /\ Under("members") = {}
      /\ tab.list.what # "nothing"
    => tab.list.for = tab.filter
TakenDownStaysAway == tab.voices \intersect tab.removed = {}
AnswersFitThePage == DirectoryShowsItsFilter /\ TakenDownStaysAway

\* "Never leave the reader looking at a spinner": a page that waits comes to an
\* answer, a refusal or an error, whatever the requests it made before are at.
NobodyWaitsForever ==
  \A name \in Names \ {"home", "members"} : []<> ~ (tab.name = name /\ View(tab) = "waits")

\* "Show what the server said if it refused".
RefusalIsShown == tab.status = "error" => View(tab) = "the error"

\* The answer to a magic link finds the page that is open still the link's own:
\* it takes nobody off another page.
LinkLeadsOnlyItsPage ==
  [][\A s \in Slots : Answered(s) /\ tab'.name # tab.name => tab.name = "verify"]_pages

\* What the directory's comment on the empty list says.
EmptyIsTrue ==
  tab.name = "members" /\ View(tab) = "empty" => ~ tab.timer /\ Under("members") = {}
=============================================================================
