# A verification project for Peace Seekers

Peace Seekers is a web platform of two parts: an API (`apps/api`, NestJS over
PostgreSQL through Prisma, with Redis beside it) and a site (`apps/web`,
Next.js). Anyone may leave a *voice* for peace; members may open a *case* with
somebody they are in conflict with and be led through it by a facilitator.
Several replicas of the API serve the same database. There are no queues and
few explicit transactions: nearly every handler is a chain of awaits, each one
a statement that the database commits on its own, and nearly every rule is a
read in an early statement that a later statement relies on. That gap, and a
process that stops inside it, is what these modules are about.

Paths below are relative to the repository; `path/` is
`apps/api/src/modules/path/`, `voice/` is `apps/api/src/modules/voice/`.

## 1. Inventory

| Component | State it keeps | Operations | Interacts with | What is hard |
|---|---|---|---|---|
| **The Path** (`path/`) | cases, case_parties, case_statements, case_invites, case_follow_ups | open, invite, respond (accept, decline, route out), withdraw, submit, release, view, advance, schedule follow-ups; publication consent, fairness | mail, audit log, retention worker, statistics | every handler reads, then writes; an invitation that outlives its case; two facilitators; crash between closing and follow-ups |
| **The Voice** (`voice/`) | voices, voice_counter, country_presence; the cached count | submit, withdraw, wall; adjust, get, reconcile, invalidate | moderation, deletion worker, Redis, mail | one number kept by increments from three services; a transaction at read committed; cache invalidation |
| **Moderation** | moderation_decisions, reports, appeals | report, decide, queue; open and resolve an appeal | voices, posts, users, counter, audit | change first, record afterwards; no state is final |
| **Accounts** (`auth/`, `members/`) | users, credentials, sessions, magic_link_tokens, deletion_requests | register, sign in, consume a link, revoke; hide presence, request deletion | mail, audit, deletion worker | one-time use of a link; status written by several handlers |
| **Workers** (`retention/`) | none of their own | purge invitations, tokens, sessions, address hashes; delete accounts | everything with a date | run on every replica; fail half-way and are retried hourly |
| **Audit log** | audit_logs, append-only by trigger | record, list | all handlers | written last, in a statement of its own |
| **Live counter** (`voice/voice.gateway.ts`, `redis/`) | cached count per process and in Redis, open sockets | get, invalidate, publish, fan out, heartbeat | counter, browser | stale values set after an invalidation; no ordering across channels; connections that die silently |
| **Browser** (`apps/web/src/lib`, `hooks`) | the offline queue in localStorage, one socket, the shown count | enqueue, flush; connect, retry, watchdog; fold frames | API | tabs share the queue, not the lock; lost responses; late close events |
| **Rate limiting and guards** | Redis keys, in-process map | increment, fall back; session, role, origin and prohibited-field checks | Redis, every handler | two commands that are not one; the depth limit of a recursive search |
| **Community** | circles, memberships, posts | create, join, leave, update, post, list, reply | moderation, members | a membership read before the write it allows; paging while posts come and go |
| **Media** | objects in a store, media_assets, a working directory | strip, store, enter, attach, serve, remove | voices, moderation, deletion worker | object and row are written separately; every step of the stripping may fail |
| **Pages** (`apps/web/src/components`) | the state of what is shown | fetch, type, submit, verify, take down | API | answers in any order, effects that run twice, errors that must be shown |
| **The Wall** (`voice.service.ts` `wall`, `shuffle.util.ts`, `LiveWall.tsx`) | a window of voices, a seed per reader and day, a cached page | shuffle, page, render, add what arrives | voices, socket | a fair order that stays put while the Wall moves |
| **Feature flags** | a table, a copy in each process | all, set | all | a copy stored after it was dropped |
| **Build checks** (`apps/web/scripts`) | photographs, their renditions, a manifest; the catalogues of four languages | render, check | the site's pages | a build that stops half-way; staleness told from times of change |
| **Statistics, mail, health, content** | snapshots, or none | reads | all | little |

What makes them correct:

* **The Path.** Both statements of a stage are released together or neither
  (D-2); nobody sees the other's words before giving theirs (D-2, D-3); a case
  passes every stage, both heard in each (D-4); an active case has two
  consenting parties (D-1); a closed case is followed up (D-4); whoever consents
  last to publication is told that both do (D-6); the audit log is true.
* **The Voice.** Each voice on the Wall is counted once and no other (A-4); the
  breadth figure only counts countries heard from; a takedown is on record
  (M-2); no voice is privileged in the order in which the Wall is drawn (A-5).
* **Live counter and browser.** What is shown is stale by at most two lifetimes
  and goes back no further than the stamps mislead it; a page that listens is
  connected, and dead connections are dropped while working ones are not; a
  voice that is kept is sent.
* **Accounts and workers.** A link works once; who is barred stays barred; what
  a member asked to be removed is removed, file and row.
* **Moderation.** The last decision on record is what is shown, and the records
  agree with each other (M-2, M-3).
* **The rest.** The throttle admits no more than its limit and locks nobody out
  for good; flags reach every instance; members write only where they are
  members; lists are whole; nothing is stored with its metadata (S-3); hidden
  members are not shown (S-10); no page waits for ever.

`PROJECT.json` lists every component, the hazards of the whole system at their
lines with the properties that cover them, and which source lines each
definition models.

## 2. Modules

### PathCase: one case of The Path

State: `case` (status, stage, deadline, closedAt), `invite`, `parties`,
`withdrawn`, `statements`, `released`, `followUps`, `audit`; `seen` is a history
of what `view` has shown to whom; `req` holds the requests in flight, each a
handler standing at one of its awaits with what it read; `crashes` counts
requests cut short. A stage is its position in `CASE_STAGES`.

| Code | Actions |
|---|---|
| `CasesService.open`, `CaseInvitesService.invite` | `OpenCase`, `CreateInvite`, `SendInvite` (the mail may fail), `RecordAudit` |
| `CaseInvitesService.respond` | `ReadInvite`, then `AcceptInvite` (one transaction, refused by the unique key or the two-party trigger), `DeclineInvite` or `RouteOut` |
| `CasesService.withdraw` | `ReadParty`, `WithdrawParty`, `RecordAudit` |
| `StatementsService.submit` | `CheckSubmission`, `CreateStatement`, `RecordAudit` |
| `StatementsService.release` | `CountStatements`, `ReleaseStage`, `RecordAudit` |
| `StatementsService.advance` | `ReadStage`, `CheckReleased`, `WriteStage`, `ScheduleFollowUps`, `RecordAudit` |
| `StatementsService.view` | `ReadCase`, `ShowCase` |
| the clock; `RetentionWorker.purgeStaleInvites` | `WindowCloses`, `InviteExpires`, `PurgeStaleInvites` |
| a process that stops | `Crash` |

A Prisma read with an `include` is one query per relation, so `advance` and
`view` read the case row first and its statements later; this is two steps.
Two reads are merged with the read of the case before them: `requireParty` and
the search for an existing statement in `submit`. A party row is never deleted
(deleting its user would have to update that user's audit entries, which the
append-only trigger refuses), and the unique key on statements decides again
when the row is created, so a later read could not change the outcome.
An out-of-scope intake (`Assess`) leaves no row and is no step. `Understood` is the
set of cases that the statistics report as an understanding reached.

### VoiceLedger: the voices and their count

State: `voice` (status and country of each row), `counter`, `presence` (the
committed rows of country_presence), `mailed` (withdrawal links that went out),
`decisions`, `audit`, `req`; the history variables are `unrecorded` (decisions
that took effect and got no row), `net` (what each voice has added to the total)
and `drifted` (voices whose adjustment was lost with a
crash or a failed transaction, judged by a status that had changed since it was
read, or skipped by the deletion worker).

| Code | Actions |
|---|---|
| `VoiceService.submit` | `Submit`, the four steps of adjust, `AnnounceVoice`, `SendWithdrawalLink` |
| `VoiceService.withdraw` | `ReadByToken`, `WriteStatus`, adjust |
| `ModerationService.decide`, `applyToTarget` on a voice | `ReadTarget`, `WriteStatus`, adjust, `RecordDecision` (which the foreign key may refuse), `RecordAudit`; `DismissReport` changes no voice |
| `VoiceCounterService.adjust` | `LookForCountry`, `InsertCountry`, `CountCountries`, `CommitAdjust` |
| `DeletionWorker.purge` with REMOVE | `RemoveVoicesOfMember` |
| a process that stops | `Crash` |

`adjust` is a transaction at read committed, PostgreSQL's default: each
statement sees what others have committed, an insert waits for another open
transaction's insert of the same key (`Contended`), and the upsert of the
counter row with its increment is atomic, so it and the commit are one step.
The upsert of a country has an empty `update`; Prisma may leave it to the
database or read first and insert, and in the second form a concurrent insert
fails the transaction: `InsertCountry` allows both outcomes.
The report a decision answers comes from the query string and nobody looks it
up; a row that names one which does not exist is refused after the voice was
changed, so `RecordDecision` may fail whenever it runs. The words of a voice and
its media are not in the model; whether it came with
media is the choice between PENDING and PUBLISHED. Decisions on other targets
are in `Moderation` and `Accounts`; `reconcile`, which nothing calls, is left out.

### SealedExchange: what a case promises

Three variables and three actions: in each round two sides write under seal
(`Write`), both seals are broken in one step after both have written (`Open`),
and whoever reads what was opened has written in every opened round (`Read`).
No handler, await, case row or request is in it. `PathCase` instantiates it with
`said <- statements`, `opened <- released`, `heard <- seen`; `ExchangeIsSealed`
says that every behaviour of the handlers is one of the exchange. It says more
than the invariants: no statement is added to a stage after its release, both
releases are one step, and a stage is never read in part.

### LiveCounter: how the number reaches a reader

State: `row` (the committed count with its place in the order of commits and the
time its client stamped; `latest` is the latest stamp so far), `redis` and
`local` (the two copies, with their age), `up` (Redis can be reached), `call`
(calls of `get` and `adjust` at their awaits), `clients` and `shown` (connected
pages and their figure); `replaced` and `unordered` (the counts whose stamp is
not after every stamp before them) are histories. A stamp is what the clock of
the sending process reads, in milliseconds, which the column keeps: `Adjust`
takes any reading, so two stamps may be equal or come in any order.

| Code | Actions |
|---|---|
| `VoiceCounterService.adjust` | `Adjust`, `Commit`, `Invalidate`, `DeleteCached`, then `get` |
| `VoiceCounterService.get` | `Read`, `ReadCached`, `ReadRow`, `FillCache`, `KeepLocal`, `Answer` |
| `VoiceGateway` connection, fan-out, disconnection | `Connect` (the page is a client before its greeting is read), `Answer` over `Recipients`, `Disconnect` |
| `RedisService`, the lifetimes | `LoseRedis`, `RecoverRedis`, `Tick` |
| `useVoiceStream` | `Newer` |

The transaction inside `adjust` is `VoiceLedger`'s; here it is its commit. Two
assumptions: a call takes far less than one tick of the clock, so the clock does
not strike between reading a row and keeping its copy; and a frame under way may
as well have arrived, because a page handles frames in the order they were sent.

### LiveSocket: one socket per page

State of the page: `listeners`, `socket`, `retry`, `orphans` (timers nothing
refers to any more), `watchdog`; of each socket, `sock`: how it looks to the
page, whether its link carries anything, whether the gateway has it in `clients`
and in `alive`. `Subscribe`, `Unsubscribe`, `RetryFires`, `ReviveNow`,
`CloseEvent`, `WatchdogFires`, `Opens` are `lib/voice-socket.ts`;
`HandleDisconnect`, `Sweep`, `BufferOverflows`, `ServerRestarts` the gateway;
`LinkDies` the network. The clock is the gateway's heartbeat: what is sent over
a live link arrives before the next one, and 70 seconds of silence are three.

### OfflineQueue: from the form to the Wall

State: `store` (the queue in localStorage), `tab` (where each tab's drain
stands, and a write that follows a reading), `form`, `link`, `published`,
`withdrawn`. Forms (`Submit`, `ServeForm`, `Answered`), draining (`Flush`,
`SendNext`, `ServeDrain`, `Settle`, `PutBack`, `Write`), the page of the
withdrawal link (`OpenLink`, `ServeLink`, `LinkAnswered`) and `CloseTab`.
localStorage has no lock: between a tab's reading and its writing other tabs may
write, the tab itself may not. Answers may be lost after the server has acted.

### Accounts: from joining to deletion

State: `user`, `link`, `session`, `voice` (what the member wrote), `object` and
`row` (uploads in storage and in the table), `req` (requests at their awaits),
`worker` (each instance's purge).

| Code | Actions |
|---|---|
| `AuthService.register`, `requestMagicLink` | `Register`, `CreateUser`, `Record`, `RequestMagicLink`, `Issue` (the mail may fail) |
| `verify`, `MagicLinkService.consume` | `Verify` (the reading), `Burn`, `Prove`, `Start` |
| `login` | `Login`, `Start` |
| `SessionService.resolve` and what it lets in | `Resolve`, then `SetPassword`, `Revoke`, `SetPresenceHidden`, `RequestDeletion`, `Speak`, `PutObject`, `CreateAsset`, `SignOut` |
| a decision about a member | `Suspend` |
| `DeletionWorker` on every instance | `BeginPurge`, `PurgeVoices`, `RemoveObjects`, `DeleteRows`, `DeleteUser` |
| `RetentionWorker`, the clock | `PurgeExpiredTokens`, `PurgeSessions`, `ExpireLink`, `ExpireSession`, `MonthPasses` |
| a process that stops | `Crash`, `CrashWorker` |

`recorded` says that the audit log names the member: then the trigger refuses
`DeleteUser`.

### Moderation: decisions, reports, appeals

State: `status` of the targets, `report`, `decisions`, `appeal`, `audit`, `req`.
The statements of `decide` are the sequence `DecideSteps` (`ApplyToTarget`,
`RecordDecision`, `SettleReport`, `Audit`), those of an answer `AnswerSteps`,
those of an appeal `AppealSteps`; `Fail` cuts a request short. `Queue` says what
a moderator's pages list.

### Ten small parts and their compositions

| Module | Models | Left to the other modules |
|---|---|---|
| `Throttle` | `RedisThrottlerStorage.increment`, three round trips that fail one by one, expiry, restarts, the in-memory fallback; the guards after it as predicates | what the handlers do |
| `Flags` | `FlagsService.all` and `set` on several instances | |
| `Community` | `CirclesService`, `PostsService.create` and `list` | names beside posts are in `Presence`, decisions in `Moderation` |
| `Pages` | directory, forms, magic-link page, moderators' gate and list: requests lost, served and answered in any order, effects, cleanup where there is one | |
| `WallPages` | the shuffle, the window and its pages, the cached page and what arrives on it, attribution on the cards | the socket |
| `Consent` | `setPublicationConsent`, `rateFairness` | |
| `Uploads` | stripping, storing, entering, attaching, serving | removal is in `Accounts` |
| `Presence` | profile, directory, names beside posts and replies; the switches of the member and of moderation | |
| `Photos` | `optimize-photos.mjs` at its awaits, `check-photos.mjs`, the people and the checkout that change files between them | |
| `Catalogues` | `check-messages.mjs` over any catalogues and call, `load-messages.ts` and the fallback of `request.ts` | |

They share nothing, so two runs check them: `MCProgress` the throttle, the flags
and the pages, which promise what happens in the end, with the fairness that
asks for, and `MCSite` the other seven. `part`, chosen at the start, names the
one that moves, and the variables of the others keep their initial values. The
reachable states are the union, not the product, of theirs.

In `Pages` a page that is left drops the answers of requests that its cleanup
aborts or that only it would show. The magic-link page has no cleanup: its answer
comes all the same and leads home (`AfterLeft`). In `Photos` an original may be
narrower than every width (`Narrow`): then nothing is rendered of it, and the
check has nothing to compare; of the renditions only the narrowest has a time,
as nobody asks for another's (`Dated`). In `Catalogues` a message may be null, which is a
key that is there and no text. In `Presence` a member starts as the schema does,
members-only.

Steps merged where nothing can tell: `join` (nothing undoes a circle between its
two statements), `update` of a circle (only a steward's own leaving undoes what
`assertSteward` saw), the guards' answer (chosen when it is needed; nothing looks
at a request before). In `WallPages` the reader is a client that pages or one
that has the page open, not both. In `Photos` the two formats of one width are
one rendition; in `Catalogues` there is one call, as the check judges each alone,
and what a page shows for an empty message is how next-intl is used.

The `MC` modules instantiate the others for TLC and define symmetry sets.
Operators named in a module's header as plausible mistakes are the mutated forms
of the definitions after them and are used by nothing else.

## 3. Runs

| Run | Instance | What it shows |
|---|---|---|
| `CaseConcurrent` | 3 members, 2 requests, 4 stages | every interleaving of two handlers keeps `ReleasedTogether`, `SpeakBeforeHearing`, `NoStageSkipped`, `ActiveHasTwoParties`, `AuditIsTrue`, `ClosedMeansHeard`; and the refinement `ExchangeIsSealed` |
| `CaseLiveness` | 2 members, 1 request, 4 stages, 1 crash before the case is active | `ActiveCaseProceeds`, `ClosedIsFollowedUp` |
| `LedgerConcurrent` | 2 voices, 2 countries, 3 requests, 1 crash | `CountsWhatIsPublished`, `TotalMatchesWall`, `BreadthIsHeard`, `TakedownIsRecorded` |
| `LedgerCounted` | 2 voices, 1 country, 3 requests, no counter row | `EveryVoiceIsCounted`: no wait on another's insert lasts for ever |
| `LiveCounter` | 2 instances, 1 page, 2 calls, lifetimes of 2 ticks, 2 adjustments, clocks that read 1 or 2, 1 outage | `ServedWithinTwoLifetimes`; `FigureMovesForward`: a page leaves a count for an older one only where the stamps mislead it |
| `LiveSocket` | 2 listeners, 3 sockets, 2 faults | `HealthyStays`, `ListenerIsHeard`, `DeadClientIsReaped` |
| `OfflineQueue` | 2 tabs, 2 voices, one refused by the server, 2 faults | `NeitherLostNorDoubled` (`KeptUntilSettled`, and `PublishedOnce` and gone once withdrawn), `QueueDrains` |
| `Accounts` | 1 address, 2 requests at a time, 5 in all, 2 workers, 2 faults | `LinkWorksOnce`, `BarStands`, `FilesAreAccountedFor`, `DueIsPurged` |
| `Moderation` | 1 story, 1 other target, 2 moderators, 2 requests at a time, 3 in all, 1 cut short | `LastDecisionStands`, `RecordMatchesDeeds` |
| `Site` | seven small parts, see `Site.cfg` | eight properties, one or two of each part |
| `Progress` | throttle, flags and pages, see `Progress.cfg` | `AdmittedWithinLimit`, `LockoutEnds`, `FlagsCatchUp`, `AnswersFitThePage`, `NobodyWaitsForever` |
| `AccountNotDeleted` | as `Accounts` | `RequestedIsDeleted` is violated: an account the audit log names is never deleted |

Why the bounds are enough. *CaseConcurrent*: a case has two parties, and a third
holder of the link is what the trigger has to stop; the hazards are pairs (one
handler between its read and its write, another that changes what was read), so
two requests in flight reach them; four stages give two that are spoken in, so
that a stale advance meets a case that has moved on. The proofs of section 5
remove these bounds, and allow any crashes. In *CaseLiveness* a request may be
cut short before the case is active (`CutShortEarly`): what it leaves undone
keeps nobody from going on. *LedgerConcurrent*: two voices and two countries are
needed for two transactions that count each other's country or not; the third
request overlaps with both. Each element of `Requests` is one request served
once, which bounds the counter; a run ends when all are served (`AllServed`),
and any other halt is reported as a deadlock. *LiveCounter*: a copy travels from
the row through Redis to a process, so two calls, two instances and a lifetime
longer than one tick reach the longest staleness, which no stamp has a part in;
two adjustments and two readings of a clock give stamps in order, out of order
and equal. To keep the run small copies get old where all clocks read 1, and the
readings differ among fresh copies (`EitherVaries`). *LiveSocket*: an old
socket, its successor and the one a late close event opens. *OfflineQueue*: two
tabs overlap, and a refused voice travels with a good one. *Accounts*: the
hazards are pairs of requests, or one request and the worker, or two workers;
joining, proving the address and asking for deletion leave two arrivals for what
interferes. *Moderation*: two decisions about one post and an appeal or a third
decision. *Progress* and *Site*: a limit of one is passed by two calls; two
posts written in one or two milliseconds and pages of one; the shuffle draws
from four values, which do not divide evenly over three places, as 2^32 do not
over the places of a window of 500; a photograph of two widths can be half
rendered, and its time differ by more than the second of slack; of two languages
one is the reference, and of two namespaces one may have what is asked of the
other.

Some properties carry a proviso that names a history variable (`drifted`,
`mixed`, `raced`, `late`, `shared`, `doubted`, `cut`, `left`, `unordered`,
`unseen`): the code makes no claim where two requests have overlapped in that
particular way, or one was cut short at that step. Each is set only by the step
that creates the situation, and the property speaks of every state without it.
`CHECK_DEADLOCK FALSE` stands where the system may come to rest: the bounded
arrivals are used up, a queue is empty, a page is left open.

### Configurations that reproduce a disagreement

The listed run `AccountNotDeleted` and the configurations below end in a
counterexample: the code and what its comments, documentation or pages say do
not agree. Each is run with the module named; where one names several properties
`-continue` shows them all, or TLC ends at the first, and those already seen are
taken out to see the next. `PROJECT.json`
quotes the lines.

| Configuration (module) | What the code does | What the repository says |
|---|---|---|
| `CaseFindings` (`MCPathCase`) | the invitation is accepted after the opener withdrew, and the case is active | D-7, withdrawal at any stage (`path/cases.service.ts:59`) |
| `CaseFindings` (`MCPathCase`) | `advance` closes a withdrawn case, and the statistics count it as an understanding | the same, and `stats.service.ts:37` |
| `CaseFindings` (`MCPathCase`) | no handler reopens a window that has passed | "Your facilitator can reopen it." (`path/symmetry.service.ts:37`) |
| `CaseFindings` (`MCPathCase`) | a case that was stopped as out of scope is accepted by a second answer | "it stops the case" (`path/scope-routing.service.ts:18`) |
| `LedgerFindings` (`MCVoiceLedger`) | a transaction writes an older count of countries after a newer one | "the breadth figure only ever grows" (`voice/voice-counter.service.ts:72`) |
| `LedgerFindings` (`MCVoiceLedger`) | a takedown that names a report which does not exist is carried out, and its decision refused | "log which rule was invoked, every time" (`moderation.service.ts:104`) |
| `LedgerFindings` (`MCVoiceLedger`) | a moderator's APPROVE publishes a withdrawn voice | "It cannot be undone" (`apps/web/messages/en/voice.json:49`) |
| `LedgerFindings` (`MCVoiceLedger`) | two uses of one link that overlap decrement twice | the voice leaves the count (same line; A-9 in `docs/REQUIREMENTS.md:40`) |
| `LedgerFindings` (`MCVoiceLedger`) | REMOVE withdraws the voices without calling `adjust` | adjust is "called when a Voice is published or withdrawn" (`voice/voice-counter.service.ts:69`) |
| `LiveFigureTicksDown` (`MCLiveCounter`) | of two commits the later carries the earlier stamp, or the same | "Never let the figure go backwards" (`hooks/use-voice-stream.ts:23`) |
| `SocketDoubled` (`LiveSocket`) | a late close event makes the page forget its newer socket | "One WebSocket for the whole page" (`lib/voice-socket.ts:21`) |
| `QueueFindings` (`OfflineQueue`) | two tabs read the queue before either empties it | two open tabs are what the single flight prevents (`lib/voice-queue.ts:57`) |
| `QueueFindings` (`OfflineQueue`) | a voice the store refused is said to be kept, and is nowhere | "must not make a submission vanish silently" (`lib/voice-queue.ts:24`) |
| `AccountAddressUnproved` (`Accounts`) | a password signs in before the address is proved | "the member proves the address first" (`auth/auth.controller.ts:32`) |
| `ModerationFindings` (`MCModeration`) | decisions about circles, events, messages and media change nothing | "one decision path for every kind of target" (`moderation.service.ts:102`) |
| `ModerationFindings` (`MCModeration`) | a hidden post is in no list | "Anything a moderator may act on has to be findable" (`moderation.service.ts:75`) |
| `PagesFindings` (`Pages`) | the directory says that nobody matches while it asks; the sign-in form does not show a refusal | `MemberDirectory.tsx:28`, `use-submit.ts:10` |
| `PagesFindings` (`Pages`) | the answer to a magic link whose page was left takes the reader off the page opened since | nothing; the effect has no cleanup (`VerifyMagicLink.tsx:23`) |
| `WallFindings` (`WallPages`) | a voice is on two pages of one Wall; a voice is below and above | `shuffle.util.ts:7`, `LiveWall.tsx:80` |
| `WallFindings` (`WallPages`) | only the newest are drawn for the first page: an older voice stands first for nobody | "no voice is placed above another" (`apps/web/messages/en/voice.json:14`) |
| `MediaNotServed` (`Uploads`) | the recording of an approved voice is not served | `media.controller.ts:32` |
| `PresenceFindings` (`Presence`) | a profile is shown that was at no moment both open and present; replies name who hides | `members.service.ts:40`, `posts.service.ts:75` |
| `PhotosFindings` (`Photos`) | a stale photograph passes after a checkout, where a build stopped half-way, and in the place of one narrower than 480 pixels | "This closes that hole" (`scripts/check-photos.mjs:14`) |
| `PhotosFindings` (`Photos`) | where a narrow original replaces a wide one the check complains after every build | "run npm run photos:build" (`scripts/check-photos.mjs:62`) |
| `CataloguesFindings` (`Catalogues`) | a null passes, and is shown in English or as nothing | "no key is present but empty" (`scripts/check-messages.mjs:17`) |
| `CataloguesFindings` (`Catalogues`) | a key that another namespace of the file has passes, and is shown as nothing | what exists nowhere "is the failure that reaches a reader" (`scripts/check-messages.mjs:91`) |

Found by inspection only: the search for prohibited fields stops at depth 6; the
list of voices for moderators fetches the first hundred; the statement after a
successful deletion updates a row that has gone with it.

## 4. Fairness

*PathCase, VoiceLedger.* `FairSpec` asks weak fairness of each request's own
continuation: Node runs a handler to its end unless the process stops, and the
runs of liveness allow no crash, or none once the case is active. `DiligentSpec`
adds what people do, with strong fairness because other requests may hold the
slot in between: the facilitator keeps asking to release and to advance, each
party keeps trying to give its statement. `ActiveCaseProceeds`, which needs it,
is about the system not blocking people who do their part. With a crash after
that `ClosedIsFollowedUp` fails: closing the case and scheduling its follow-ups
are two statements, and `advance` is refused ever after.

*LiveSocket.* Events of a socket are delivered in the end, timers fire, and the
gateway sweeps; the faults are bounded, and nobody has to come or to leave.

*OfflineQueue.* Requests are answered, a page runs on, and a page of the site is
opened again as long as the queue holds a voice (`Flush`); that a drain begins
is up to a person, and the queue makes no promise to one who never returns.

*Accounts.* Only the workers: the cron fires every hour on every instance and
goes on to its end. Nothing is asked of people. The fairness condition leaves
out steps that would begin a request, so that it holds with any of them.

*Progress.* Requests that have begun proceed, keys and copies get old, Redis comes
back, and a client that was refused comes again (`LockoutEnds` is about the hit
that gives a key its lifetime: without another hit nobody is locked out);
requests of a page are settled, and its effects run.

## 5. Proofs

Every invariant and every action property that a passing run checks is a theorem
for all values of the constants, and so is the refinement: what stays with TLC is
liveness alone. No theorem assumes fairness, and none assumes more of the
constants than the `ASSUME` of its module.

They are proved in one way. What makes a write safe is what its handler read some
awaits earlier, which no invariant of the runs says; each inductive invariant
therefore states, for a request standing at each of its awaits, what it may still
rely on, and the work is to show that no step of anybody else takes that away.
Most of the lemmas say what an action changes and what it leaves; one per action
shows that it keeps the invariant. TLC checked the larger invariants on small
instances before they were proved.

### The Path

`PathCaseProofs` proves, for any finite set of members, any set of requests in
flight, any list of at least three stages and any number of crashes:

| Theorem | Statement |
|---|---|
| `TypeCorrect` | `Spec => []TypeOK` |
| `ReleaseSymmetry` | `Spec => []ReleasedTogether` |
| `NobodyHearsFirst` | `Spec => []SpeakBeforeHearing` |
| `EveryStageHeard` | `Spec => []NoStageSkipped` |
| `UnderstandingIsHeard` | `Spec => []ClosedMeansHeard` |
| `ActiveIsMutual` | `Spec => []ActiveHasTwoParties` |
| `AuditNeverForged` | `Spec => []AuditIsTrue` |
| `Refinement` | `Spec => ExchangeIsSealed` |

The invariants are not inductive: what makes a write safe is something its
handler read earlier. `IInv` adds `Knowledge`: the case never has three parties
(`AtMostTwo`), statements belong to parties (`Rows`), and each request in flight
knows (`ReqKnows`) a fact that no other request can undo: a release in flight
knows that both have spoken, an advance in flight knows that every stage before
the one it read is complete and, past its check, that one too. The argument is
that parties, statements and releases only grow (`StepGrows`), so such facts
stay true while the request sleeps (`KnowledgeStays`, `CompleteStays`); hence a
stale `advance` can set the stage back but never past an incomplete one.
Cardinalities are turned into two named elements once (`TwoStatements`,
`TwoParties`) and not used after that. Assumptions: `Users` is finite,
`StageCount` is a natural number of at least 3, `MaxCrashes` is a natural number.

For the audit log, `AuditKnows` says that a request about to be audited has
made the change its entry will name, and `HappenedStays` that no change named by
an entry is undone. `Refinement` maps `CreateStatement` to `Write`,
`ReleaseStage` to `Open` and `ShowCase` to `Read`, and every other step, a crash
included, to a stutter; each guard of the exchange follows from `IInv`.

### The count

`VoiceLedgerProofs` proves, for any voices and members' voices, any finite sets
of countries and of requests, a counter row seeded or not, and any number of
crashes:

| Theorem | Statement |
|---|---|
| `TypeCorrect` | `Spec => []TypeOK` |
| `EachVoiceCountedOnce` | `Spec => []CountsWhatIsPublished` |
| `BreadthNeverOverstated` | `Spec => []BreadthIsHeard` |
| `TakedownHasItsDecision` | `Spec => []TakedownIsRecorded` |
| `TotalIsTheWall` | `Spec => []TotalMatchesWall` |

`IInv` adds to these what a request in flight knows (`InFlightKnows`: it carries
a delta exactly while its transaction is open, and its voice exists; `TxKnows`:
past the insert, the country of the voice it adds is committed or its own).
`KnowledgeKept` shows that another request's step takes none
of it away, because rows of presence, decisions and voices only grow
(`NextRowsGrow`). For the count, `OneShareMoves` reduces the two cardinalities
to the one request that moves: what a step changes of a voice's share of the
total, of that request's own delta and of the Wall must balance (`CountKept`),
which `CountStep` shows action by action. `TakedownStep` follows a takedown in
the same way: whoever puts a voice down is on the way to recording it, and ends
with a row, or in `unrecorded`; an approval, a withdrawal or another takedown that
comes between them changes what is down, not who decided it. Assumptions: `Countries` and
`Requests` are finite, `Seeded` is a Boolean, `MaxCrashes` a natural number.

`TotalIsTheWall` is about the figure itself. A sum over the voices would need an
induction over a set; instead, the total is counted one voice at a time:
`Above` and `Below` hold one pair for each unit that a voice has added to the
total or taken from it, and `TotalIsTheSum` says that the total is the difference
of their sizes. `SumStep` shows that a commit adds or takes one such pair, and
`SumIsTheWall` that where the Wall's voices have a share of one and the others
none, the pairs are the Wall. The attempt found the property false without
`Seeded`: where no row is there yet, an adjustment creates it with
`Math.max(delta, 0)`, so that a withdrawal that comes first is lost. The
`prisma/seed.ts` creates the row, and the property now says so.

### From the count to a page

`LiveCounterProofs` (any instances, pages, calls, lifetime and number of changes
and outages), `LiveSocketProofs` (any listeners and sockets, any patience of two
heartbeats or more) and `OfflineQueueProofs` (any tabs, voices and refused voices):

| Theorem | Statement |
|---|---|
| `LiveCounterProofs!TypeCorrect` | `Spec => []TypeOK` |
| `StaleForTwoLifetimes` | `Spec => []ServedWithinTwoLifetimes` |
| `FigureNeverGoesBack` | `Spec => FigureMovesForward` |
| `LiveSocketProofs!TypeCorrect` | `Spec => []TypeOK` |
| `ConnectionsLast` | `Spec => HealthyStays` |
| `OfflineQueueProofs!TypeCorrect` | `Spec => []TypeOK` |
| `PublishedAtMostOnce` | `Spec => []PublishedOnce` |
| `NeverLost` | `Spec => []KeptUntilSettled` |
| `Delivers` | `Spec => []NeitherLostNorDoubled`, the two together |

*LiveCounter.* `CopiesAreYoung` bounds the age of a copy by the way it came: a
call that has read the row still has what is current, a copy in Redis was
current when it was put there, and a copy in a process was so less than a
lifetime before, hence two lifetimes less one tick. `StampsTellOrder` says that a
count which was stamped after all before it bears a later stamp than each of them,
wherever the two counts are: in the row, a copy, a call or on a page. So a page
that shows it accepts nothing older, and the counts that it may leave are those in
`unordered`. `CountsAreKnown` says that none of them was never committed, and
`EachCommitsOnce` that statements are numbered as they are committed.

*LiveSocket.* `HeardOf`: since a socket that works was last heard, the watchdog has
counted at most one heartbeat, and none if the socket has answered the last ping.
So neither the sweep nor the watchdog, whose patience is at least two, ends it.
The run's property used to allow for a page whose socket is another one; the proof
does not need that, so the proviso and its history variable are gone.

*OfflineQueue.* For a voice that was neither doubted (its answer was lost) nor shared
(two tabs had read it before either wrote): `HeldOnce`, the queue and the tabs
hold it once between them, so that whoever carries it has taken it out or is
about to; `SentOnce`, once it is on the Wall nobody holds it any more;
`FormsFirst`, it came by its form; `LinksTold`, it is off again once its link
has been answered; `DrainsInOrder`, a drain sends only after its claim is written.

That none is lost is about every voice, the doubted and the shared ones too, so
it rests on what a drain may forget (`NothingForgotten`): a drain that has not
begun carries nothing, one that ends has nothing left to send, an answer says
what became of the voice that was sent, and what a tab has read of the queue is
in what it is about to write, or in hand. `KInv` joins it to the rest. Each
action then either holds every voice it held or settles the one it lets go of
(`StillKept`); the two writes that let go of more, over a queue that another tab
has changed and of a store that is full, are the ones `cut` records. In the code
the second is silent: `writeQueue` swallows the refusal, so a voice
put back to a full store is gone.

### Accounts and moderation

`AccountsProofs` (any members, requests, links, sessions, files and workers) and
`ModerationProofs` (any posts, other targets, reports, appeals, moderators and
requests), any number of arrivals and failures:

| Theorem | Statement |
|---|---|
| `AccountsProofs!TypeCorrect` | `Spec => []TypeOK` |
| `LinksWorkOnce` | `Spec => []LinkWorksOnce` |
| `FilesAccounted` | `Spec => []FilesAreAccountedFor` |
| `BarHolds` | `Spec => BarStands` |
| `ModerationProofs!TypeCorrect` | `Spec => []TypeOK` |
| `PostsShowTheirLastDecision` | `Spec => []LastDecisionStands` |
| `RecordsAreTrue` | `Spec => []RecordMatchesDeeds` |

*Accounts.* `LinksKnown`: a link that will be sent is nobody else's; one that was
not raced is held by one request at most, by none once it has begun a session,
and as long as it is unused its holder has not burned it. `UploadsKnown`: an
upload under way has its key to itself, before the object is put and before its
row is there. `WorkersKnow`: what a worker has found is out of storage, or
stayed there through a failure. `LateIsKnown`: a request that was let in before a
bar is marked. `Rows`: rows belong to members. Assumed: the values that stand for
nobody, no link and no file are none of them. The proof of `FilesAccounted` found
one case missing in the model: `DeleteUser` takes the member's rows with it, also
of an upload that came after the worker had looked, so that object is left.

*Moderation.* `PostsStand`: a post shows what its last recorded decision says, or
what the one request says that has changed it and not recorded why, unless two
overlapped (`mixed`, which `OneAtATime` ties to the requests) or one was cut short
there. `TracesAreLeft`: a recorded decision is in the log and its report out of
the queue, or a request is still to do it; and a settled report has a decision.
`AppealsStand` says the same of appeals. `ComesAfter` and `DecisionsAreKnown` say
that what a request names was there before and is still what it named.
`RequestsAreCounted` bounds the decisions by the arrivals. Assumed: stories are
posts, the other targets are not, and "none" is no report.

### The small parts

`SiteProofs`, one theorem or two about the specification of each part alone:

| Theorem | Statement | Rests on |
|---|---|---|
| `LimitHolds`, `ThrottleTypeCorrect` | `ThrottleSpec => []AdmittedWithinLimit`, `[]ThrottleTypeOK` | `CountedFirst`: a place has admitted at most what its counter shows, in Redis and in each instance; a request under way to Redis knows the instance that would count it instead. A count at its cap is above the limit (`OneMoreCounts`) |
| `MembersWrite` | `CommunitySpec => []WrittenByMembers` | `CirclesInv`, `PostsInv`: only its creator is ever a circle's steward; who is about to write in a circle had joined it |
| `ReadersMissNothing` | `CommunitySpec => []ListIsWhole` | `ReadInv`: a post that stayed and is not older than the cursor was given, or another of its millisecond was; for pages of any size (`OnePage`) |
| `AnswersFit` | `PagesSpec => []AnswersFitThePage` | `Fits`: a request under way is one that the page still means, or nobody's, or a magic link's, whose late answer leads home, where nothing is asked |
| `LaterConsentIsTold` | `ConsentSpec => []LastToConsentIsTold` | `AboutToBeTold`: when both consent and nobody was told, an answer under way will tell. Two parties |
| `UploadsFailClosed` | `UploadsSpec => []NothingUnstripped` | `CleanBeforeStored` |
| `HiddenMembersStayHidden` | `PresenceSpec => []HiddenIsNotShown` | `Seen`: what a request has read of a member was so at a moment of the request |
| `WhatPassesIsCurrent` | `PhotosSpec => []PassedIsCurrent` | `RunStands`, where a build is with a photograph; `Telling`, that what a manifest promises is then `UpToDate`, or `Outdated`: there is a rendition of the least width, and the times of change tell it apart |
| `AcceptedTreesSpeak` | `CataloguesSpec => []AcceptedIsWorded` | the type of a catalogue, and the definitions of the check: what is accepted is words of the language, or a null and then the English words or nothing |
| `DrawnAlike`, `SeedsOfAnOrder` | `WallPagesSpec => []NoneFavouredAmongDrawn`; which seeds give an order | `StandsOnce`: a voice stands once on the Wall, so what is drawn for any page is a list without repetition; `EveryOrder`, `NoOrderTwice`, `Spread` |

`ThrottleSpec` is the throttle without its fairness. `Flags` has no theorem: what the
run checks of it is liveness.

*The shuffle.* That none of the voices that are drawn is favoured is a claim
about the algorithm, for the list that any page is cut from: the newest voices,
as many as the page reaches. Of the voices below those it says nothing, and
`EveryVoiceMayStandFirst` is false of them. It is proved for any window, any
number of random numbers not below it and any voices. `Arrange` is given the
places that are chosen round by round, `Shuffle` takes them from the draws.
`EveryOrder` shows that every order comes of some choice of places: in each
round the element that is to stand last is still among those that are left.
`NoOrderTwice` shows that two choices differ in the order where they first
differ, because what a round puts in its place stays there (`StaysSettled`).
`Spread` shows that of `Grain` draws either `Grain \div (i + 1)` or one more
pick a place among `0..i`, so that a bias is never larger than one draw in 2^32
a round. `SeedsOfAnOrder` joins the two: which seeds give an order is the
product of what the draws give each round. These are inductions along the
rounds; as the induction theorems are out of reach, `UpTo` says the same of a
set of numbers and is proved from its least counterexample (`WFMin`, which takes
no operator). The draws are taken as independent: the code's generator has a
state of 32 bits, so that of the orders of a long window only 2^32 can occur.
Nothing is claimed about which.

### Only model-checked

* What must eventually happen: `ActiveCaseProceeds`, `ClosedIsFollowedUp`,
  `EveryVoiceIsCounted`, `ListenerIsHeard`, `DeadClientIsReaped`, `QueueDrains`,
  `DueIsPurged`, `LockoutEnds`, `FlagsCatchUp`, `NobodyWaitsForever`. Liveness
  under fairness and `ENABLED` are out of the prover's reach.
* The properties of the findings, which are false.

## 6. Not modelled, and plan

Not modelled: `reconcile` (nothing calls it), the sweep of address hashes, the
nightly snapshot and its figures other than the cases understood, the separate
connection that Redis subscriptions use, word limits and other validation of
content, transport and templates of mail, health and configuration, static pages
and wording, and the checks of theme, layout and SEO, which hold one line of one
file against a pattern. They are pure I/O, rendering, or data that no property here tells
apart. The schema and its triggers appear as the guards of the statements that
rely on them.

Next, in this order:

1. Liveness arguments as far as they are safety: that no wait of `VoiceLedger` is
   circular, and the measure that falls with each step of a drain.
2. `LiveCounter` with a subscriber connection that fails alone.
