# A formal model of minifi-api

minifi-api is a URL shortener written with NestJS. Its main application serves
HTTP and WebSocket requests; a second process, the worker, runs the RabbitMQ
consumers and the crons. Both share PostgreSQL (through Prisma), Redis and
RabbitMQ; payments are Stripe's, files MinIO's, authentication Keycloak's.

There is almost no locking in this code. A handler reads a row, decides, and
writes, and every `await` between is a point where another request, a cron of
the worker, a webhook or a restart may act. This project models those points.
Paths below are relative to `src/src/`.

## 1. Inventory

| Component | State it keeps | Operations | Talks to | What is hard | What makes it correct |
|---|---|---|---|---|---|
| **Link lifecycle** (`modules/link/link.service.ts`, `modules/link/redirect.controller.ts`, `modules/admin/admin-link.service.ts`, `shared/queues/link/link-scheduler.cron.ts`) | the `Link` row: status, isArchived, scheduledAt, expiresAt, clickLimit, clickCount, isOneTime | create, visit, update, archive, unarchive, delete, block, unblock, admin edit, four crons | the database; scan queue | reads that are stale when written back, checks apart from increments, on-the-fly activation, two processes writing one row | a closed link lets nobody in; limits are kept up to the visits in progress; no click is lost; links open and close on time; a block lasts |
| **Click tracking** (`link.service.ts` 661-781) | `clickCount`, `uniqueClickCount`, `LinkAnalytics` rows | incrementClickCount, trackLinkClick | the database | look-then-insert, insert-then-increment, errors that are swallowed | the three statistics agree; a visitor is unique once |
| **Subscriptions and billing** (`modules/subscription/*`, `admin-user.service.ts`) | `Subscription` row, `User.userType`; customers, sessions and subscriptions at Stripe | me, checkout, cancel, webhooks, changeTier, deleteUser | Stripe calls and webhooks, email queue | two tables without a transaction, webhooks and requests that overlap, events repeated or reordered, two checkouts, two customers | who is billed has PRO and nobody else; both tables agree; one welcome email |
| **Codes, aliases, tags, QR codes, limits** (`link.service.ts`, `tag.service.ts`, `admin-link.service.ts`, `shared/guards/usage-limit.guard.ts`) | unique columns, the stored image, tags and their links, counts of links | generate a code, check an alias, count links, make a QR code, tag | the database, MinIO | check-then-insert, a code drawn from an alias that changes | a name leads to one link; limits hold up to the overlap; a QR code leads to its link |
| **Analytics queries** (`link.service.ts` 784-1726) | none | four reports, each of several queries | the database | queries of one report at different instants, periods and their neighbours, links without a short code | the figures of a report agree; no click is another period's or another link's |
| **Retention and warnings** (`link-scheduler.cron.ts` 86-265, `link-expiring-notification.cron.ts`, `monthly-report.cron.ts`) | links by age | delete, warn, report | email queue | months against days, a job that fails half-way | nobody's link is deleted unannounced |
| **URL scan** (`shared/queues/scan/*`, `shared/scan/url-scan.service.ts`) | scan columns, cached verdicts in Redis | request, consume, rescan | RabbitMQ, OpenAI, Redis | queued scans overtaken by rescans, cached fallback verdicts | the stored verdict is of the last request |
| **Email and digests** (`shared/queues/email/*`, `shared/queues/chat/chat.service.ts`) | queue `email.send` (1 h, 10 000 messages) | publish, consume, daily digest | RabbitMQ, Resend | redelivery, expiry, overflow | an accepted email is sent once, or known lost |
| **Presence, WebSocket** (`shared/websocket/*`) | sets of sockets per user in Redis with a time to live | connect, refresh, disconnect, clear on start | Redis, Socket.IO | reconnects, expiry, a second instance | online means some socket is open |
| **Chat** (`modules/chat/*`) | chats, members, messages, read marks | create, send, edit, delete, list, mark read | gateway, email digest | marks written in the background | marks only grow; one direct chat per pair |
| **Advisories** (`modules/advisory/*`) | advisories, dismissals, a cached list per user | create, publish, archive, delete, list, dismiss | Redis | cache filled after it was cleared | a dismissed advisory does not come back |
| **Users, blocking** (`modules/user/*`, `admin-user.service.ts`, `shared/guards/blocked-user.guard.ts`) | `User` row | first request, preferences, block, unblock, delete | Keycloak, email queue | concurrent first requests | one row, one welcome |
| **Cursor pagination** (`utils/pagination/prisma-pagination.util.ts`) | none; the cursor is the client's | next page | the database | rows added and deleted between pages | no row is skipped or shown twice |
| Files, configuration, logging, mail templates, Keycloak | none of their own | | | | not modelled: plumbing and pure I/O |

`PROJECT.json` lists the components with their status, and under `hazards`
each place where something of the "hard" column bites, with its line.

## 2. The modules

| Module | Models | Composes |
|---|---|---|
| `VisitGate` | the abstract promise of a link about the visits it lets through | |
| `LinkLifecycle` | one `Link` row and everything that reads or writes its status, dates, limit and clicks | implements `VisitGate` |
| `ClickTracking` | the statistics of one link | |
| `LinkCatalogue` | names, limits, QR codes and tags of links | |
| `Analytics` | the reports computed from clicks | |
| `Retention` | the crons that warn, delete, disable and report | |
| `ScanPipeline` | the scans of URLs: queue, workers, cached verdicts | |
| `Billing` | the plan of one user, with Stripe | |
| `Mailing` | accounts, and the queue of mails to them | |
| `Presence` | sockets, their handlers, and the keys in Redis | |
| `Chat` | chats, messages, marks, pages, the daily digest | `Pagination` |
| `Advisories` | advisories, dismissals, the cached lists | |
| `Pagination` | `cursorPaginateWithPrisma`, as an operator on the rows of a query | |
| `Steps` | `Idle` and `Done`, where a process stands before and after its work | |
| `MCLinkLifecycle`, `MCClickTracking`, `MCBilling`, `MCAnalytics`, `MCChat`, `MCPresence` | one instance each for TLC | |
| `MCLinkRecords` | instances of `ClickTracking`, `Analytics` and `Retention` in one run | extends all three |
| `MCAccounts` | instances of `Billing` and `Mailing` | extends both |
| `MCServices` | instances of `Presence`, `Chat`, `Advisories`, `LinkCatalogue`, `ScanPipeline` | extends all five |
| `VisitGate_proofs`, `LinkLifecycle_proofs`, `LinkCatalogue_proofs`, `ScanPipeline_proofs`, `Chat_proofs` | the theorems about one module | each extends its module |
| `Records_proofs` | those about `ClickTracking`, `Analytics`, `Retention`, and about what `clicks` explores | extends `MCLinkRecords` |
| `Accounts_proofs` | those about `Billing` and `Mailing`, and about what `billing` explores | extends `MCAccounts` |
| `Services_proofs` | those about `Presence` and `Advisories`, and about what `services` explores | extends `MCServices` and the proofs of its parts |

The convention is the same everywhere. A request, a webhook, a cron or a
handler is a **process**: a function (`request`, `caller`, `worker`, `conn`...)
whose value is a record with a field `pc` and whatever the code still holds in
its local variables. There is one step per call of the database, of Redis, of
RabbitMQ or of an external service, since anything may happen between two of
them. A process that fails, or whose instance stops, goes back to `Idle` and
leaves what it has done. Variables under "observations of the run" are read by
no action (a bound excepted): they remember what the properties excuse.

### LinkLifecycle

A row is the record `row`, and `life` says whether it is in the table. Text
fields, tags, QR codes and scans do not matter to these columns and are left
out. A **visit** (`req[r]`) follows `GET /redirect/:code` one database call
per step:

| Action | Code |
|---|---|
| `Lookup` | `findFirst` of `resolveShortCode` and every check made on the result, up to the next call |
| `Activate` | the update to ACTIVE of a scheduled link that is due; the checks after it used the row as first read |
| `Disable` | the update to DISABLED of an expired or used up link |
| `AskPassword` | the GET of a protected link, which answers `requiresPassword` and counts nothing |
| `ReadForCount`, `DeleteOneTime`, `Increment`, `CountFails` | `incrementClickCount`: the second read, the deletion of a one-time link, the increment, the `catch` |

The second read matters: a link may have become (or ceased to be) one-time
since `Lookup`. A **handler** of the owner or administrator is two steps: one
that reads the row and computes the write (`UpdateLink`, `ArchiveLink`,
`UnarchiveLink`, `UnblockLink`, `EditLink`), leaving it in `pending[h]`, and
`Commit`, which applies it to whatever the row has become. `BlockLink` and
`DeleteLink` decide nothing from what they read, so they are one step. The
**crons** are single `updateMany` / `deleteMany` statements: one step each. The
age of a link and the tier of its owner are in `Retention`, so here
`DeleteOldFreeLinks` may take any user's link at any time. `Restart` forgets
visits and handlers in progress and keeps the row.

### VisitGate and the refinement

`VisitGate` knows only whether the gate is open, which visits are inside, how
many clicks are counted and the largest limit carried so far. A visit comes in
only when the gate is open and, for a link that always had a limit, below that
limit; each visit inside is answered once at most. `LinkLifecycle` implements
it with `open <- ~Closed`, `inside <- InFlight` (the visits past every check),
`used <- row.clickCount`. Two promises follow from the abstract specification
alone: `Drains` (after the gate closes only the visits inside are answered)
and `Bounded` (the limit is overrun by less than the number of visits served at
one time). The code does overrun its limit: the check (`link.service.ts:641`)
and the increment (`:675`) are apart. The bound says by how much.

### ClickTracking

A visit let through runs `trackClickAsync`: count, find the link, look for an
earlier row of its visitor, insert its own, claim `uniqueClickCount`. Each of
these may fail and the failure is swallowed; an insertion may succeed with its
reply lost (`InsertUnanswered`). The rows of a visitor are two numbers, those
with `isUnique` and those without.

### LinkCatalogue

`task[k]` is a request. A creation passes the guards (`CountLinks`,
`CheckTier`), finds its name (`CheckAlias`, or `Generate`, one attempt of
`generateUniqueShortCode`), checks its tags and inserts; the insertion is
refused by the two unique columns and by tags that are gone (a deleted tag does
not come back: ids are never used again). An update
(`BeginUpdate` to `Modify`) and an administrator's edit (`BeginEdit`,
`CheckBoth`, `Edit`) write by what they read first. `generateQrCode` is
`BeginQr`, `PutImage`, `SetQrUrl`: the name is read, the image stored under an
address that never changes, the address written. Names are members of one small
set, since a short code and an alias may be the same string. The guests' day is
the flag `recent`, which `DayPasses` clears.

### Analytics

A report is `inquiry`: what it is of (user, link, period) and the queries still
to answer, in any order, each on the tables of that instant. A count is modelled
by the **set** of the rows counted, so that the properties can say which clicks
are in which figure. The unique clicks of the best links are one more query
after the others (`CountUniques`). `PeriodBefore` computes the period a report
compares with; groups by country stand for those by city, device, browser,
system and referrer, which are alike.

### Retention

A day has a night (3:00, deletion) and a morning (9:00, warnings), and a link
turns a day older at one of the two (`born`). A run of a cron reads once
(`FindLinksToWarn`, `FindExpiringLinks`, `ListProUsers`...) and then publishes
one mail per user; a failure ends the run for the users who are left
(`WarningFails`), or skips one user in the monthly report (`ReportFails`), and
nothing remembers them. `DeleteOldFreeLinks(months)` deletes at an age of three
calendar months, `KeepLeast` to `KeepMost` (89 to 92) days.

### ScanPipeline

`RequestScan` and `CreateScanned` reset the verdict and leave a job in `asking`;
`PublishScan` puts it in the queue, or fails and is only logged. Consumers take
jobs in any order (`Consume`), look for the link (`FindScanned`) and, unless the
job is forced, for a cached verdict (`GetCached`); they call the scanner
(`ScanUrl`), cache its answer (`StoreVerdict`), write it (`WriteVerdict`) and
publish the alert. When the worker stops (`WorkerStops`) the jobs it had not
acknowledged come again. A verdict is numbered by the call of the scanner it is
from, which tells an older one from a newer. `ODD` is a status the consumer's
map does not have: the column keeps its old value.

### Billing

Requests (`caller`) and webhooks (`hook`) are processes of one step per call of
the database or Stripe. Any call may fail (`CallerFails`, `HookFails`), leaving
what was done; Stripe keeps an event in `unanswered` until a webhook has
answered it with 200, and the answer itself may be lost. An event carries the
subscription as it was when it was sent; `checkout.session.completed` makes the
handler fetch it as it is now. Several requests, and several webhooks, run at
one time, and events may come in any order. The customers, sessions and
subscriptions of Stripe are external, modelled by the calls and events the code
uses. `handleSubscriptionUpsert` grants PRO by price whatever Stripe's status;
`Columns` does the same. There is one price.

The observations name the courses on which the code does not keep a promise:

| Observation | What happened | Where |
|---|---|---|
| `stale` | an event was written to the row after a later one that says something else (another tier or another subscription) | `stripe.service.ts:344`, `:397` |
| `overlapped` | a webhook found the row while another was about to write it, or for an event answered since, or `changeTier` came while one was | `subscription.service.ts:106-131` |
| `freed` | `SyncFree` ran when the row had a tier other than FREE | `subscription.service.ts:66` |
| `saved` | the customers the row was given; `Replaced` says there were two | `stripe.service.ts:76` |
| `doubled` | a session was opened beside another one, or beside a subscription | `stripe.service.ts:93` |
| `granted` | the tiers an administrator gave | `admin-user.service.ts:109` |

That reordered events alone, or overlapping ones that say the same, are not
among them is the point of the properties: an event that arrives late is excused
only when it was written and says otherwise.

### Mailing

A first request passes `BlockedUserGuard` (`Admit`), looks for the user,
creates the row (the id is the primary key: a second creation is refused) and
publishes the welcome mail. `sender[s]` is a handler of `email.send`: it takes a
mail, looks at the user's preference (`CheckOptOut`), hands the mail to Resend
(`SendMail`) and acknowledges. `Requeue` is a handler that throws and a worker
that stops alike; `ExpireMail` the hour a mail lives, and the full queue, alike.

### Presence

`conn[s]` and `disc[s]` are `handleConnection` and `handleDisconnect` of a
socket, one step per call of Redis; that of the disconnection starts whatever
the other is doing. `Start`, `ListUsers`, `DeleteAll` are
`clearAllPresenceData` at the start of an instance, which clears the keys of
*every* instance. The key of a socket is written with its time to live. The sets
get theirs by a call of its own after the one that adds to them (`AddSocket`,
then `SetTtl`; `AddAdmin`, then `SetAdminsTtl`), so `timed` and `adminsTimed` say
which sets have one, and `halfway` which users' last handler to add to their set
ended in between. A key with a time to live may lapse at any time (`KeyLapses`,
`UserLapses`, `AdminsLapse`), since nothing renews it; a set that was emptied is
gone with its time to live, as in Redis. `told` is the last event clients had
about a user.

### Chat and Pagination

Messages are numbered in the order of `createdAt`. Editing and deleting are a
check (`CheckChange`) and a write. A client walks the pages of a chat
(`FirstPage`, `NextPage`, `PreviousPage`), each a call of `CursorPage` on the
rows there are then; every page starts a mark in the background
(`FindMessages`, `InsertMarks`, `MarkFails`). The digest finds candidates by the
newest kept message of each chat (`FindMembers`), counts in a second query
(`CountUnread`) and mails one user after the other. `DeleteUser` removes a
sender's messages and memberships, as the database cascades do.

Rows are numbered in the order of the table, and a page is a **set** of them:
`Foremost` takes the first so many of a query in its order, `Final` and `First`
are the ends of a page, from which the cursors are made. `CursorPage` returns
`data`, `hasNext`, `next` and `previous` as `cursorPaginateWithPrisma` does, one
row more read than shown included, for an order that sorts by the cursor's field
and for one that does not.

### Advisories

The requests of administrators are a find and a write. `getActiveForUser` is
`GetActive` (the cached list, or none), `QueryActive` and `CacheList`; `dismiss`
is `FindToDismiss`, `Dismiss` and `Forget`. The five minutes of a cached list
are `Lapse`, at any time.

## 3. The runs

| Run | Result | What it asks |
|---|---|---|
| `lifecycle` | holds | Under two overlapping visits, one handler at a time, crons and restarts: the refinement of `VisitGate`, `ClosedDrains`, `LimitOverrunBounded`, `ClicksConserved` (no stale write takes a click back), `ReopenedByHand` (no cron and no visit other than a late activation opens a closed link) |
| `lifecycle_live` | holds | `ScheduledOpens`: a due link does not stay scheduled. `ExpiryEnforced`: an expired link is closed once nobody edits it, except in the two states named there |
| `clicks` | holds | `StatisticsAgree`, `NobodyMissed`, `UniqueUnlessOverlapped`, `DuplicatesBounded` of click tracking; `ReportCoheres`: the figures of a report agree although its queries see different instants; `GoneWereWarned`: no link is deleted or expires unannounced, but for those that did not qualify all the time and for too many lost mornings; `ReportedOnce` |
| `billing` | holds | With overlapping requests and webhooks and events in any order: `TierFollowsStripe`, `BilledCanCancel` (the row names a subscription that lives), `TypesAgree` (row and `User.userType`), `WelcomedOnce`, `CustomersBounded` (overlapping checkouts make no more customers than there are requests); of accounts and mails `WelcomedPerAccount`, `OptOutRespected` |
| `services` | holds | presence: `MembersExact`, `EventsRight`, `GhostsExpire` (liveness); chat: `OneChat`, `DeletedTextKept`, `WalkComplete`, `ShownIsMarked`, `DigestReaches`; advisories: `DismissedStaysHidden`; names and limits: `LimitsHold`, `NamesResolveAlone`, `QrLeadsHere`, `LinksCohere`; scans: `PendingIsUnderway`, `VerdictsAdvance` |
| `block_lost` | violated | `BlockHolds`: what an administrator blocks stays closed |
| `paid_not_pro` | violated | `BilledIsPro`: who is billed has PRO |
| `type_drift` | violated | `UserTypeInSync`: `User.userType` is the tier of the row; two webhooks are served at one time |
| `event_overtaken` | violated | `EndedIsFree`: who is no longer billed is FREE; one webhook at a time |
| `previous_page` | violated | `PageBeforePrecedes`: the page before a cursor precedes it |
| `presence_lapses` | violated | `ConnectedIsOnline`: an open socket keeps its user online |
| `ttl_lost` | violated | `KeysHaveTtl`: no set is left without a time to live |

**Parts.** `clicks`, `billing` and `services` hold modules that share no
variable; `MCLinkRecords`, `MCAccounts` and `MCServices` choose a `part` in the
initial state, and a behaviour is then about that part alone. The product of
modules that share nothing reaches no state of one of them that it does not
reach by itself, and it satisfies the same properties, so nothing is lost but
its size. Within one module, the parts keep together the actions that meet one
another: `services` has `presence`, `advisories`, `one scan`, `two scans`, five
parts of Chat (`creation`, `changes`, `pages`, `walk`, `digest`) and six of
LinkCatalogue (`limits`, `guests`, `names`, `codes`, `updates`, `tags`); `clicks`
has `tracking`, `reporting`, `deletions`, `expiries` and `monthly`; `billing` has
`mails` and three of Billing: `lifetime` (all operations, one request and one
event at a time), `requests` (requests that overlap, each event in its turn) and
`webhooks` (webhooks that overlap, events in any order). What a part leaves out
is written there: in `digest` pages are not walked (`SayRead` marks messages), in
`limits` nothing is renamed. What meets across the three parts of Billing (a
webhook that overlaps another while requests do) no part reaches; the theorems of
`Accounts_proofs` are of `Billing` itself, without parts, and cover it.

**Bounds.** `lifecycle` has two visits at a time and three answered in all:
enough for a limit of 1 and of 2 to be overrun, for a one-time link to be
served twice and for an answer after the closing. One handler suffices because
`BlockLink`, `DeleteLink`, the crons and the visits all run between its two
steps. Two ticks, with `MaxTime + 1` for any later time, put each date in the
past, present and future. `MCDrafts`, `MCUpdates` and `MCAdminEdits` are one
representative of each way of setting or clearing a date, limit and flag that
the checks tell apart. `lifecycle_live` has one visit and three ticks, so that
a link may be activated, then expire.

`clicks` (about 310 000 states): three visits at a time of two visitors, four in
all, so three overlapping visits of one visitor, or two and a return; reports
over two months of one day, with two clicks before or during a report, which
put a click in the period, before it, and between two queries; one link from
day 82 to day 93 with the real constants (83, 89, 89 to 92, 3), and up to two
lost mornings. Two holders make the monthly report of one fall between changes
of the other.

`billing` (about 1.2 million states), by part. `lifetime`: two customers, two
subscriptions and up to six events, two whole subscriptions each paid and ended,
so that a user cancels and subscribes again (two events once he has another
customer, three once an administrator has given a tier). `requests`: two
requests, three customers while nothing is paid, up to three events, the third
while one subscription is all there is: two checkouts that overlap save two
customers, and the one that is replaced may pay. `webhooks`: two webhooks, one
subscription with up to four events, two of them unanswered at a time: the two of
its payment, a change and the end, handled together, again, or in the wrong
order. `welcomes <= paid + 1` cuts what comes after a welcome too many. Requests
are alike, and so are webhooks (`SYMMETRY`); customers and subscriptions, which
are alike too, are taken first come first (`FirstFirst`). The violated runs are
smaller instances of `Billing`, `paid_not_pro` with `OrderlySpec` (each event in
its turn), so that the disorder of events is not what breaks the promise. Mails:
two logins of one user, so that first requests overlap, two creations so that a
deleted user comes back, two mails and two handlers.

`services` (about 634 000 states): two sockets of one user, who is or is not an
administrator, two starts of two instances and one failed handler, after which
one handler runs at a time; one client
and the administrator with up to three messages on pages of one, so that a
cursor's row is edited, deleted and removed; two requests at a time for every
check that is made apart from its write; limits of one, so that one creation
too many is one overlap away; three links and two names; two consumers and
three scans of two links with one URL, and one stop of the worker.

**Fairness** is assumed in two runs. In `lifecycle_live` each database call of a
visit returns (or fails), and the crons that activate and disable fire again and
again, which `@Cron(EVERY_HOUR)` provides while the worker runs. In `services`,
for `GhostsExpire`, a handler of a gateway whose process runs goes on
(`WF(Connection(s))`, `WF(Disconnection(s))`: each step is a call of Redis that
returns or throws), and Redis drops a set whose time has passed
(`WF(UserLapses(u))`, which is enabled for a set with a time to live only: a set
left without one stays, and `GhostsExpire` says so). Nothing is assumed of clients, owners, administrators,
the starts and stops of instances, or the clock.

**What the properties of `billing` excuse.** `TierFollowsStripe` and
`BilledCanCancel`: `stale` (shown by `event_overtaken`), `doubled` (by
`paid_not_pro`) and a replaced customer, whose payments find no row; and the
first of them a tier an administrator gave, which is meant to differ from Stripe.
`TypesAgree`: `overlapped` (shown by `type_drift`) and a replaced customer;
after a late `SyncFree` (`freed`) the user may be FREE whatever the row says, and
nothing else.
`WelcomedOnce`: `stale`, `overlapped` and an administrator who gave FREE, after
whom the next event of the same subscription finds a user to welcome. Both events
of one payment that find the row together are such an overlap, and the user is
welcomed twice. `CustomersBounded` excuses nothing. So the races that the code
loses are named (section 4), and what holds is that it loses no others:
no failure, lost answer, repetition or order of events does harm by itself.

**What the other properties excuse**, each by an observation: overlapping
creations (`overlapped` chats, `crowded` limits, `taken` names); a message that
an edit had already looked at when it was deleted (`raced`); lists of advisories
read before a dismissal and cached after it (`late`); users reopening archived
links or downgraded from PRO (`reopened`); aliases equal to an existing short
code (`given`), which `ensureAliasAvailability` does not look for; QR codes of
links whose alias changed while the code was made (`repointed`) or by an
administrator (`edited`); scans that failed (`unscanned`) and scans of one URL
that overlapped (`mingled`); users whose keys were cleared or not written
(`lost`) or lapsed (`lapsed`), and for `GhostsExpire` those whose set was left
without a time to live (`halfway`). Each is a race the code has and its comments accept or overlook; the
properties say that nothing *else* breaks the promise.

## 4. Where the code and its documentation disagree

Shown by a run:

* **A block can be lost** (`block_lost`). `updateLink`, `archiveLink`,
  `unarchiveLink` and the on-the-fly activation write a status computed from an
  earlier read. A block in between is overwritten and the link is served again.
  No overlap is needed either: `archiveLink` does not look at the status, so a
  blocked link its owner archives and unarchives is ACTIVE.
  `admin-link.controller.ts:133`: "Blocked links cannot be accessed via their
  short code."
* **Two checkouts** (`paid_not_pro`). A checkout is offered beside one that is
  open or paid, and the end of either subscription sets the one row to FREE.
* **Two webhooks** (`type_drift`). The row and `User.userType` are written by
  two statements; two webhooks may write them in opposite orders, and nothing
  repairs it. `subscription.service.ts:137`: "Keeps the User model's userType in
  sync with subscription changes."
* **An event after the end** (`event_overtaken`). An event that is sent again
  after the subscription ended is written like any other: PRO, and for good.
  `stripe.service.ts:145`: "Stripe fires customer.subscription.deleted when
  period actually ends (we downgrade to FREE)".
* **The previous page of a chat is the next one** (`previous_page`).
  `getChatMessages` sorts by `createdAt` and points at rows by `id`, and
  `cursorPaginateWithPrisma` turns the order round only when it sorts by the
  cursor's field. "Before" a cursor reads the rows after it and reverses them.
* **A long connection is offline** (`presence_lapses`). `refreshPresence` is
  called from nowhere. `presence.service.ts:17`: "Keys are refreshed on each
  heartbeat (Socket.IO ping/pong)".
* **A set without a time to live** (`ttl_lost`). `userConnected` adds to a set
  and gives it its time in two calls; when the instance stops in between, the
  user stays online until he connects again or an instance starts.
  `presence.service.ts:16`: "All keys have TTL as safety net for ungraceful
  shutdowns."

Met on the way, and kept in the models as the code has it:

* Two first checkouts that overlap each make a customer at Stripe, and the row
  keeps the last one saved (`Replaced`). The session of the other can still be
  paid; its events find no row and are dropped with 200, although
  `stripe.service.ts:246` says "User finished checkout → upgrade to PRO".
  `CustomersBounded` says that only requests that overlap do this.
* The request that creates the row sets `userType` to FREE in a second call,
  which may come after another request of the user has led to PRO (`freed`).
* With `scheduledAt: null` an update leaves the status SCHEDULED, which neither
  cron nor visit activates without a date (`Dateless`), although
  `update-link.dto.ts:45` says "Set to null to remove scheduling."
* Unique clicks of the best links are counted `where: { link: { shortCode } }`,
  and a link with an alias has a null short code: the count is of every such
  link, of other users too (`link.service.ts:1325`, `:1624`).
* An update with `isArchived: false` leaves status ARCHIVED (`HalfRestored`);
  any update of a link with a `scheduledAt` in the past makes it SCHEDULED again
  until the next visit or cron.
* `deleteUser` cancels at Stripe only when the local status is ACTIVE, and
  deletes the user even when that fails, as its comment says.
* `getUserMonthlyAnalytics` (`link.service.ts:1442-1446`) takes the month before
  with `setMonth`, which runs over into the reported month when the month before
  is shorter; its comment says "month-based, NOT 30-day". `PeriodBefore` does
  the same.
* The best links of a report are ranked by the clicks of all time and shown
  with those of the period.
* The deletion cron says 90 days; it deletes at three calendar months, 89 to 92
  days. Links in the archive of FREE users are deleted without a warning.
* `ensureAliasAvailability` looks at aliases only; `generateUniqueShortCode` and
  the administrator's edit look at both columns. The administrator's edit of an
  alias leaves the QR code.
* Unarchiving, and updates with `isArchived: false`, are guarded by no limit.
* The digest looks at the newest kept message of a chat only: a user who has
  read it is not told of older unread ones.
* `chat.service.ts:482` says the default order is descending, its DTO that it is
  ascending; `chat.controller.ts` says only messages that are not deleted are
  returned, and deleted ones are (their rows, for the audit).
* Publishing an advisory whose `expiresAt` has passed succeeds and shows
  nothing.

## 5. The proofs

Checked by TLAPS, for every value of the constants that satisfies the
assumptions of the module.

* `VisitGate_proofs`: `GateTypeCorrect`, `GateDrains`, `GateBounded`. `Drains`
  and `Bounded` are each inductive with the types: an answer takes one visit
  out of `inside` as it adds one to `late` or to `used`. Assumes that the
  visits at one time are finitely many, and at least one.
* `LinkLifecycle_proofs`
  * `TypeCorrect`: every step keeps the types, whatever row a pending write was
    computed from (`StepTypes`, one step per action).
  * `Refinement`: the initial state and every step map to `VisitGate`. It needs
    the invariant `Budget`: the limit in force is at most `cap`, a capped link
    has one, nothing is late on an open link, and a link not yet created has
    counted nothing. Without it the check `clickCount < clickLimit` of a visit
    says nothing of `cap`.
  * `ClosedLinkDrains` and `LimitOverrun`: by instantiating the theorems of
    `VisitGate_proofs` and the refinement, with no second induction.
  * `NoClickLost`: `ClicksConserved` alone is not inductive, since the creation
    of the row needs that nothing was served before it. `Conserved` widens it
    to the row not yet created and adds that no visit is in progress then.
  * `NothingElseReopens`: by cases on the step.
* `Records_proofs`, of **ClickTracking**: types, then `NoVisitorMissed`,
  `OnlyOverlapsRepeat` and `RepeatsBounded` from one invariant, `Unique`. It
  counts, for each visitor, the rows with `isUnique` together with the visits
  that are about to insert one (`Hopeful`): once a row is there no visit becomes
  hopeful again. `TheStatisticsAgree`, for finitely many visits at one time:
  `Tallied` balances the three statistics against the visits that stand between
  two of the writes; `TallyMoves` says what one step does to these numbers.
* `Records_proofs`, of **Analytics**: `FiguresCohere`, for finitely many links.
  The property is about a report that is over; `AnswersFit` says of each query
  that has answered what it found (`Fits`): at least the clicks that were there
  when the report began (`Due`) and at most those there now. `ResultsFit` proves
  it when a query answers, `FitsStays` while clicks are added and links archived
  between the others. `ReportTypes` adds that the clicks are finitely many and
  that a report under way is of a user, link and period that exist.
* `Records_proofs`, of **Retention**
  * `OneReportEach`, from `ReportInv`: a user who did not change is on the list
    of his tier until his report is sent or has failed, and has what is due to
    him (`DueTo`) afterwards. `ReportsCounted`, with the types: a user on a list
    has room for one more report.
  * `WarnedBeforeGone`, from `WarningsInv`. A link that was not warned of although
    it qualified all the time has missed every morning since it did
    (`Unwarned`; `Announceable` for a link's own term): as many mornings were
    lost as there are between its first qualifying age and `NextAge`, its age on
    the first morning whose run is not over. `InPhase` says which runs are under
    way by night and by day. `AgesAssumption` is what it needs of the
    constants: the first age of the warning, the last, and the deletion follow
    each other.
* `LinkCatalogue_proofs`
  * `CatalogueIsTidy`: the types, and one invariant, `Tidy`, of which
    `NamesAreResolved`, `LinksStayCoherent` and `QrCodesLead` are parts. What
    the properties say of links has to be said of the requests about to write
    them (`Fits`): a creation past its name has a code that answers nowhere, or
    was stored by somebody else since (`NameFits`); tags that were looked up
    are the owner's or gone (`TagFits`); an update knows the QR code it has to
    forget, and a QR code is made of a name the link has (`QrFits`). Short codes
    are unique (`CodesUnique`), without which an alias that is its own link's
    code could be another's too.
  * `LimitsAreKept`, for finitely many links and requests. `Room` counts, for
    each creator, the links that a limit counts together with the creations let
    through (`Pending`). The sum is within the limit, or within the limit and
    all the other requests once two creations overlapped. An insertion moves
    one from the second to the first.
* `Accounts_proofs`, of **Billing**: for any requests and webhooks at one time,
  any events in any order, and any tiers an administrator may give; no theorem
  assumes an order or a number of them, but that `CustomersAreBounded` and what
  counts subscriptions take finitely many. Most steps matter to few of the
  invariants, so they are first sorted into kinds: `Telling` (Stripe sends
  events), `Calls` (a request), and what a webhook does (`Rests`, `Drops`,
  `Finds`, `Writes`, `Syncs`, `Mails`; `CallKinds`, `HookKinds`). Then:
  * `CustomersAreBounded`, from `Few`: the customers saved, together with the
    requests that have still to save one (`Making`), are no more than the
    requests. A request that begins after one was saved never makes another.
  * `Billed` is about Stripe's side: an event tells of a subscription that was
    paid for, its end is the last event about it (`Told`), `paid` counts them
    (`Paid`), and unless `doubled` the last event names the one that lives
    (`Alone`, `LastTells`).
  * `Saving`: nothing tells of a customer that was not saved in the row, so with
    one customer a webhook always finds the row (`OneCustomerFound`).
  * `TierIsBilled` and `CancelReaches`, from `Follows`: unless `stale`, the row
    says what the latest event written says (`RowTells`), and for one customer
    an event is answered only when it or a later one was written (`Applied`).
    When all are answered, the latest event written is the last one sent.
  * `TablesAgree`, from `InStep`: unless `overlapped`, one webhook at most is
    about to write, for an event Stripe would send again (`OneWriter`), and the
    tables match (`Matched`) unless there is such an event (`Agreeing`).
  * `OneWelcomeEach`, from `Welcoming`: there are no more welcomes than
    subscriptions the row has seen (`Counted`: those that ended, and the one of
    the latest event written). A webhook that finds FREE writes about one more
    (`WriteCounts`), since the end of a subscription is the last that is told of
    it.
* `Accounts_proofs`, of **Mailing**: `OneWelcomePerAccount`, for finitely many
  requests at one time. `Balanced` counts the requests that still owe a welcome
  (`Welcomes`): the welcomes less the accounts, plus those owed, is never
  positive. A creation lowers the one and raises the other. `OptOutIsRespected`,
  from `CheckedBefore`: a handler past its check has a user who is gone, or wants
  mails, or has turned (`turned`) since.
* `Services_proofs`, of **Presence**
  * `MembersAreExact`, from `MembersInv`: where a socket stands decides which of
    its three keys are written (`Stands`), and of a user whose keys were neither
    cleared nor lapsed all are there that were written, and of a closed socket
    only what `handleDisconnect` is about to remove (`Faithful`). A handler of a
    connection that is still running when its socket closes makes a ghost.
  * `EventsAreRight`, from `EventsInv`: the connections and disconnections of a
    user who is undisturbed run in turn (`Turns`), and what clients were told of
    him is right, or somebody is about to set it right (`Told`): the connection
    that found the set empty, or the disconnection that took the last socket out.
  * `OnlyHalfwayLasts`, from `UntimedIsHalfway`: a set without a time to live has
    a handler about to give it one, or lost the one that was (`halfway`). It is
    the safety half of `GhostsExpire`: what is excused there has no other cause.
* `Services_proofs`, of **Advisories**: `DismissalLasts`. `DismissedStaysHidden`
  speaks of the dismissals that were *answered*, and that is not inductive: a
  list could be read between the storing of a dismissal and the deletion of the
  cached list. The invariant has two halves. `NoneListed`: from the moment a
  dismissal is stored, no list under way has the advisory unless it was read
  before (`late`). `NoneCached`: once it is answered, no cached list has it.
* `Chat_proofs`
  * Of pages, for any set of rows, size and order: `PageTyped`, and `PageAfter`:
    the first page and the page after a cursor show the rows up to their own
    cursor, which is the last of them, or all that are left. A proof by induction
    over the rows is out of reach; `Least` and `Greatest`, from the
    well-foundedness of the naturals, give the first row at which a claim would
    fail instead.
  * `WalkShowsAll`, from `WalkInv`: what a walk has shown is what lies up to the
    cursor of its next page, of the messages of its first page's time that are
    still there, and nothing twice.
  * `ShownAreMarked` (`MarkedStays`: a mark is made, or fails, but is not lost),
    `DeletedTextIsKept` (`EditSeen`: a message about to be edited is kept, or was
    deleted under that edit, or gone with its sender), `OneChatEach`
    (`CreatedOnce`: a client has a chat, or one request about to create it), and
    `DigestReachesAll` (`CountsAgree`: the digest's query counts what the chat
    list counts; `DigestInv`: who has still not read the message of his pair is
    to be mailed). `MessagesStay` is common to all: no step moves a message,
    takes a read mark away or brings a deleted message back.
* `ScanPipeline_proofs`: `PendingScanned`. `PendingIsUnderway` counts a job at
  every stage as underway, the alert included, where its verdict is written
  already; `PendingAhead` asks for a job that has not written yet, and `Given`
  says that what is cached, or was answered by the scanner, is never PENDING,
  so that a write ends the wait.
  `NoVerdictGoesBack`, from `Ordered`, whose parts hold each other up: a job
  was asked before now and for its link's URL (`JobsRight`), jobs of one URL
  that are processed at one time are known to be (`OneOfItsUrl`), what a consumer
  holds is no older than what was asked, cached and written (`WorkersFit`), and
  no link of a URL has a later verdict than the one cached (`CacheRight`), so
  that a cached verdict, when it is written, takes no link back (`LinksRight`).

What the runs explore is tied to the modules by three lemmas:
`RecordsImplement`, `AccountsImplement` and `ServicesImplement` prove that every
behaviour of `MCLinkRecords`, `MCAccounts` and `MCServices` is one of each of the
modules in it. A choice of part, or a guard that keeps a run small, adds no step,
and every theorem above holds of what TLC explores. From them follow
`RecordsTypeCorrect`, `AccountsTypeCorrect` and `ServicesTypeCorrect`, the type
invariants of the three compositions. `RecordsFit` says that the user and the
link that `MCAnalytics` names are among those of the instance.

Every invariant and action property of the passing runs is a theorem. Only
model-checked are the three liveness properties (`ScheduledOpens`,
`ExpiryEnforced`, `GhostsExpire`), since fairness and ENABLED are out of the
prover's reach here.

## 6. Not modelled

* **Files, configuration, logging, filters, interceptors, health, mail
  templates**: plumbing and pure I/O without protocol state. What the templates
  say is never part of a property.
* **Keycloak**: who a request is from is an input of every action.
* **Listings** with filters, search and sorting of links, tags, users and
  advisories: reads without effect. Their pages are `CursorPage` and the offset
  pages of `Analytics`.
* **Rooms and broadcasts** of the WebSocket gateway: emissions without state of
  this code; the presence events are in `Presence`.
* **The billing portal**: its effects reach the code as Stripe's events.
* **Names and colours of tags, notes, titles, texts**: no property is about
  them. A request that they would refuse is one that may fail at any time.
* **`database/seed.ts`** and the Prisma schema's migrations: run before the
  program does; the schema's unique columns and cascades are in the actions.

## 7. What is left

1. A composition of `Billing` with `LinkCatalogue` and `Retention`: a tier that
   changes while links are counted, warned of and deleted (each module has the
   change of tier as an action of its own now).
2. Which repairs would let the properties of `billing` excuse less: one
   transaction for both tables, and the state of a subscription fetched when an
   event is handled.
3. The handlers of files, of seeds and of the listings of administrators.
