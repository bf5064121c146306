# Bengaluru walkability: a TLA+ verification project

Citizens photograph a broken pavement, a browser wizard sends the photo with a
place and a category, a Rust service (axum, sqlx) stores it in PostgreSQL with
PostGIS, a background job links duplicates, a public map shows the reports, and
officials triage them in an admin portal.  This directory models the parts of
that system whose correctness depends on the order in which things happen,
checks them with TLC on small instances, and proves the most important
invariants with TLAPS for every value of the constants.

Paths below are relative to the root of the repository.

## 1. Inventory

### Components, their state and their operations

| component | state it keeps | operations |
|---|---|---|
| Report wizard (`frontend/app/report/page.tsx`, `ReportCTA.tsx`, `photo-store.ts`) | the form, the step, callbacks under way, `window.__pendingPhoto` | pick, process, locate, adjust, look up the ward, submit, retry, retake, leave |
| Report submission (`handlers/reports.rs`, `db/queries.rs`) | a row of `reports`, a file in the upload directory, the "Auto-assigned" row of `status_history` | `create_report` |
| Admin triage (`handlers/admin.rs`, `db/admin_queries.rs`) | status, resolution photo, organisation, history | status, resolve, assign, delete |
| Deduplication job (`db/dedup_job.rs`) | `duplicate_of_id`, `duplicate_count`, `duplicate_confidence`; the candidates of a pass in memory | a pass every five minutes |
| Public statistics (`migrations/011`-`013`) | the materialised view `public_stats_mv` | a trigger after every statement on `reports` |
| Exports (`handlers/admin.rs`, `handlers/stats.rs`) | a task, a channel of 32 chunks and a pooled connection per request | CSV, admin GeoJSON, public GeoJSON |
| Rate limiters (`main.rs`) | a bucket per key, in memory | check and take |
| Public map (`frontend/app/map`, `ReportsMap.tsx`) | the reports of the last answer, loading, error, the chosen category | fetch on mount, on return to the tab and on Retry; filter |
| Report queue (`frontend/app/admin/reports/page.tsx`) | a page of the list, its totals, the status dialog, calls under way | turn pages, retry, change a status, delete |
| Reports table (`ReportsTable.tsx`) | view mode, chips, search, the rows that are open and the duplicates fetched for them | filter, search, switch, open and close |
| Report page of the portal (`admin/reports/[id]`, its panels and `ResolveModal.tsx`) | the report, five kinds of calls, the picked photo and its object URL | load, move, assign, resolve, delete |
| Admin accounts (`db/admin_seed.rs`, `handlers/admin.rs`, `admin/users/page.tsx`) | `admin_users`; the list and the dialog of the page | seed, create, deactivate, list |
| Portal shell (`middleware.ts`, `admin/layout.tsx`, login, dashboard, map, analytics, profile) | the cookie, the page that is open and its fetches | sign in and out, read, save a name, change a password |
| Public report page (`frontend/app/reports/[id]/page.tsx`) | none | renders one answer: badge and timeline |
| Organisations, wards, other lists and pages | tables that hardly change | reads |
| Image orientation and metadata (`handlers/reports.rs`) | none | a pure function on bytes |
| Reverse proxy, backup | configuration; an archive | forwarding; dump and archive |

### How they interact

* The wizard calls `POST /api/reports` and gets a success also for a photo that
  is already stored, so a retry cannot be told from a first submission.
* `create_report` writes the file, then the row, then the history row: three
  awaits at each of which the handler can be dropped with its client.
* The admin handlers run a transaction for the row and its history and read the
  report back afterwards, outside of it; files are written before and removed
  after it.
* The job shares the table `reports` with all of them and takes no lock between
  its queries and the transaction that links.
* Every statement on `reports` fires the trigger that refreshes the statistics
  view, inside the transaction of whoever issued it. All writers therefore meet
  at one lock.
* Exports hold connections of the same pool for as long as their clients read.
* The limiters stand before anything else a handler does and forget everything
  when the process ends.
* No page of the portal numbers or cancels its calls: whatever answer comes last
  is shown, on the queue after a refetch, on the report page as the whole report.
* Every answer of the portal crosses `apiFetch`, and where the frontend is not
  behind nginx (`nginx/nginx.conf:132` sends `/api/admin/` straight to the
  backend) the Next.js proxy before it; both read bodies that some answers do
  not have.

### Hard behaviours, and the properties that make each component correct

| component | hard | what must hold |
|---|---|---|
| Deduplication job | candidates and parent are read by earlier calls than the link; deletions and insertions in between; any call may fail | links are acyclic, never move, are all counted; a recent duplicate is handled in the end |
| Report lifecycle | file, row and history are three stores without a common transaction; disconnections, restarts, a COMMIT whose answer is lost; one photo submitted twice | a photo is stored once, a report has its image and its evidence, the history explains the status and the public timeline the badge, a negative or fake answer left nothing but, at worst, the photo of a refused resolution |
| Report wizard | callbacks of photos, geolocation, ward lookups and the POST finish in any order and find a later form | what the form says about its location is true; "submitted" means stored, unless the honeypot was filled |
| Statistics view | lock order between rows and view, snapshot older than the lock | handlers do not deadlock among themselves; a transaction that ran alone repairs the view |
| Exports | a full channel with a connection in hand, a client that leaves, an error after the 200 was sent | every task ends; a document is in order, and complete or marked |
| Limiters and public map | bursts at the edge of a window, restarts, overlapping fetches that are refused | a bound on every sliding window; an empty map is an answer; Retry gets through |
| Queue and its table | answers to earlier requests that come late, a failure that empties the list, rows closed and opened while a fetch is under way | "No reports found" is an answer; the newest list holds the page's own changes; groups hold duplicates; spinners end |
| Report page | the row and its history are two reads, calls overlap, object URLs outlive pictures | the timeline reaches the status; a page at rest shows what is stored; previews do not leak |
| Accounts | two backends seed an empty table, read-then-write on accounts, 204s behind the proxy | somebody can always sign in; what was reported as done is on the list |
| Portal shell | an answer to a page that was left, a save that its page gave up and the server did not, a cookie set after signing out, three fetches of which one fails | "saved" is stored, signing out ends the session, one page shows one fetch, nothing is stuck |

`PROJECT.json` lists every hazard at the line where it bites, with the
properties that cover it or the reason why none does.

## 2. Plan

Done, in the order of their importance: `DedupJob`, `ReportRegister` and
`ReportLifecycle`, `ReportWizard`, `StatsRefresh`, `ExportStream`;
`AdminQueue`, `ReportsTable`, `AdminReportDetail`, `KeyedLimiter` and
`PublicMap`, `AdminAccounts`, `PortalTab`.

Left, in this order:

1. `ReportWizard` composed with `ReportRegister` in the place of its reduced
   server, and the step simulation that goes with it.
2. Invariants behind the liveness properties of the table, the report page and
   the users page, of the kind `AlwaysAwaited` is for the tab: whatever is waited
   for is under way.
3. Pure functions checked against reference definitions: CSV escaping,
   pagination, the EXIF orientation reader, the organisation subtree.
4. The downloads of the portal.

Modules that are proved about declare no `RECURSIVE` operator, name the
assumptions on their constants, have one action per operation, and end with the
inductive invariant as a conjunction of named parts. An invariant that no run
checks stands in the module of its proof. Two components whose pages or tables
belong together share a module of proofs, so their names are told apart
(`WizardInit`, `StatsNext`, `PortalSpec`).

## 3. Modules

Each module is a state machine: `VARIABLES`, `Init`, one action per operation
or step, `Next`, `Spec`. `MC*` modules add what an instance needs and the claims
of documents that the code does not meet. Operators such as `LinkRowsSwapped` or
`HangUpAtHead`, which stand just before the definition they vary, are plausible
mistakes; they occur in no specification and serve to show that each property
would notice one. Counters named `Max...` bound clicks, changes by others and
faults, and occur in guards only.

### DedupJob

`run_dedup_loop`, `run_dedup_pass` and `link_duplicate` against inserts, status
changes and deletions. The table is kept by column. The job is in the loop
(`find`), about to link (`link`) or between ticks (`idle`); `todo` is the vector
of candidates a pass fetched, `child` and `parent` are its two local variables.

* `PassStart` is the candidate query with its 15-minute window and its LIMIT,
  `Find` the nearest-original query for the next candidate, `Link` the commit of
  the two UPDATEs, `LinkRefused` the foreign key violation, `PassAborts` any
  failed call or a restart: `?` drops the rest of the pass.
* `InsertBegin`/`InsertCommit`: `created_at` is `NOW()` of a transaction that
  becomes visible later, so reports may appear in another order than they are
  dated.
* A category and a location are one `Place`; `Near` is the relation
  `ST_DWithin` and equal category accept, assumed symmetric and nothing else.

### ReportLifecycle

Every HTTP request is a process; one await of its handler is one step. Requests,
the reports they create and the files they write share one name. `Refuse` stands
for the early returns before anything is written (validation, honeypot, quota,
decoding), `RefuseResolve` for the one after it: a resolution to a valid status that
is not final passes the handler's checks, its photo is written, `resolve_report`
refuses it, and the clean-up is best effort. The row lock of an
UPDATE makes transactions on one report commit in the order of their UPDATEs,
while `stamp`, the `NOW()` that dates the history, is taken by `Begin`.

Faults are a budget (`MaxFaults`): a failing read or write, an INSERT or COMMIT
that fails or whose answer alone is lost, a file that cannot be removed, a
disconnection (the handler is dropped at its await), a restart (all are).

What the citizens see of it is read off the state: `publicStatusLabel`,
`StatusBadge` and `Timeline` are the badge and the entries of the public report
page, `PublicHistory` the two filters of the query behind them.

### ReportRegister

What the handlers promise, without their steps: a register in which a request
takes effect at most once, in one step (`Register`, `Change` or `Withdraw`,
always together with the audit trail), or not at all. A request ends denied
(never an effect), confirmed (an effect), or lost (an error or no answer: either).
`ReportLifecycle` defines the mapping: `Outcome` reads off a request's place and
answer what has become of it, `Trail` is the history without its dates, and
`Implements` is the register's specification under that mapping. A 404 for a
change that was made (`gone`) counts as lost, since the register would not let
it be denied. The upload directory is no part of the register: files have no
atomicity to offer.

### ReportWizard

One browser tab and what the server does with its requests. Everything the page
awaits is kept as a set or a counter of callbacks under way (`picks`, `asks`,
`lookups`, `reply`) that later find the form as it is then. Requests no page
waits for any more (`strays`) may still be served. A location is known by its
origin: a photo's EXIF, a fix, a pin, or the centre of the city.
The server is reduced to what `ReportLifecycle` promises: a photo is stored once,
and one that is known gets a success (`ServePost`). A submission whose honeypot
field was filled gets the answer of a success and no row (`FakeSuccess`); every other
refusal is an error to the page (`RefusePost`). `SuccessCard` is what the last
screen says.

### StatsRefresh

Transactions with their row locks, the foreign-key locks, the exclusive lock of
the view and the snapshot of the REFRESH, which is taken when the statement
starts and so before it waits for the view. That part is PostgreSQL's behaviour
at READ COMMITTED and marked external. `Begin`, `Write`, `Cascade`, `KeepParent`,
`Refresh`, `Count` and `Commit` are the stages of a transaction; `Rollback` ends
a deadlock or any failed call. `Count` is the second UPDATE of `link_duplicate`,
which comes after its first one has already taken the view.

### ExportStream

`admin_export_csv`, `admin_export_geojson` and `public_get_geojson`, told apart
by `kind`. A task walks from `head` over `acquire` and `fetch`/`row` to `tail`
and `end`; `error` is the sentinel line or feature of the admin exports. `sent`
is everything the channel took, `read` how much of it the client has got, and
their difference is what the channel holds. `held` are the tasks with a pooled
connection: taken by the first `rows.next()`, given back when the rows end, fail
or are dropped with the task. `Leave` is a client that goes, or that the proxy
gives up on; `send` fails from then on.

### AdminQueue

The queue page in front of the list, delete and status handlers. A report is its
position in time, so that a page of the list is a slice of the newest; `rev`
counts the changes of the table and dates what an answer was read from.

* `FetchReports` begins a request, `List` and `Count` are the two queries of its
  answer, with changes possible between them, and `Settle` is the answer at the
  page. Requests are neither cancelled nor numbered in the code; the `n` of a
  request is a history the page does not look at.
* `HandleDelete`, `ServeDelete` and `Deleted`/`NotDeleted`, and
  `ConfirmStatusUpdate`, `ServeUpdate` and `Updated`/`NotUpdated`, are the two
  changes with the list request that follows them; `Others` is everybody else.
* `View` is what the page renders: skeleton, error card, "No reports found" or
  the rows.

### ReportsTable

What the table keeps for itself while the page hands it rows. `Refetch`,
`Loaded` and `NotLoaded` are the page's requests as the table meets them: it
stays mounted behind the skeleton, and is unmounted when a request fails, which
loses its state. `dupCount` is the counter that the button of a row depends on: links
add to it and no deletion takes anything back. `ToggleExpand` is the decision to fetch, taken from what is kept
when the row is opened; `Serve` and `Settle` are that call. `Link`, `SetStatus`
and `DeleteReport` are the job and other admins. The view follows the width of
the window (`Resize`), the chips exclude or add to each other (`ToggleFilter`).

### AdminReportDetail

The page of one report. Each of its five kinds of call is `idle`, `sent`,
`saved` (the transaction has committed), `read` (`ReadRow`) and `answered`
(`ReadHistory`): after the commit each handler reads the row and then its
history, in two statements. The snapshot that comes back replaces what the page
shows. `OpenModal`, `HandleFileChange`, `HandleRemovePhoto`, `HandleSubmit` and
`CloseModal` keep the set of object URLs that were made and not revoked.
`Others` is an admin at the queue's dialog, which asks for no photo. With
`Proxied`, the calls go through the Next.js proxy, which fails on the 204 of a
deletion; behind nginx they do not.

### KeyedLimiter and PublicMap

`KeyedLimiter` states what `main.rs` gets from the `governor` crate: a bucket of
`Burst` permits per key, one of which comes back every `Period`, in memory only.
The bucket is a debt, the time until it is full; `ages` is a history, the ages of
the latest admissions.

`PublicMap` extends it: the chips and the map of one visitor, and
`GET /api/reports.geojson` behind the bucket of the visitor's address. A fetch
begins when the map mounts, when the tab becomes visible again
(`HandleVisibilityChange`) and on `Retry`; `Serve` takes a permit or refuses,
`Lose` and `RestartBackend` are the faults, and `Answered`, `NotAnswered` and
`Dropped` are the answer at a page that shows it, shows the error, or is gone.

### AdminAccounts

`Seeding` is `seed_admin_user` of every backend process: count, then insert, with
the unique email between them. Creation is one INSERT; a deactivation reads its
target and then writes (`step` "read"), and two of them overlap. The users page
has its list with the fetch after every change and the dialog, which may be
closed and opened again while its submission is under way. `knownOff` and
`knownNew` are histories: the effects whose success the page has handled.

### PortalTab

One tab from signing in to signing out. `screen` is the page that is open and
`page` its state; most links of the portal load a page from the server, which the
middleware and the layout may redirect. What was asked for on the page that is
left may still arrive at the server (`Left`), and its Set-Cookie in the browser.
Through the router go the sidebar's link to the profile (`OpenProfile`) and the
redirects of a 401: the sidebar stays, on the login page too, and waits on for the
answer to a sign-out. `Lose` is a fetch that rejects: the call or its answer is lost,
or the proxy and the handler, which learn nothing of it, go on (`GoingOn`), so that
a save may take effect after its page has said that it failed, and after a later one.
`ours` records whether the name in the row is by a save that its page awaited.
`ServeLogin`, `UpdateProfile`, `VerifyPassword`/`ChangePassword` and `ServeRead` are
the handlers, `LimitLogin` the proxy's limit, `CountDown` the timers of the
locked form, `Expire` the end of the token. Each of the pages has the order of
its fetches and what it does when one of them fails.

## 4. Runs

| run | instance | shows |
|---|---|---|
| `dedup_job` | 3 reports at one place or in a row of which only neighbours are near, 1 or 2 addresses, LIMIT 3, one fault | links are acyclic and never move, the count covers them, a high confidence is earned, and every linkable report is handled |
| `lifecycle_faults` | 3 requests, 2 photos, 3 statuses, up to 3 faults, symmetric | the six invariants of the lifecycle, and that it implements `ReportRegister` |
| `wizard_forms` | 2 photos (one with coordinates), 2 fixes (one outside), 1 pin, 1 geolocation under way, 2 submissions | what the form says of its location is true; a success means a stored report, unless the honeypot was filled |
| `stats_locks` | 3 reports, 2 handlers and the job, symmetric | only the job's second UPDATE can be in a deadlock; a lone transaction repairs the view |
| `stats_stale` (violation) | 2 reports, 2 handlers and the job | two overlapping transactions leave the view stale |
| `export_streams` | 2 exports of any kind, channel of 1, one connection, up to 3 rows | a document is complete or marked, the public one valid, and every task ends |
| `queue_pages` | 2 reports, pages of one, 3 clicks, 1 change by others | an empty list is an answer, the newest list holds the page's own changes, the list returns |
| `table_groups` | 3 reports with any links, 2 pages, 2 searches, 3 clicks, 1 change by others | what stands under a row was linked to it; every "Loading" ends |
| `detail_page` | an assigned report, 2 calls besides the first, 2 picked files, 1 change by others | previews do not leak, the timeline reaches the status, a page at rest is current, buttons come back |
| `map_visits` | quota of 2 per 4 ticks, 2 overlapping fetches, 2 moves of the visitor, 1 fault | fewer than 4 requests in any window, an empty map is an answer, Retry gets through |
| `accounts_users` | 2 backends, 3 addresses, 3 calls, 4 clicks, 2 faults, symmetric | the seeded super-admin stands; the list holds what was reported as done |
| `portal_pages` | 2 names, 2 passwords, 4 clicks, 1 fault (a call that is given up and served later included), a lock of 2 seconds | "saved" is stored, signing out ends the session, one page shows one fetch, nothing is stuck |

### Why the bounds are enough

* Deduplication: a cycle needs two reports and a moved link three; a chain of
  three places in which the ends are not near each other is the smallest
  geography in which nearness is not transitive. Two addresses are what the
  threshold compares. `SceneInit` chooses one of each kind of scene up to a
  renaming of reports and addresses, since symmetry would be unsound with the
  liveness property.
* Lifecycle: three requests are a creation and two changes that race on it, or
  two creations of one photo with a deletion; each property relates at most two
  reports or one report and two requests. Three faults are one within each of
  the three requests.
* Wizard: two photos are one that is replaced by another; one with and one
  without coordinates are the two branches of `handleFile`. A second submission
  is the retry.
* Statistics: three reports are a parent, its duplicate and a bystander; two
  handlers and the job are the smallest circle that does not consist of two.
* Exports: two tasks and one connection make one wait for the other; one chunk
  of capacity makes the channel run full and empty at every row, and three rows
  are a first one, one between two commas and a last one.
* Queue: two reports on pages of one are two pages, so that a deletion empties
  one; three clicks are two overlapping requests and a change between them.
* Table: a group under a row that is itself moved to another group needs three
  reports; three clicks are open, close and open again.
* Report page: two calls overlap with each other and with the change by others
  between the two reads of one of them; two files are a picked one and its
  replacement. From "assigned" the panel offers a move and a
  resolution; the safety statements are proved for every start.
* Map: two fetches overlap; four ticks are one window of the limiter, and a
  `Burst` of two is the code's. The bound is proved for every quota.
* Accounts: two backends are the race of the seed, three addresses the seed, an
  account that is created and one that is deactivated; two faults are a lost
  answer and a failing query.
* Portal: four clicks sign in, open a page, begin something and leave it, or save
  twice; one fault is the loss of the first of two saves.

Where a run and a theorem state the same property, the bounds only matter for
the search of counterexamples; the theorem has none.

`CHECK_DEADLOCK` is off everywhere: requests, ids, clicks and submissions are
finite in an instance, and a system without further requests stops.

### Fairness

* `DedupJob`: weak fairness of the job alone. The loop is spawned once at
  startup, its interval keeps ticking and the runtime polls it; citizens,
  admins, the clock and faults are under no obligation, and faults are bounded.
* `ExportStream`: weak fairness of each task, since the runtime polls it and
  `sqlx` ends a wait for a connection by its time limit; and of each client
  reading *or* leaving, since the proxy cuts off a client that does neither. No
  client is assumed to read to the end.
* `AdminQueue`, `ReportsTable`, `AdminReportDetail`: every promise of a `fetch`
  is settled, as the browser guarantees by an answer or a network error, and its
  callback then runs. Whether the answer is a success is left open, and no
  handler or admin is assumed to do anything.
* `PublicMap`: time passes, requests are served and answers handled. The visitor
  keeps pressing Retry, and returns to the tab and the page: that is the premise
  of `RetryRecovers`, which speaks of a visitor who does, and not a property of
  the code.
* `PortalTab`: calls are served, answers handled, timers fire; the citizen or
  official need not click.
* All other runs check safety only and assume nothing.

## 5. Proofs

TLAPS proves these for every value of the constants that meets the named
assumptions of the modules, with no bound on reports, requests, exports, rows,
clicks or faults.

| module | theorem | statement |
|---|---|---|
| `DedupJobProofs` | `TypeCorrect` | types, and the foreign key of `duplicate_of_id` |
| | `NoCycle`, `CountCovers`, `HighIsTwice` | `NoDuplicateCycle`, `CountCoversLinks`, `HighCountedTwice` |
| | `NeverReparented` | the action property `DuplicateNotReparented` |
| `ReportLifecycleProofs` | `TypeCorrect` | types |
| | `NoPhotoTwice`, `ImageOnDisk`, `EvidenceOnDisk` | `UniquePhoto`, `ImagePresent`, `EvidencePresent` |
| | `NothingIsSaved`, `FilesAccounted`, `TrailHonest` | `NothingSaved`, `NoStrayFile`, `AuditTrail` |
| | `ImplementsRegister` | `Implements`, the refinement of `ReportRegister` |
| `DatabaseProofs`: exports | `TypeCorrect` | types, channel and pool bounds, no connection kept by an ended task |
| | `Ordered`, `CutMarked`, `PublicValid` | `InOrder`, `CutIsMarked`, `PublicParses` |
| statistics | `StatsTypeCorrect` | types, and the foreign key of `duplicate_of_id` under its locks |
| | `CirclesPassTheCount` | `DeadlockNeedsCount` |
| | `AloneAlwaysRefreshes` | the action property `AloneRefreshes` |
| `AdminQueueProofs` | `TypeCorrect`, `NoIdleSpinner` | types; a skeleton has a request |
| | `EmptinessAnswered`, `OwnChangesShown` | `EmptyIsAnswered`, `ConfirmedIsShown` |
| | `DialogKept`, `OnlyAdminsDelete` | the dialog stays on its report; a reviewer deletes nothing |
| `PortalProofs`: table | `TableTypeCorrect`, `GroupsLinked` | types; `GroupsWereLinked` |
| | `LoadingAwaited`, `ChipsLit`, `ViewOfWidth` | "Loading" has a call; some chip is lit; the view fits the window |
| tab | `PortalTypeCorrect` | types, page by page |
| | `AlwaysSavedIsStored`, `LogoutAlwaysEnds`, `AlwaysOfOneFetch` | `SavedIsStored`, `LogoutEnds`, `AnalyticsOfOneFetch` |
| | `AlwaysAwaited` | `WaitingIsAwaited`: behind every spinner and locked form is a call under way, or the countdown |
| `AdminReportDetailProofs` | `TypeCorrect`, `PreviewsLive`, `TimelinesReach`, `QuietPageIsCurrent` | types; `PreviewIsLive`, `TimelineReachesStatus`, `QuietIsCurrent` |
| | `StatusWritersExclude`, `FinalsHavePhoto` | a PATCH and a resolution of one page exclude each other; this page makes nothing final without its photo |
| `CitizenProofs`: map | `LimiterWindow`, `MapWindow` | `SlidingWindow`, of the limiter and of the map |
| | `MapImplementsLimiter` | every step of the map is a step of `KeyedLimiter` or leaves it alone |
| | `TypeCorrect`, `EmptinessAnswered` | types; `EmptyMapIsAnswered` |
| wizard | `AlwaysConfirmedIsMeasured`, `AlwaysSourceNotOverstated` | `ConfirmedIsMeasured`, `SourceNotOverstated` |
| | `AlwaysLabelOfForm`, `AlwaysSuccessIsStored` | `LabelOfForm`, `SuccessIsStored` |
| `AdminAccountsProofs` | `TypeCorrect`, `OneSuperAdmin`, `SuccessesListed` | types; `SuperAdminStands`, `ConfirmedIsListed` |

**Deduplication.** `NoDuplicateCycle` is not inductive: a link written for a pair
that was chosen earlier could close a cycle. `DedupJob!IInv` adds what the job
knows between its calls: the candidates it still holds and the pair it is about
to link are all unlinked (`TodoUnlinked`, `PairUnlinked`), because only the job
links, one pair at a time. A closed set of reports after a link would have to
contain the parent, which has no link. The counting invariants need that the
rows are finitely many and that a deleted row leaves no confidence behind
(`AbsentRowsClear`). `NeverReparented` follows from the same invariant.

**Lifecycle.** `Roles` ties the place of a request to what it asks for and to the
file it holds; with it, a file can only be removed by the request that owns it
or by the deletion of the report it is the image of. `EvidenceRoles` says the same of the
photos of resolutions and carries the one exception, a COMMIT whose answer was
lost. `UniquePhoto` rests on the unique index alone. `Denied` says who has written
no file yet, so that an early refusal has none to leave behind, and that the photo
of a resolution refused later is still to be removed, unless there was a fault;
`Untouched` that a request without an effect is in no history and no evidence;
`Filed` that the image of a deleted report is about to go. For `AuditTrail`, `Explained` is stronger than
the first two conjuncts: once any change was made, the status is that of some
change, also when it is open again, so that a citizen's filtered timeline has an
entry for the badge; `Recorded` puts the entry of a change before its answer, and
`Attributed` ties entries to requests that no longer choose their report.

`ImplementsRegister` is a step simulation: each handler step is shown to be one of
the register or none (`Simulates`), by one lemma for each kind of step: it stays
(`StayStep`), denies, loses, drops, takes effect, confirms. What it needs of the
invariant beyond types and roles is `Unanswered`: a handler that has yet to take
effect has answered nothing, so that no effect follows an answer.

**Exports.** `Counted` relates the place of a task to the number of chunks out,
`Placed` says what may stand where, `Closed` what a task that nobody hung up on
has written by its tail and its end. That an exhausted query means a complete
document (`ExhaustedIsComplete`) follows from the first two: at `fetch`, chunk
`k` is row `k - 1`. The bound of the pool is an argument on cardinalities.

**Statistics.** A deadlock is a set of transactions of which each waits for
another, so what has to be known is who can wait for whom. `LocksExplained` says
why every row lock is held: it is the row of the holder's own statement, the
parent of the job's link, or a duplicate that a deletion has to clear; `RowsHeld`
is the converse, and `LocksExclude` the compatibility of the modes. Whoever holds
the view has all its rows, except for the job before its second UPDATE
(`ViewHeld`). So in a circle without the job at that UPDATE nobody waits for the
view, and some member is a deletion that has its row and wants the duplicates of
it (`CircleStages`). Such a deletion can only wait for the deletion of one of
those duplicates (`CircleFollowsLinks`), so the finitely many rows that the circle
deletes would each have a duplicate among them, which `LinksAcyclic` excludes
(`NoLinkCircle`). `LinksAcyclic` in turn needs `JobUnlinked`: what the job
is about to link, nobody links meanwhile. For `AloneRefreshes`, a transaction
that met nobody has taken its snapshot of the rows as they were and will be
committed (`SnapshotTaken`).

**Queue.** `ConfirmedIsShown` speaks of the newest request only once its answer
is shown; `Dated` carries it there: the newest request is read, at the earliest,
after every change the page was told of, because the page refetches after the
success and not beside it. `EmptyIsAnswered` rests on `OutcomeShown`, which
relates how the last request ended to the three flags the view is drawn from,
and `OutcomeShown` on `SpinnerHasFetch`.

**Table.** `GroupsWereLinked` needs the same of the calls under way
(`CallsWereLinked`), and that an unmounted table has none (`Unmounted`), so that
the history of links may begin anew with the table.

**Tab.** The properties speak of the page that is open; what can break them are
calls, of this page, of one that was left, or given up and still at work. `CallsFit`
says of each call: if it is waited for, it is of the page that is open or of the
sidebar, and a sign-in that nobody waits for is on record (`Belongs`); it carries
what its handler needs (`Carries`); a read or a save that is waited for is waited for
by the profile page, and a name it was answered with is the one in the row as long as
the row is by a save that was awaited (`Awaited`); without a token, the browser had
none either, if no call was lost (`TokenKnown`, from which `LogoutEnds` follows for a
sign-out that is refused). A save that is given up and commits later takes `ours`
away, so nothing is claimed of the name until the page saves again. `OneAwaited` is needed because the first of two saves
under way could report a name the second has replaced. `FormFits` keeps the form
apart from the spinner before it. Four schemes carry the proof, each a lemma: a
step of the open page (`OnPageKeeps`), a step of a handler or of the network
(`AdvanceKeeps`), and a page or the login page coming in place of another
(`ShowKeeps`, `ShowLoginKeeps`). `WaitingIsAwaited` is a second invariant on top
of the first: it is what `PagesSettle` rests on besides fairness, and would fail
if an answer could be dropped, or a call not be asked, without the page noticing.

**Report page.** `TimelineReachesStatus` is carried from the two reads to the
page by `Read`: what was read is not ahead of the table, and a history read
after its row is complete up to it. `QuietIsCurrent` needs that calls which do
not overlap are one (`Sole`) and that this one, once it has read, holds the
stored report (`Fresh`). `Carried` says where each kind of call may be; with it
a final status is only ever written by a resolution, which has a file.

**Limiter and map.** The window is not inductive over the ages alone: `DebtCovers`
says that `i` admissions within a window leave a debt of `i` periods less the
time since the first of them, and the debt has a maximum. That the map takes,
refuses, ages and resets its bucket only as the limiter may gives the bound to
the map by refinement. `EmptyMapIsAnswered` is inductive as it stands: every
fetch begins by setting `loading`.

**Wizard.** A claim about a location is copied from the form into the request,
from there into a request nobody waits for any more, and into the table.
`HonestEverywhere` asks the same of every copy, so that a late callback, which
finds another form, cannot turn a true claim into a false one on its way.
`LookupsOfForm` says that only the coordinates on the screen are being looked up,
which the abort in the effect's cleanup is for; `OkIsStored` that an answer of
success already stands for a row, or for a filled honeypot, before the page has it.

**Accounts.** `SuperAdminStands` is nearly inductive: the unique email decides the
race of the seeds, an account is created without the flag, and the flag is read
before a deactivation, which nothing can give in between. `ConfirmedIsListed`
needs that accounts are never removed or reactivated (`Effects`) and that a list
that overlaps with none was asked after every success (`OneList`, `ListKnows`).

Every safety and action property that a passing run checks is proved as well.
Only model-checked are the liveness properties (`EventuallyHandled`,
`EventuallyEnds`, `ListReturns`, `LoadingEnds`, `CallsReturn`, `RetryRecovers`,
`PagesSettle`): fairness and `ENABLED` are outside the prover's reach. Types are
proved and not run in the modules that have proofs.

## 6. What the models found

One statement has a run of its own, `stats_stale`:

* **`StatsConsistent`** (`migrations/013_fix_delete_trigger.sql:7`). Of two
  overlapping writers the second refreshes from a snapshot that does not contain
  the first; the view stays stale until the next statement on `reports`.

The following do not hold of the code either. They are definitions of the
modules and in no configuration; with the name as the one INVARIANT of the
module's configuration, without its SYMMETRY line, TLC shows how.

* **`NewerPointsToOlder`** (`MCDedupJob`). The plan says that the newer report
  points to the older. The nearest-original query takes the oldest *other*
  report, so the first of two fresh reports is visited first and linked to the
  second.
* **`DuplicateLeavesNothing`** (`MCReportLifecycle`). An identical photo is
  promised a success without a file. Two concurrent submissions both pass the
  lookup; one INSERT fails on the unique index, with a 500 and an orphan file.
* **`CurrentIsStatus`** (`MCReportLifecycle`). The timeline is ordered by `NOW()`,
  the start of the transaction, while the row lock orders the updates: the entry
  marked as current may be one that was overwritten.
* **`OneOpenEntry`** (`MCReportLifecycle`). The two filters are to leave exactly
  one "Open" entry (`db/queries.rs:382`); a report that is put back to open has
  two.
* **`GpsApiIsDevice`** (`MCReportWizard`). `GPS_API` is also sent for the city
  centre or for what the form held before, when geolocation did not answer.
* **`CardWardIsSubmitted`** (`MCReportWizard`). The success card shows the ward of
  the form, which a late lookup may still change.
* **`CardIsWhatWasSent`** (`MCReportWizard`). A retry after a lost answer is told that
  its photo is known, which the page takes for its own success; the row keeps the
  location of the first submission, also when the pin was moved in between
  (`handlers/reports.rs:237`).
* **`GeoJsonParses`** (`MCExportStream`). The error feature always begins with a
  comma, which is invalid JSON when the query fails before its first row.
* **`NothingFoundMeansNothing`** (`MCAdminQueue`). "No reports found" stands on a
  page that the last deletion emptied while there are reports on the others; the
  pager that would lead back is not shown.
* **`FirstExpandOnly`** (`MCReportsTable`). Duplicates are to be fetched on the
  first expand only (`ReportsTable.tsx:619`); closed and opened again before the
  answer, a row fetches twice.
* **`FinalNeedsPhoto`** (`AdminReportDetail`). "Cannot resolve without photo
  evidence": the report page keeps to it (`OwnFinalsHavePhoto` is proved), the
  dialog of the queue and the status handler do not.
* **`DeletedIsReported`** (`AdminReportDetail`, with `Proxied = TRUE`). The Next.js
  proxy builds a body for a 204, which throws (`app/api/admin/[...path]/route.ts:33`):
  the page says that a deleted report could not be deleted, against
  `docs/ac/admin-reports-ac.md:934`. A deactivation has the same fate.
* **`RefusalChangesNothing`** (`PortalTab`). `admin_change_password` answers an
  empty 200 (`admin.rs:1382`), which `apiFetch` cannot read
  (`adminApi.ts:167`): the password is changed and the page says that it could
  not be, against `docs/ac/admin-phase2-ac.md:459`.
* **`SavedStaysStored`** (`MCPortalTab`). "Profile saved."
  (`admin/profile/page.tsx:91`): a save whose fetch failed may be stored after a later
  one was answered, and its name then stands in the row while the page shows the
  other as saved.

Met on the way, without a definition of their own:

* Of two concurrent changes of a password both succeed, where
  `docs/ac/admin-phase2-ac.md:435` expects the second to be refused; `PortalTab`
  has the two steps.
* A sliding hour may see three submissions where `docs/API.md` speaks of two:
  `SlidingWindow` is the bound that holds. A restart empties the buckets, and
  they are never shrunk.
* Candidates without a match are never retired, so 500 of them keep younger ones
  out of a pass.
* A public export that is cut is valid but says nothing of it.
* On the dashboard the bars of two overlapping periods are those of the answer
  that came later; in a wide window a failed fetch shows zeros, without a Retry.
* The portal's map filters by statuses of an earlier vocabulary and shows the
  first 200 reports only.
* The profile page asks for 8 characters of a new password, the server for 12.
* The token of a deactivated account works until it expires.
* `duplicate_count` never falls: a report whose duplicates were all deleted keeps its
  count and the button, which opens an empty group.
* "Log out all sessions" (`admin/profile/page.tsx:571`) ends the session of this
  browser only.
* The login page that the router shows after a 401 keeps the sidebar beside it, since
  the layout they share is not rendered anew.
* Back and Retake stay usable while the report is sent.
* The public page rewrites `image_url` for its proxy but not
  `resolution_photo_url`.

## 7. What is not modelled, and why

* Organisations: a seeded tree that is read, and one UPDATE per assignment. The
  organisation selects of the users page are not displayed; the page of
  organisations is one fetch and one list.
* Theme toggles, wording, layout, charts: no property depends on them. The
  severity percentages of the dashboard are arithmetic of one answer (the last is
  100 less the other two, so it can be -1, and is 100 without reports).
* The offline banner: it says that changes are kept and sent later, which no code
  does; there is nothing behind it to model.
* Downloads of the portal: a link to the exports, which are modelled.
* Of the wizard, the fields that only travel along: severity, note and contact, and
  the preview picture. Of the honeypot, only whether it is filled.
* In `PortalTab`, the answer 401 to a call of a page that was left through the router
  for the profile: its handler would still lead to the login page.
* Wards: geometry is PostGIS's; the wizard only waits for an answer.
* EXIF reading and rewriting, CSV escaping, geohashes, validation of single
  strings: pure functions on data the models abstract.
* Reverse proxy: its limit on sign-ins is in `PortalTab`; its other limits, body
  sizes, time limits and headers are configuration, as are routing and CORS.
  Constraints and triggers of the migrations are in the modules that rely on them.
* Backup: a dump and then an archive, by a script that no process of the system
  waits for. Files and rows that change between the two may differ in the archive.
