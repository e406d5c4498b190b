# AIRNMS in TLA+

Specifications of the Network Management System in this repository: a browser UI (`packages/web`), a
backend for it (`packages/bff`, "the BFF"), and the services the BFF depends on (Redis, an OIDC
provider, LibreNMS, InfluxDB). The modules model the code as it is; TLC checks them on small
instances and TLAPS proves the invariants and action properties for every value of the constants. Paths below are
relative to `src/packages/` unless they start with `docs/`.

## 1. Inventory

### Components, their state and how they interact

| Component | State it keeps | Operations | Talks to |
|---|---|---|---|
| Session store, `bff/src/auth/sessionStore.ts` | `sess:<id>` in Redis: tokens, `createdAt`, `lastSeenAt`, TTL | create, get (slides), update, destroy | Redis |
| Session middleware, `bff/src/http/middleware/auth.ts`, and refresh, logout in `http/routes/auth.ts` | none of its own | requireSession, refreshIfNeeded, logout | session store, OIDC client |
| Login handshake, `auth/preSessionStore.ts`, `auth/oidcClient.ts`, `http/routes/auth.ts` | `presess:<state>` in Redis; the discovery document in memory | `/auth/login`, `/auth/callback` | Redis, IdP, session store |
| Rate limiter, `http/middleware/rateLimit.ts` | a Map of counters in memory | one middleware | nothing |
| Process, Redis client and health, `index.ts`, `cache/redis.ts`, `health/checks.ts`, `http/routes/health.ts` | one Redis connection | main, `/health`, `/ready` | all four dependencies, the unit that restarts the process |
| Custom dashboard, `web/src/hooks/useDashboardLayout.ts`, `bff/src/http/routes/dashboardLayout.ts`, `dashboard/layoutStore.ts` | hook state and a promise chain of saves; `dash:layout:v1:<sub>` in Redis | load, edit, reset, retry; GET, PUT, DELETE | the BFF over HTTP, Redis |
| Alarm views, `web/src/app/alarms/page.tsx`, `components/dashboard/AlarmFeed.tsx`, `app/devices/page.tsx`, `hooks/useBffQuery.ts`, `bff/src/http/routes/alarms.ts`, `librenms/client.ts` | filters, page, query hook state; alarms live in LibreNMS | filter, page, retry, acknowledge one or all of a device, list | the BFF, LibreNMS |
| Error boundary and middleware chain, `http/middleware/errorHandler.ts`, `correlationId.ts`, `securityHeaders.ts`, `http/app.ts`; logger, `observability/logger.ts` | what is set on a response; the log pipes | classify, answer, fall back; redact, write a line | every route; stdout and stderr |
| Device views, `bff/src/http/routes/devices.ts`, `librenms/client.ts`, `librenms/mappers.ts`, `web/src/app/devices`, `components/DeviceTable.tsx`, `hooks/useDeviceTableState.ts` | table controls, query hook state; rows live in LibreNMS | list, filter, sort, page; head, interfaces, events, alarm history | LibreNMS |
| Metrics, `bff/src/metrics/influxMetricsReader.ts`, `http/routes/metrics.ts`, the charts and cells of `web/src/components` | a window and the answers of several queries; points live in InfluxDB | latest, range; join, choose a window, retry | InfluxDB, the BFF |
| SNMP simulator, `simulator/src` | an OID store per device with withheld OIDs | control API writes; GET, walk, exported recording | the SNMP poller of a test bench |
| Role map, token verification, configuration | none, or fixed at start | pure functions | |

The BFF is one Node process: a handler runs until an `await`, and any other handler may run there.
So a Redis command, an IdP call or an HTTP reply is the unit of interleaving in all modules, and
what lies between two awaits belongs to one action.

### What is hard

* **Read-modify-write over awaits.** `get` and `update` of the session store write whole records
  back; `consume` of the pre-session store reads before it deletes; `SET` and `EXPIRE` are two
  commands.
* **Single-use tokens.** Authorization codes and, with a rotating IdP, refresh tokens.
* **Clocks.** Idle window, absolute lifetime, TTL and fixed rate windows, with their edges.
* **Optimistic updates.** The dashboard shows edits before they are stored, reverts them on failure,
  and takes over late answers.
* **Late answers.** A query hook whose controls change while its answer is on the way; charts that
  join the answers of several queries, of which some fail.
* **Absence against zero and failure.** Text from LibreNMS that is no number, points that were never
  collected, an outage that looks like an empty answer.
* **Partial failure.** One click that sends several acknowledgements; an error handler whose own
  reply or log line fails.
* **Outages.** Four dependencies that fail or hang, a Redis client that never reconnects, a process
  that may die of an unhandled rejection and is restarted.

`PROJECT.json` lists each hazard at its line with the properties that cover it.

## 2. Modules

Each component has a module and an `MC` module that extends it for TLC; the proofs are in modules of
their own (section 4). An action carries the name of its handler or step. Operators marked "Mutant" stand
beside the definition they are a wrong version of; no specification uses them. Variables under
"History" are read by properties only.

**SessionStore** is one opaque session, the login that creates it and any number of requests with
its cookie. `pc[r]` follows a request through requireSession; each Redis command and the IdP call is
an action (`GetRead`, `GetSet`, `GetExpire`, `IdpAccepts`, `UpdateRead`, ...). `store` and
`expireAt` are the key and its TTL, `held[r]` the record a request has in its hands, `idpRefresh`
the newest refresh token. The environment moves the clock, lets Redis reap the key, breaks the
connection and kills the process. Session ids are random and never shared, so one session is enough.

**LoginFlow** is the handshake: `/auth/login` stores a state (`PutSet`, `PutExpire`) and redirects,
the IdP returns browsers with codes, `/auth/callback` consumes the state (`ConsumeGet`,
`ConsumeDel`), exchanges the code, verifies and creates the session. Whether signature, nonce and
PKCE hold is the choice between `Verified` and `Denied`. `redis` is up or hung: `Hang` stops every
command of the open connection until `Resume`, which need not come.

**RateLimiter** has the counters, the clock, and which routes mount the limiter. The middleware is
synchronous, so a request is one step.

**LayoutSync** is the save protocol of the dashboard: `ui` is the layout on the screen, `chain` the
promise chain with the request in flight at its head, `stored` the Redis key. A layout is the set of
edits in it. Refused requests, replies that are lost and requests that arrive after the browser gave
up on them (`ApplyStray`) are actions.

**DashboardLayout** is what the edits do to the geometry, against the schema the BFF applies to
every save. Here the user waits for each save.

**Readiness** is the process: `main` connects once and listens, `/ready` runs four checks each
against a budget, and requests with a cookie use the Redis connection. A dependency is `up` (answers
within the budget), `down`, or `hung`.

**AlarmConsole** is one of three views of the alarms: the console with filter and pager, the feed of
the dashboard, and the inventory's counts with "acknowledge all of this device". `fetches` are the
requests of the query hook, of which the `live` one is listened to; `acks` are clicks, each with the
requests it has sent that are `waiting` or `done`. `Serve` reads LibreNMS, `Deliver` brings the
answer to the browser: between the two anything may happen. What LibreNMS lists under `state=1` is
left open (`listing`): open alarms only, or acknowledged ones too, with a field that says so or,
like the live rows of `mappers.ts:46-48`, without; `RowOf` maps a row as `mappers.ts:123` does. The
properties read two histories: the acknowledgements `confirmed` to the user, and which of them came
after the request whose answer is shown (`sinceHeld`).

**Logger** is redaction as a walk over objects that may be shared or cyclic (`Walk`, as a recursive
function of the objects on the path, and then of the value) and the writing of a line to stdout, or stderr
when that throws.

**ErrorBoundary** EXTENDS Logger with the middleware chain. `stage[r]` follows a request through
correlation id, headers, body parser, router, terminal 404, error boundary and fallback; calls on
the response may throw, before or after the headers are out.

**RequestReply** is the abstract specification: a request goes from no reply to one of a known kind,
or to a broken connection, and stays there. ErrorBoundary implements it under the refinement `reply
<- ReplyOf`, which reads the bodies written (property `OneReply`).

**MetricViews** is the store, the two queries of the reader with their failures, and six kinds of
view that join what they are answered: a cell, the heatmap, the throughput chart, a history, the
fleet trend, the top interfaces. `flights` are runs of a view's effect; a run holds the queries it
waits for and the answers it has got. The top interfaces ask one query after the other (`Turn`), sort
what they have `Collected` by its percentile, equal ones in the order they were asked, and keep the
first `TopN` (8 in the source).

**DeviceConsole** is the inventory's controls from click to row, and the panels of a device or
alarm: query validation, filterAndSortDevices, windowing, the mapping of rows, and LibreNMS replies
that are refused, garbled or late.

**Simulator** is the control plane over its HTTP surface, the store of each device, and its three
readers.

### Composition

SessionStore contains the middleware, refresh and logout because they interleave on one key;
LoginFlow ends where SessionStore begins, with `create`. LayoutSync and DashboardLayout split the
dashboard into its protocol and its data: LayoutSync never looks at widgets and DashboardLayout
never at races. Readiness abstracts the session lookup of SessionStore to "a command on the Redis
connection".

ErrorBoundary contains the logger, since its promise depends on the pipes, and takes the routers as
a choice between an answer, a throw, and a throw after the answer. AlarmConsole, MetricViews and
DeviceConsole share the query hook, each with the part of it that its views use; what they read of
LibreNMS or InfluxDB, and how these fail, is part of each.

## 3. Runs

| Run | Shows |
|---|---|
| `session_lifetimes` | Three racing requests, clock to 4, idle 2, lifetime 3, a rotating IdP, all faults: FR-19 holds on every admission, the TTL never drops a valid record and never goes missing without a fault, a deleted record returns only through an overlapping read-modify-write, and requests that do not overlap are never logged out by a refresh |
| `limiter_windows` | Two addresses, two windows, restart: at most twice the limit in any window length, refusals are earned |
| `login_replay` | One login, two codes, two callbacks, crashes and faults: stale and late states are rejected, a redirected browser finds its state, every callback is answered or cut off with its process, unless Redis hangs |
| `layout_hasty` | Clicks at any time: the save chain stays in order, a last save that succeeds leaves both sides agreed, the saving chip ends; while the user waits for each answer, screen and server agree after failures too and no edit is lost |
| `dashboard_geometry` | No click but a deep add is ever refused by the schema |
| `ready_probe` | "ready" means reached, every probe is answered, no outage stops a process that serves no sessions, `/ready` recovers from outages that spare the Redis connection |
| `alarm_races` | Every alarm view shows what its controls ask for; a confirmed acknowledgement is open on the screen, or counted by the inventory, only from a list that was asked for before, while others of its click or the next read are under way or after one of these failed; paging shows every alarm once |
| `error_boundary` | Parser, router, boundary and fallback may throw, pipes may hang up: one reply or a broken connection for each request, and it comes (refinement of RequestReply); faults of the server are recorded, and nothing else is at ERROR; redaction removes every secret and nothing else |
| `metric_views` | Numbers on the screen were measured for that device and metric, a series missing from a chart was answered with nothing or has no place in a full top list, the window is the one chosen last, no view loads for ever |
| `device_console` | The rows are those of the present controls in their order and page; empty means LibreNMS said so; numbers are numbers LibreNMS reported |
| `simulator` | A withheld OID is in no walk or recording whatever is set meanwhile, a restored one reads as set last, a call changes the device it names alone |
| `session_logout_race` | a finding (section 6) |

Each property has a mutant beside the definition it was made from: an off-by-one, a dropped guard, a
missing reset or a swapped order, under which TLC finds the property violated in the same run.

### Bounds

A race on one session needs two requests; the third is the one that observes the outcome
(`LoggedOutStaysOut`) or writes after both. Clocks run beyond the longest window so that every
window opens, ends and is used late. Two callbacks race, or one replays after the other, with the
same code or with a second one; the proof covers any number of them. Three edits are the least for a
save overtaken by an edit and hidden by a third. Two rate windows and a third begun are needed for
two bursts to meet. Two faults from an arbitrary health make an outage and a recovery of one
dependency, or two outages. Two alarms on pages of one give an empty list, a full last page and a
page beyond the end; two fetches and two clicks are the least for answers out of order and for
acknowledgements that overlap, and both alarms are of one device so that a click has two requests.
Two values of the filter (`Filters`) are enough, as no filter changes a row.
Two requests share the pipes of `error_boundary`; two calls that throw let the boundary and its
fallback both fail, or fail once in each request. Its logged contexts are those of two objects that
may contain each other or themselves, and they are logged when the requests are done, as the two
share nothing but the pipes. In `metric_views` the values are 0 and another, two devices make a join
of four queries, and two effect runs overlap; with `TopN` 1 two points of different series make a
cut, between equal percentiles and different ones. The fleets of `device_console` have every form of a
number, equal sort keys, a row for every filter, a malformed row and none at all; pages of one row
have a middle, a last and a page beyond the end. Four calls of the simulator withhold, set, restore
and read one OID, or do two of these on each device. The grid of 4 by 3 with rows to 4 has every
edge case of the 12 by 24 one with rows to 1000: a full-width widget, a half-width one at the right
edge, a stack that reaches the bottom. Bounds are constants named `Max...` in the guards of clicks,
clocks and faults.

`CHECK_DEADLOCK FALSE` appears where a run ends by itself: all requests ended and the clock at its
bound, or all edits made and saved; all requests answered; views that have their answer with no
control left to click (the inventory never retries its alarms query); the calls of the simulator
used up.

### Fairness

* `LoginFlow!FairSpec`: a callback under way gets on if it can. IdP calls are aborted by a timer
  (`oidcClient.ts:71`). The Redis commands of a callback are enabled only while Redis is up; of a
  hung one nothing is assumed, as nothing bounds a command on an open connection (`redis.ts:24`
  bounds `connect`), and `Resume` has no fairness.
* `LayoutSync!FairSpec`: a request is served or refused and its promise settles. `fetch` has no
  timeout in `bffClient.ts`, so this again leaves out a BFF that never answers.
* `ErrorBoundary!FairSpec` and `RequestReply!Spec`: the event loop comes back to a request that can
  go on. A router that never answers is outside: `Handle` is the moment it does.
* `MetricViews!FairSpec`: a query is answered or fails, since the reader aborts after its
  `TIMEOUT_MS`. Nothing is assumed of the store.
* `Readiness!FairSpec`: the runtime runs what is enabled, the unit restarts a dead process
  (`Restart=on-failure` in `deploy/librenms-podman/nms-bff.container`), `/ready` is polled. No
  fairness is assumed of the dependencies.

## 4. Proofs

Every invariant and every action property that a run checks is also a theorem of its specification,
for every value of the constants; and so is the step half of the one refinement. A theorem is proved
from an inductive invariant: `Init => IInv`, `IInv /\ [Next]_vars => IInv'`, and `IInv` implies the
property. There are eight modules of proofs. Where one holds the proofs of two components it extends
both, and the definitions that both components would name alike carry a prefix (`LimiterInit`,
`GridSpec`, `SimTypeOK`).

| Module | Theorems | The argument |
|---|---|---|
| SessionStoreProofs | `Invariance`, `TypeCorrect`, `LifetimesEnforced` (FR-19), `SafetyNetSpares`, `TtlSafe`, `DeletionFinal`, `RefreshSilent` | Every copy of the record, stored or held, carries the login's `createdAt` and a `lastSeenAt` the BFF has written; the TTL covers the windows; a revival needs a copy from before the DEL; a request that has met no other holds the newest refresh token |
| LoginFlowProofs | `Invariance`, `StaleRejected`, `ReplayRejected`, `StateKept` | A record a browser may come back for carries its TTL although SET and EXPIRE are apart, and consumed states never return |
| ProcessProofs (RateLimiter, Readiness) | `LimiterInvariance`, `BurstsBounded`, `RejectionsAreEarned`; `Invariance`, `ReadyIsReached`, `ProbesNeverKill`, `ProbesNeverStuck` | The history of passed requests is split by the window of the counter: the current one, at most `Limit` of the one before, the rest older. A check that passed has seen its dependency up during the same probe; only a waiting request ends the process |
| DashboardProofs (LayoutSync, DashboardLayout) | `Invariance`, `LastSaveAgrees`, `PatientEditsKept`, `ChipIsOwed`; `GridInvariance`, `EditsAccepted`, `RefusedOnlyDeep` | One save in flight, and what it applied is what the server holds; for a user who waits, the screen differs from the server by that save alone. The layout on the screen is one the schema accepts, for a grid of any size; an add goes below a widget that reaches furthest down, which a finite set of them has |
| AlarmConsoleProofs | `AnswersMatchControls`, `Acknowledged`, `PagingComplete`, `LoadingAwaitsOne` | The one fetch listened to is for the present controls (`LiveIsCurrent`): whatever else is on its way changes nothing. What a click confirmed is acknowledged in LibreNMS (`ConfirmedAcked`). Rows that still show it as open, held by the view or on their way to it, were asked for before; the click that confirmed it is then not over or failed in part, or a read has begun since, whose answer will not show it (`Reflects`, `AckInv`). Paging: below |
| ErrorBoundaryProofs (with Logger) | `OneReplySafe`, `FaultsOnRecord`, `OnlyFaultsOnRecord`, `RedactionKept` | A body is out only with its headers, so whoever looks at `headersSent` never writes a second one; what is judged an error has its line before its reply (`ReplyInv`). The ids given out are the numbers up to the count of requests that have one, so a fresh one is new (`AlarmInv`). Redaction: below |
| MetricViewsProofs | `Invariance`, `Measured`, `AbsenceAnswered`, `WindowShown`, `LoadingAwaitsOne` | Each answer, joined by a run or shown, holds values that were measured for its query or the reason there are none (`RunsOk`); the live run of a view is for the present window (`ViewsInv`). The top list: below |
| DeviceProofs (DeviceConsole, Simulator) | `ConsoleInvariance`, `RowsAnswer`, `EmptyAnswered`, `NumbersReported`, `LoadingAwaitsOne`; `SimInvariance`, `Withheld`, `Restored`, `OnlyNamed` | Each answer is made from the fleet it was read from, by what its view asks for (`Sound`, `ConsoleInv`). The sort: below. `hidden` is exactly what has a mode, and `latest` what the store holds (`SimInv`) |

`Invariance` theorems hold the type invariant of their module. An inductive invariant is listed in a
run only if it says more than the properties of the run (SessionStore, LayoutSync, RateLimiter); the
others were checked on the same instances before they were proved. `OneReplySafe` is the step
simulation of the refinement: Init maps to `RequestReply!Init`, and every step to an `Answer` or a
stutter.

Four arguments are about algorithms rather than steps.

* **The sort of the inventory.** A row's rank is one more than the number of wanted rows that come
  ahead of it in the order of the controls. Ranks of a strict order of a finite set are a bijection
  to `1..n` (`RankBijection`), and inserting a device moves the ranks behind it by one
  (`RankMoves`, `RankStays`). `InsertSortedKeeps` shows that insertion puts each device at its rank,
  `FilterAndSortSorts` follows by induction on the rows, and `WindowIsAskedFor` cuts the page.
* **The top list.** Greatest percentile first and equal ones in turn is a strict order of the
  entries (`LexicographicOrder`, `EntriesInTurn`), so their ranks are a bijection again. If one is
  left out its rank exceeds `TopN`, hence `TopN` entries have the ranks to `TopN`, each in a row of
  its own (`LeftOutOfFullList`).
* **Redaction.** `Walk` calls itself with one more object seen, so induction on the number of
  objects not seen shows that a function with its equation exists (`WalkExists`) and that every leaf
  is accounted for (`WalkLeaves`): its path is a trail through the heap from the root, and its value
  is the last of the trail, redacted, or circular because the trail meets an object twice.
  `FollowedIsTrail` says that the property, which follows paths from the root, sees the same trail.
* **Paging.** `FirstPages[n]`, the first n pages one after the other, is the part of the list up to
  the end of page n, by induction on n; the first page without a next one ends the list.

Induction on the natural numbers is proved from the well-foundedness of their order
(`LeastNatural`, `InductionUpTo`), for sets of numbers rather than for predicates. A recursive
function, which TLA+ defines by CHOOSE, is first shown to exist as one that satisfies its equation.

The assumptions are those named `...Assumption` in the modules, and TLC evaluates them on every run.
Beyond types they say: requests and logged objects are finite in number where they are counted
(`Requests`, `Objects`), and so are the devices of a view, of which there is at least one and each
has its place in the list (`PlaceOf`); a top list has room for one row; "all" is one of the
`Filters`; `Fleets`
are sequences of raw rows; the numbers an SNMP device may report are not the marks for an absent
value and for JavaScript's `undefined`. None of them bounds a size.

Only model-checked: the liveness properties (`CallbacksAnswered`, `SavingEnds`, `ProbesAnswered`,
`Recovers`, `ViewsSettle`, the fairness half of `OneReply`), which need fairness and `ENABLED`, both
out of the prover's reach. What they rest on besides fairness, that somebody who waits has something
to wait for, is a safety property and proved: a check of a probe always has a step that ends it
(`ProbesNeverStuck`), the saving chip a save that is to be served or answered (`ChipIsOwed`), and a
loading view exactly one request it listens to, however many others are in flight
(`LoadingAwaitsOne`, of the alarm, metric and device views alike). A callback needs no such theorem:
by its types each of its phases has a step while Redis is up.

## 5. Not modelled, and abstractions

* Token verification, PKCE, cookies and header parsing: cryptography and formats. The role map: a
  pure lookup without state, whose outcome appears as a refused request. Configuration: parsed once.
* The session hook and the chrome of pages (one read, then rendering); the link matrix, the KPI
  tiles and the chart options (layout of values modelled elsewhere; the matrix is two cells of
  MetricViews).
* The SNMP agent: it binds a socket and answers nothing (`snmpAgent.ts`), so there is no protocol to
  state a property of. The tables of the simulator's profiles are data.
* Deployment scripts, and `scripts/check-workspace-deps.mjs`, which walks the file system once in a
  build.
* In AlarmConsole: the client-side hostname filter (a view of the page that is shown), and the
  severity filter (passed on and dropped exactly as the state filter is). `AckReflected` claims
  nothing of a LibreNMS that lists acknowledged alarms without a flag (section 6).
* In SessionStore: `SlideTtl` rounds up to whole seconds (`sessionStore.ts:59-61`); the clock of the
  model counts whole units, on which rounding is the identity.
* In DeviceConsole: the location filter, which no control sets, columns and row density, the deep
  link to LibreNMS, and windowing LibreNMS itself does for logs and ports.
* In MetricViews: Flux text, CSV columns, rates and means of values, and validation of queries.
* In ErrorBoundary: the trace id a client may send, header values and message texts.
* Hazards without a property: counters of addresses that never return (nothing evicts them), the
  cached readiness of the IdP (section 6), commands on a hung Redis in every request but a callback,
  and the saving chip that the first of several answers turns off (`useDashboardLayout.ts:79`).
* React: the updater passed to `setLayout` is run once (React's development-only double call is left
  out), and effects run with the click that caused them, as the render between is never waited for.
* In Readiness: redis client behaviour as the options state it: with `reconnectStrategy: false` a
  closed client rejects every command, and `connectTimeout` bounds `connect`.
* One Redis that is not restarted. Its durability is a deploy setting (ADR 0010).

## 6. Disagreements found between code and its documents

| Run | What happens |
|---|---|
| `session_logout_race` | A request that overlaps a logout writes the deleted record back; the old cookie works again |

`PROJECT.json` quotes the lines these disagree with. Others follow from the models without a run of
their own; the properties above are stated so that they leave them out:

* Two concurrent callbacks of one state both get past `consume` (`preSessionStore.ts:41`).
  `LateReplayRejected` speaks of replays after a consume.
* Three quick edits whose saves all succeed can lose the second (`useDashboardLayout.ts:78`).
  `PatientEditsPersist` speaks of a user who waits.
* A request with a cookie after Redis is lost ends the process (`auth.ts:33`). `UnservedStaysUp`.
* "No active alarms match" on a page beyond the end, with no pager to leave it
  (`alarms/page.tsx:50`).
* The inventory counts no alarms while its alarms query loads for the first time, after that has
  failed, and beyond the first 200 (`devices/page.tsx:39`). While a reload runs or after it has
  failed, the counts are those of the read before, alarms just acknowledged among them: the hook
  keeps its `data` (`useBffQuery.ts:36-50`). `AckReflected` names it, and also that after a click of
  which one request failed the confirmed alarms stay open on the screen until the next read
  succeeds.
* No row of `/alerts?state=1` carries `acknowledged` (`mappers.ts:46-48`), so an acknowledged alarm,
  if LibreNMS lists it, is shown as open (`mappers.ts:123`) and the console's state "Acknowledged"
  never appears. `AckReflected` leaves such a LibreNMS out.
* An empty text from LibreNMS becomes a measured 0 (`mappers.ts:33`). `NumbersWereReported` names
  it.
* A device card shows one port where it announces the device (`DeviceMetricCard.tsx:32`), and the
  heatmap says N/A "not collected" during an outage (`CpuMemHeatmap.tsx:38`). `AbsenceWasAnswered`
  leaves out the views that ask for the latest value.
* A simulator OID withheld in a mode that is none of the four is returned as a value by GET
  (`control/server.ts:91`). `WithheldStaysAbsent` names the mode.
* A PATCH without a value puts the text "undefined" into the recording of the simulator.
  `RestoredReadsLatest` names it.
* With an IdP that rotates refresh tokens, two requests in the skew window log the user out
  (`auth.ts:83`; FR-17 asks for a silent refresh). `SoloRefreshSilent` excludes overlaps.
* A process that dies between SET and EXPIRE leaves a session record Redis never reaps
  (`sessionStore.ts:69`; `:9` calls the TTL the safety net). `TtlUnlessInterrupted`.
* The limiter is mounted on `/auth/callback` only; `rateLimit.ts:4` says "and write routes".
  `BurstBounded` speaks of limited routes.
* Two quick edits whose saves are both refused leave the first on the screen although it was never
  stored (`useDashboardLayout.ts:84`). `PatientEditsPersist` speaks of a user who waits.
* Adds and removes push rows past the 1000 of `WidgetSchema`; then every add is refused
  (`useDashboardLayout.ts:106`). `RefusedOnlyWhenDeep`.
* The idp check of `/ready` answers from the discovery cache (`oidcClient.ts:108`).
  `ReadyMeansReached` leaves the IdP out.
* After a Redis outage `/ready` never recovers without a restart (`redis.ts:24`). `Recovers` asks
  for the connection to have survived.
* A command on a hung Redis is not bounded, although `redis.ts:13` says so. `CallbacksAnswered`
  names it, and `Readiness` bounds its own checks.
* The alarm filters have no effect on the rows (`client.ts:242`). `ShowsTheQuery` speaks of the
  query that was sent, not of the rows.

## 7. Plan

Done: the modules of section 2 and the proofs of section 4. Left, in order:

1. **Refinements**: an abstract session (valid or gone, with a window) that SessionStore implements
   as long as requests do not overlap; a persisted register that LayoutSync implements while the
   user waits for each answer; `RequestReply` with arrivals and a process that may die, which the
   callbacks of LoginFlow implement. Their step simulations proved as that of ErrorBoundary is.
2. **RoleMap** as an operator with its precedence against a reference definition, in the composition
   with the routes that check a role.
