# A TLA+ model of mt-server

mt-server is a small Go server that answers weather requests of devices. It
fetches datasets from QWeather, caches them, and is configured through a
management page whose changes take effect without a restart. This directory
holds a TLA+ model of it, from the files on disk to the position of a device, the
TLC runs that check it on small instances, and TLAPS proofs of the main
properties for instances of any size. `PROJECT.json` lists runs, mutants, source lines,
hazards and theorems in machine-readable form.

## 1. The system

| Component | State | Operations | Talks to |
|---|---|---|---|
| Weather cache (`internal/modules/weather/service.go`) | LRU list of locations, map of entries, entry objects (value, deadlines, `refreshing`, `wait`, `retryAfter`, `failures`) | `Get`, `refreshAsync`, `finishRefresh`, `touchLocationLocked`, `Close` | provider (fetch), runtime manager (lifecycle) |
| State store (`internal/platform/state`) | `state.json`, `state.v3.backup.json`, `state.lock`, `durabilityConfirmed` | `LoadCompatible`, `CommitMigration`, `Save`, `CommitInitial`, `RestoreV3Backup`, `AcquireLock` | file system, management handlers, offline commands |
| Management interface (`internal/modules/admin`) | `changeMu`, password and test slots, attempt limiters | `setup`, `login`, `logout`, `putQWeather`, `addAdminOrigin`, `deleteAdminOrigin`, `createToken`, `deleteToken`, `changePassword`, reads | store, sessions, transport policy, runtime manager |
| Runtime manager (`internal/app/runtime.go`) | `current` runtime behind an RWMutex, two location limiters | `Prepare`/`Activate`/`Discard`, `PrepareTokens`, `ServeHTTP`, `Ready`, `Test`, `Close` | cache, provider, device authentication |
| Application (`internal/app/app.go`, `cmd/mt-server`) | the lock, the HTTP server | `New`, `Run`, offline commands `state`, `admin-origin` | everything |
| Sessions, transport policy, attempt limiter (`internal/platform/adminauth`) | session map, active origins, window counter | `Create`, `Validate`, `Delete`, `Clear`, `SameOrigin`, `ReplacePublicOrigins`, `Allow` | management interface |
| QWeather provider (`internal/providers/qweather`) | circuit (`blockedUntil`, `closed`), 8 slots | `Fetch`, `Localize`, `Ready`, `Close` | upstream |
| GeoIP store (`internal/providers/geoip`) | database handle behind an RWMutex, poll goroutine | `Start`, `Resolve`, reload, `Close` | location resolution, `Run` |
| Location resolution (`internal/platform/location`: `source.go`, `cloudflare.go`, `clientip.go`) | none: configuration and request | `EffectivePoint`, `FromRequest`, `Normalize` | GeoIP store, weather and location handlers |
| Location limiters (`internal/platform/location`) | token bucket per device | `Allow`, `Try`, `Retain` | weather handler, runtime manager |
| Weather and location handlers, device authentication, health, configuration, HTTP helpers | none, or request-local | pure functions and handlers | - |

What is hard in it:

- **Concurrency.** `Get` drops its mutex while it fetches or waits, and entries
  may be evicted meanwhile; the clock is read outside the mutex. Management
  handlers serialise on `changeMu`, except `setup` and `login`; what `setup` commits
  and activates overlaps what the others do. Device requests
  hold the runtime's RWMutex for their whole duration, and the GeoIP store's
  while they read from a database that the poll goroutine replaces.
- **Failure.** A refresh fails while older data is usable. A file replacement
  has five steps, each of which may fail, and the process or the machine may
  stop between any two. `Shutdown` times out, and `Run` gives up the state lock while
  handlers go on. A save fails after a new runtime was built. A new
  database file is broken, or the file system hangs while it is opened.
- **Ordering and time.** Cooldowns, fresh and stale deadlines, the backup that
  must be safe before the migration, the limiters that are pruned after the
  swap.

What makes each part correct: a refresh has exactly one owner and no waiter is
forgotten; an answer belongs to its key and has the age it claims; the cache is
bounded (WeatherCache). `state.json` is replaced atomically, a confirmed write
is never lost, a migration never outruns its backup, processes that hold the lock
do not overwrite each other (StateStore). The running service is the one `state.json` describes,
no request uses a closed service or a revoked token, no handler saves a candidate
computed from a state that another has replaced, and every write returns
(AdminRuntime). The account is blocked
when upstream says so and only then, and slots are never lost (QWeatherClient).
A device gets its rate, no more and no less, and nothing of it outlives its
revocation (DeviceRequests). Guessing is bounded, nobody is locked out for longer
than a window, and an ended session stays ended (AdminAuth). No database is
closed under a reader or leaked, a replaced file is noticed, only trusted proxies
are believed, and the process ends when told to (GeoIPStore). The stored origins
let the next start through (ManagementOrigins). The full list of
hazards, with the line where each bites and the properties aimed at it, is under
`hazards` in `PROJECT.json`.

## 2. The modules

### WeatherCache

One element of `Calls` is one call of `Get`, with a program counter for the
places where the code is outside `s.mu`: `lookup` (the clock was read, the mutex
not yet taken), `waiting` on `entry.wait`, `fetch`, `finish` (the fetch has
returned and `finishRefresh` has read the clock), `reply` (a leading call takes
the mutex again for its envelope). Each critical section is one action:

| Action | Code |
|---|---|
| `Start` | entry of `Get`, `s.now()` |
| `FreshHit`, `StaleHit`, `StaleHitRefresh`, `Reject`, `Join`, `Lead` | the six ways through the critical section of `Get`; all go through `EnterCache` (touch, evict, find or create) |
| `FetchReturns`, `Finish`, `Reply` | the synchronous refresh of a leading call |
| `WorkerReturns`, `WorkerFinish` | `refreshAsync` |
| `Wake`, `AbandonWait` | the `select` on `entry.wait` and `ctx.Done()` |
| `CloseService`, `CloseProvider`, `CloseTimeout` | `Close` |

Entries live in `heap` under an address and `entries` maps keys to addresses, so
that an evicted entry continues to exist for the goroutines that hold it. An
address is reused only when nothing refers to it, which is what the garbage
collector guarantees. A dataset is represented by the key it was fetched for; an
error by its `RetryDelay()`. Cancelled clients are nondeterministic: a leading
fetch may always return the context error, a waiting call may always give up.
Diagnostic counters are left out, and `jitterDelay` returns any whole number of
time units within 20% of its argument.

### AtomicFile and StateStore

`StateStore` has two files, a lock and a set of processes. A process is the
server or an offline command; `job` says which operation its current file
replacement belongs to, and `pc` is the step of `atomicWriteContents` it is at:
`WriteTemporary`, `SyncFile`, `Rename`, then the directory synchronisation
(`SyncBackup`, `SyncState`, or their failures). A handler of the server, or the
command `admin-origin`, reads the state in a step of its own (`Load`), may test
upstream and refuse for any length of time (`Refuse`), and then begins its
replacement (`Save`, which looks only whether the file exists). `Stop` is a crash,
a refused command or a shutdown at any of these points. `ReleaseLock` is the defer
of `Run` while handlers that `Shutdown` did not wait for go on: `outlived` records
that it has happened, and from then on two processes may be between `Load` and
`Rename`. `PowerLoss` puts in each file any
of the contents it had since the last successful directory synchronisation
(`survives`); a file renamed without having been synchronised could come back
torn. Different files survive independently, which is weaker than what common
file systems give. `gen` numbers the writes and exists for the properties, as do
`acked` and `warned`; `MaxWrites` bounds it.

`AtomicFile` is the promise: a value is committed as a whole, and until it is
confirmed a power loss may return to an earlier one. `FileSpec` states that
`StateStore` implements it for `state.json`.

### AdminRuntime

An element of `Admins` is a management client that runs one handler at a time,
an element of `Requests` a device connection. A handler's program counter
follows its code: wait for `changeMu`, load the state and compute the candidate from
it (`PutQWeather`, `AddAdminOrigin`, ... through `LockFor`), take the only test slot and test
upstream (`TakeTestSlot`, `TestRefused`; `TestQWeather` is the test on its own,
without `changeMu`), prepare, `Save`,
`ReplacePublicOrigins`, `ClearSessions`, and the steps of `Activate`
(`Activate`, `Swap`, `Retain`, `CloseOld`). Every step that can fail has a
failing action with its cleanup (`PrepareFails`, `SaveFails`,
`CommitInitialFails`). `Edit` says what an operation may do to the state it loaded,
and `HasCandidate` that a handler holds a candidate it has not saved;
`NoLostAdminUpdate` is stated with both, so that a stale save is seen whether it
undoes a change of another field or of the same one. `setup` runs beside them without `changeMu`, as in the
code; `login` too. `Enter`, `Serve` and `Leave` are a device request under the
read lock; a waiting writer keeps new readers out, which `sync.RWMutex`
documents. `Close` and `CloseCurrent` are the shutdown of the runtime manager.

`state.json` is one value here, replaced in one step; that this is sound is what
`StateStore` shows. A candidate state is valid or refused: field validation
happens before anything changes. A created device gets a random DeviceID in the
code; the model picks any device that has no token, which includes one that was
revoked before. A client keeps at most one session, the latest.

### QWeatherClient

An element of `Requests` is one call of `Fetch` or `Localize`: it waits for one
of the slots (`Acquire`, `AbandonAcquire`), asks `Ready` once (`CheckReady`), and
makes up to two attempts (`Send`, `Answer`, `Retry`, `AbandonRetry`). An answer
is reduced to the class `requestOnce` gives it, so that a status of 401 and a
body with code 401 are the same; transient classes are retried, account failures
of weather calls open the circuit (`OpensCircuit`, `BlockFor`). A duration has
`Width` bits and `Duration` wraps around as Go's `int64` does; `RetryAfter` is
evaluated with that width, and the headers include one that wraps around. The
cooldown is a setting (`runtime.go:405` accepts up to a day) and not related to the
cap of `Retry-After`. `late` counts the requests sent since the circuit
opened or the client was closed.

### QWeatherParse

`parse.go` and the use of place names as operators without state: which bodies
are accepted, how many hours and days are kept, how status and severity of an
alert are normalized, in which order alerts come (`Before`) and which ones the
limit drops (`ParseAlerts`). A field is `Blank`, `Invalid` or a value.
`SortedAlerts` is a stable sort written as the position of each element
(`Position`), which needs no recursion. `MCQWeatherClient` evaluates three
`ASSUME`s over it: for all bodies of up to three alerts nothing is invented, the
kept alerts are in order, none that is dropped comes before a kept one, and the
order of the body does not matter; a forecast is accepted as a whole or not at
all; `ApplyLocalized` reports a change exactly when there is one.

### LocationSource and GeoIPStore

`LocationSource` is the choice of a position, without state: `FromRequest` (the
device's headers, all or none), `CloudflareFromRequest` and `ClientIP` (believed
from trusted peers only), `Inferred`, `EffectivePoint`, and `PointOf`, which is
`Resolve` behind its lookup. A header is absent, malformed or what it parses to.
A coordinate has a sign and a magnitude, because `float64` has a negative zero
that `FormatFloat` would print into the cache key. `Resolver` says what the
interface in `Source` holds; without a database it holds a nil `*Store`.

`GeoIPStore` is the store beside the requests and inside `App.Run`. One reload is
five actions (`Stat`, `Compare`, `Open`, `Install`, `ClosePrevious`), taken by the
first load in `Start` and by the poll goroutine (`Tick`, `PollReturns`,
`PollStops`). The file is replaced and removed between any two of them; `Open`
may hang for good (`Hang`). A request takes the runtime's lock (`Enter`), the
store's (`Resolve`), reads (`ReadCity`) and returns (`Finish`). `Run` is `Start`,
`Serve`, `StopServing`, `ShutdownServer`, `CloseRuntime`, `CloseStore`,
`AwaitPoll`, `Exit`; `Activate` is a management handler that brings a runtime up,
even after `RuntimeManager.Close`. A replaced file differs in identity, size or
time, which is what `reloadIfChanged` compares.

### DeviceRequests

A device's weather or location request (`Begin`, `BeginLocation`) with its two
goroutines: the handler (the outcomes `AllowFirst`, `AllowSame`, `AllowMove`, `RefuseMove` of
`ChangeLimiter.Allow`, `GetReturns`, `JoinLookup`) and the place name lookup
(`TrySlot`, `TryBudget`, `EndLookup`, which are the steps of
`LocalizeLimiter.Try` and its release). Beside them two writers prepare and activate
credentials and runtimes: `writer["change"]` is the handler that holds `changeMu`
(`PrepareTokens`, which wraps the routes of the current runtime, or
`PrepareRuntime`), and `writer["setup"]` is `setup`, which holds nothing
(`PrepareSetup`). Each goes through `Lock` (it announces itself and keeps new
readers out), `Activate` (the critical section), `RetainChange`, `RetainLookups` and
`ClosePrevious`. `runtime` is `RuntimeManager.current`, `routed` the runtime whose
routes the active handler wraps; `overtaken` records that a change began while
`setup` had not finished. The steps of the two interleave freely. A token of a bucket is counted as `Interval`
units of time, which makes the code's `float64` exact; its rounding errors are
not modelled. `moves`, `lookups`, `promised`, `revoked` and `overtaken` are
history. `WeatherCache` has the inside of `Get`; `AdminRuntime` has the handlers that
prepare the changes, of which this module keeps the devices they leave.

### AdminAuth

`login`, `setup` and `changePassword` over time: `Allow` of the limiter of `login`,
the two password slots the three share (`AcquirePasswordSlot`, `VerifyPassword`),
`Reset`, and `Create`, `Validate`, `Delete` and `Clear` of the sessions. `setup`
creates its session before it commits, and deletes it when another setup was faster
or the file could not be written (`Commit`); `changePassword` holds `changeMu`
(`Changing`) and ends with `Clear` (`PasswordChanged`). Where the code
reads the clock before it takes a mutex there are two actions (`Login` then
`Allow`, `CreateClock` then `Create`, `Validate` then `ValidateLocked`), so that
calls overtake each other with old times. Of several oldest sessions any one is
removed, as Go's map iteration does. `AdminRuntime` models what sessions mean for
the handlers, without time.

### ManagementOrigins

The canonical form of an origin and the changes of the stored list, without
state. A spelling is what `url.Parse` finds: scheme, host, port, and marks for
upper case, leading zeros, spaces and anything extra. `AddOrigin` keeps the
difference between the handler, which stores the list it appended to, and the
command, which stores the normalized one; `BootAccepts` is the check of
`app.New`. `MCAdminAuth` evaluates two `ASSUME`s over it; `OriginProofs` proves
them for all lists.

### MC modules

`MCWeatherCache`, `MCStateStore`, `MCAdminRuntime`, `MCQWeatherClient`,
`MCDeviceRequests`, `MCAdminAuth` and `MCGeoIPStore` add the constant-valued
functions, the symmetry sets and the bounded checks of the modules without state.
Symmetry sets are used for safety runs only. `MCWeatherCache` checks safety and
liveness in one run and has none: its calls are numbers that start in their order,
the first with the first location (`InOrder`), and every behaviour of
`WeatherCache` is one of these with calls and locations renamed.

## 3. The runs

| Run | Shows | Bounds |
|---|---|---|
| `MCWeatherCache` | one owner per refresh, no lost waiter, answers for the right key and of the right age, the LRU bound, entries follow the list, values never regress, cooldowns are respected; every `Get` returns, workers end after `Close` | 3 calls, 2 locations, room for 1, 3 entries, clock 0..2 |
| `MCStateStore` | atomic replacement, durability and its report, backup before migration, no lost update while no server outlives its lock | 2 processes, 4 writes |
| `MCAdminRuntime` | the running service matches the disk, no use after close, no request of a revoked device, no leak, no stale candidate is saved | 2 administrators, 1 connection, 2 settings, 2 devices, 2 origins, 2 services, shutdown |
| `MCAdminSetup` | two setups race, and every write that follows returns | no initial state, 2 administrators, 1 connection, 2 devices, 2 passwords |
| `MCAdminSetupRace` | *violation*: setup activates an outdated runtime | 2 administrators |
| `MCAdminSessions` | *violation*: a login survives the removal of its origin | 2 administrators |
| `MCQWeatherClient` | slots match calls, an open circuit ends the traffic, the block is bounded, never shortened, set by every account failure of a weather call whose delay does not overflow, and by nothing else | 3 calls, 2 slots, clock 0..3 |
| `MCRetryOverflow` | *violation*: a 429 whose `Retry-After` overflows blocks nothing | the same |
| `MCDeviceRequests` | moves and lookups keep their rate over every period, a budget is spent on lookups only, `Retry-After` is honest, lookup slots match lookups, no provider is closed in use, limiters forget revoked devices, with `setup` beside the changes | 1 device, 2 locations, 2 requests, 2 runtimes, clock 0..2, 0 once setup is overtaken |
| `MCAdminAuth` | attempts are bounded by the windows begun, nobody is refused without cause, password slots of `login`, `setup` and `changePassword` match, the session table is bounded, ended sessions stay ended, none outlives its lifetime; origins | 2 calls, 1 attempt per window of 2, 3 sessions, room for 2, clock 0..3; lists of up to 2 origins |
| `MCGeoIPStore` | no database is closed in use or leaked, none is lost or replaced by an older one, a replaced file is loaded, the shutdown ends, untrusted peers and malformed pairs get no say in the position, failed inference is a 503 | 1 connection, 16 requests, 3 deployments, 2 replacements |
| `MCCloudflareOnly` | *violation*: without a database the lookup runs on a nil store | the same requests, 2 deployments |

Why the bounds suffice for the interesting cases: three calls are one that
fetches, one that waits and one that evicts. A cache of one location makes every
second location an eviction. With freshness 1, staleness 2 and a clock up to 2 a
value is fetched, becomes stale, expires and is fetched again, and a cooldown of
2 begins and runs out within the run. Two processes are a server and a command, or
a server that has given up its lock and the next one; four writes are a migration,
a save, a restore and another migration. Two
administrators suffice for every race between two handlers; two services are the
active one and the one that the holder of `changeMu` prepared or has still to
close, and never more are open (proved as part of `ServiceInv`); the setup runs
have three, because setups prepare theirs without the lock. Three upstream calls
on two slots are one that opens the circuit, one that is between its attempts and
one that waits; a block of 3 is opened, extended and over within the clock, and a
cooldown of 4 is longer than that cap; 40 seconds of 4 units do not fit the 8 bits
of a duration. Two requests of a
device with a capacity of two moves empty its bucket at once and see it refilled;
a second of two units makes rounding matter. Two runtimes are the one of `setup` and
the one of a change beside it. `OvertakenEarly`, a constraint, explores what follows
once a change has overtaken `setup` with the clock at 0 only: of the properties that
go on holding there, `LimitersForgetRevoked` and `SlotsMatchLookups` do not depend on
the time, and `HonestRetryAfter` is proved. Two windows of the attempt limiter
lie within the clock, so that both sides of a boundary are reached, and a
lifetime of 3 with an idle time of 2 lets a session be refreshed until it ends.
Two replacements of the file are one that is loaded and one that happens at any
point of a reload; one connection is a reader, beside three writers of the
store's lock; the sixteen requests combine every source that is absent, malformed
and present with a trusted, an untrusted and an unusable peer.

`MCGeoIPStore` and `MCCloudflareOnly` say `CHECK_DEADLOCK FALSE`: the process ends.
The type invariants are proved (section 4) and not repeated in the runs.
`NoLostAdminUpdate` is checked for a server that has a state and proved for one that
is set up as well.

Every property of a passing run has a mutant in `PROJECT.json`: a plausible bug
in a mapped definition (a dropped guard, a missing reset) for which TLC finds
the property violated. The mutated operators are marked `Mutant:` in the modules
and are used by no action.

### What the violation runs found

1. `MCAdminSetupRace`. `setup` does not hold `changeMu` between its commit and
   its activation. A `putQWeather` that completes in between is persisted, but
   the runtime of `setup` replaces the newer one.
2. `MCAdminSessions`. `SECURITY.md` says that removing an origin clears every
   session. A `login` that verified its password before and creates its session
   after the clearing leaves one.
3. `MCCloudflareOnly`. `docs/operations.md` says that a request without a
   position is answered 503 `location_unavailable` when the configured inference
   fails. With `MT_CLOUDFLARE_LOCATION_HEADERS` and no `MT_GEOIP_DB` the
   `*geoip.Store` is nil, but the `Resolver` that holds it is not; a request
   without Cloudflare's headers calls `Resolve` on it and panics, and
   `RequestContext` answers 500.

4. `MCRetryOverflow`. `docs/architecture.md:66` says that a 429 blocks the account as
   `Retry-After` says, for at most 15 minutes. `retryAfter` (`client.go:373`)
   multiplies before it caps; beyond 9223372036 seconds the product wraps around to
   a negative delay, and the account stays unblocked. `MCQWeatherClient` sends the
   same header and checks what holds, `FittingFailureBlocks`.

Two disagreements have no run of their own.

- `docs/architecture.md:78` says that the server holds the state lock all its life, so
  that it never overwrites `state.json` concurrently with an offline command.
  `App.Run` closes the lock in a defer (`app.go:138`), also when `Shutdown` has given
  up on a handler (`app.go:169`). A `putQWeather` that is still testing upstream has
  loaded the state by then; a command that takes the lock, saves and ends is undone
  when the handler saves, if the process lives that long. `StateStore` has these steps
  (`Load`, `ReleaseLock`, `Open` by the other process, both `Save`s), and
  `NoLostUpdate` and `ReportedDurability` are claimed as long as `outlived` is false;
  without that condition TLC finds `NoLostUpdate` violated, by a surviving `setup` and
  by this trace. The other
  properties of `StateStore` hold with surviving handlers too: whoever writes, the
  file is replaced as a whole, and a confirmed write is followed only by later ones.
- `docs/architecture.md:24` says the durability warning is cleared by the next complete
  synchronisation; `NewStore` (`state.go:168`) starts with
  `durabilityConfirmed = true`, so a restart clears it too.

What `MCAdminSetupRace` shows has a second consequence, which `DeviceRequests` models
and its properties exclude by name (`overtaken`). Setup commits; `putQWeather` of
another client activates its runtime; `createToken` wraps the routes of that runtime
(`runtime.go:297`); setup's activation (`admin.go:282`, `runtime.go:263`) replaces it
and closes its service; the token change is activated on top and routes devices to a
closed provider. The `Retain` of such a setup also drops the bucket of a device that
was created meanwhile. `ProviderOpenInUse` therefore speaks of states in which the
handler routes to the current runtime, and says that this is so until a change
overtakes setup; `MovesAreRated` and `LookupsAreRated` except the overtaken case;
`LimitersForgetRevoked` and `SlotsMatchLookups` hold even then.

Two more comments are stronger than the code, and the models state what holds
instead. The comment on `Get` says that concurrent refreshes of a key are
collapsed; when a location is evicted during its refresh the next `Get` starts a
second one, so that `OneOwnerPerRefresh` speaks of entries, not of keys, and
`ReplyForKey` shows that the answers remain right. The comment on `NewLimiter`
promises a rolling window; the window is fixed and the attempts on both sides of
a boundary add up, so that `AttemptsBounded` counts the windows begun.

### Fairness

`WeatherCache!FairSpec` (with ordered calls, `MCWeatherCache!MCSpec`): goroutines are scheduled, and a fetch ends because the
provider's HTTP client has a timeout and `Close` cancels the workers' context
(weak fairness of each call's and each worker's steps). Nothing is assumed of
clients: `Start` and `AbandonWait` are not fair.
`AdminRuntime!FairSetupSpec`: handlers run (weak fairness of their own steps),
`sync.Mutex` does not starve a goroutine that waits for `changeMu` (strong
fairness; Go's mutex has a starvation mode), and a device request ends (weak
fairness of `Serve` or `Leave`; the server has write timeouts and the provider a
request timeout). New requests need not arrive and may arrive for ever.
`GeoIPStore!FairSpec`: the steps of `Run`, of the first load, of the poll
goroutine and of each request are weakly fair (the ticker fires, `Shutdown` and
the wait in `Close` have timeouts). A poll that hangs is an action of its own,
after which only its own step is disabled, so that `ShutdownEnds` and
`FreshEventually` do not rest on file I/O that returns. Requests need not arrive,
and nothing is assumed of the file and of management.
No fairness is assumed of the other modules: what would block them for good, a
slot that is never given back, is excluded by the invariants `SlotsMatchCalls`,
`SlotsMatchLookups` and `LoginsBounded`.

## 4. The proofs

Every safety property and every action property that a passing run checks is also
a theorem, for every number of calls, clients, devices, processes and services and
every value of the limits; so is the type invariant of every component with state.
The assumptions, evaluated by TLC on the runs' constants, are:

| Module | Assumption | Says |
|---|---|---|
| `WeatherCache` | `CacheAssumption` | the policy bounds `validateCache` enforces; distinct nil values |
| `StateStore` | `StoreAssumption` | a free lock has no owner; `MaxWrites` is a number |
| `AdminRuntime` | `RuntimeAssumption` | nobody and no service are no client, service or setting; positive limits |
| `QWeatherClient` | `ClientAssumption` | positive limits; the default delay is within the cap of `Retry-After`, which fits the integers' width; the cooldown is any positive number |
| `DeviceRequests` | `LimiterAssumption` | positive capacities, intervals and slots; some device and location exist |
| `AdminAuth` | `AuthAssumption` | positive limits; no token is no token |
| `GeoIPStore` | `StoreAssumption` | three different readers, which is as many as can be open at once; a peer is an address or malformed |
| `LocationSource` | `LocationAssumption` | public and trusted addresses are addresses; absent and malformed are neither |
| `ManagementOrigins` | `OriginAssumption` | public hosts are hosts; the refusal is no origin |

One theorem has a hypothesis of its own: `InferenceHonest` speaks of deployments in
which Cloudflare's headers are not the only source; `MCCloudflareOnly` is the
counterexample in the others. What other theorems claim conditionally is part of the
property: no server outlives its lock (`NoLostUpdate`, `ReportedDurability`), no change
overtakes setup (`MovesAreRated`, `LookupsAreRated`, half of `ProviderOpenInUse`), the
delay fits (`FittingFailureBlocks`). Section 3 shows what happens otherwise.

`WeatherCacheProofs`

- `TypeCorrect`: `Spec => []TypeOK`. The inductive invariant `TypeInv` adds to
  the types that a call past its lookup has a key, and that one which waits,
  fetches or replies has an entry: otherwise `heap[call.entry]` would have no
  type.
- `RefreshHasOneOwner`: `Spec => []OneOwnerPerRefresh`, and `WaitersAreReleased`:
  `Spec => []NoLostWaiter`. The invariant `OwnerInv` is the two properties with
  `TypeInv`. The argument: `Lead` and `StaleHitRefresh` create an owner only for
  an entry whose flag is not set, hence that has none (`BeginRefresh`); a new
  entry is unused, hence has neither owner nor waiter (`NoOwnerYet`); only the
  owner runs `finishRefresh`, and in the same step it clears the flag and
  releases the waiters (`EndRefresh`). Evictions change only the map.
- `CacheStaysBounded` (`EntriesTracked`), `AnswersMatchRequests` (`ReplyForKey`),
  `AnswersAreYoung` (`ReplyAge`), `ValuesMoveForward` (`ValueNeverRegresses`) and
  `CooldownsAreKept` (`CooldownRespected`). The invariant `AnswerInv` adds to
  `OwnerInv` that an entry belongs to one key, in the map and in every call and
  worker that points at it, also after its eviction (`Uses`), that its value was
  fetched for that key, and that no value, call or worker carries a time from the
  future (`TimeInv`). Each step is first summarised as a move of one call, one
  entry, one worker and the map (`NextMoves`); the five arguments are then made
  once for moves and not for each action. A permutation lemma about
  `MoveToFront` bounds the LRU list.

`StateStoreProofs`

- `StoreInvariant`: `Spec => []StoreInv`, where `StoreInv` adds to the types that
  who runs holds the lock or is a handler of a server past its `Shutdown`
  (`Entitled`), that a file is renamed only after it was synchronised, that what a
  process has renamed is not newer than the visible file, and that everything that may
  survive is neither torn nor older than the last acknowledged write.
  `StoreTypeCorrect` and `ConfirmedWritesSurvive` follow, for surviving handlers too.
- `NoUpdateLost`: `Spec => []NoLostUpdate`. `AloneInv`: while no server has outlived its
  lock, what a process read when it loaded is what `state.json` holds, from `Load`
  over the upstream test to the rename; while one process runs all others are off.
- `StateFileIsAtomic`: `Spec => FileSpec`, the refinement of `AtomicFile`: the
  rename of `state.json` is `Commit`, a directory synchronisation is `Confirm`, a
  power loss is `PowerLoss`, and every other step stutters (`StepRefines`).
- `MigrationKeepsBackup`: `Spec => []BackupBeforeMigration`. `BackupInv` says
  that a v4 file with a v3 ancestor is written only while every backup that may
  survive is that ancestor; the synchronisation after the backup is what makes it
  true before the migration begins.
- `DurabilityHonest`: `Spec => []ReportedDurability`. `ReportInv` says that the
  report of a process that has written is right except between its rename and its
  return, and that a process that is off has written nothing; the lock keeps any
  other process from falsifying the report of the server.

`AdminRuntimeProofs`

- `RuntimeTypeCorrect` and `NoWriteLost` (`NoLostAdminUpdate`), for a server that
  starts with a state and for one that is set up. `LockInv`: the handler that
  took `changeMu` and has not returned is its holder, and until it saves, its
  candidate is the state that is on disk now with its own edit applied (`Edit` in
  `OneField`), and not merely a state that differs in one field: a token that another
  handler created meanwhile would have to be in it. It is what makes the candidate,
  computed several steps earlier, still right when it is saved; that the holder of
  `changeMu` is the only one with a candidate is the other half
  (`ReplacesByEdit`).
- `DiskIsRunning` (`RuntimeMatchesDisk`), `RequestsStayCurrent`
  (`NoStaleRequest`) and `RuntimesNeverLeak` (`NoServiceLeak`), for a server that
  starts with a state. `RunInv` follows the holder's progress: which services are
  open beside the current one (`Extra`), which of disk, handler, limiters and
  origins lag behind (`MatchInv`), and that every request that is let in uses the
  current service with a token of the current handler (`ServiceInv`). After a
  setup in the same process `RuntimeMatchesDisk` is false, which is
  `MCAdminSetupRace`, and so is `NoStaleRequest` (section 3).

`DeviceRequestsProofs`

- `RequestsTypeCorrect`, `SlotsReturned` (`SlotsMatchLookups`),
  `ProviderStaysOpen` (`ProviderOpenInUse`) and `RevokedForgotten`
  (`LimitersForgetRevoked`) follow from `BaseInv`: a request in a handler uses the
  runtime that is routed to, for an active device (the read lock); the remaining
  steps of every activation say which limiters may still know a revoked device
  (`DomainInv`); a runtime that one of the two writers has still to install is neither
  closed nor current, nor one the other has still to close (`RuntimeInv`). What
  rests on one activation at a time is a part of its own, `OrderInv`, claimed until a
  change overtakes setup: the handler routes to the current runtime, and what is being
  activated is what was saved last.
- `MovesStayRated` (`MovesAreRated`), `LookupsStayRated` (`LookupsAreRated`) and
  `RetryAfterHonest` (`HonestRetryAfter`) follow from `BudgetInv`, which treats a
  token bucket as an account: for each recorded event, the cost of the events
  since then and the tokens left are at most the capacity and the time since
  (`Account`). `RetryAfterHonest` needs no condition: a bucket that `Retain` drops is
  full again. The rate over every interval, the property, is not inductive
  without the tokens.

`AdminAuthProofs`

- `AuthTypeCorrect` and `LoginsStayBounded` (`LoginsBounded`) from `CallInv`, the
  slots are those of the verifications and hashes of all three handlers that run, and `TableInv`, the bound that
  evicting before inserting keeps.
- `NoSessionReturns` (`EndedStaysEnded`) and `SessionsExpire` (`NoOverstay`): a
  session in the table has not ended, a token that was issued is not issued
  again, and a session counts its lifetime from a clock read before its birth.
- `GuessingBounded` (`AttemptsBounded`) and `NobodyLockedOut`
  (`RefusedOnlyWhenBusy`) from `LimitInv`: the attempts of finished windows are
  paid for by the start of the current one, although a call may bring a clock
  that is older than the window.

`QWeatherClientProofs`

- `ClientTypeCorrect` and `SlotsNeverLeak` (`SlotsMatchCalls`) from `SlotsInv`.
- `TrafficEnds` (`OpenCircuitStopsTraffic`): what was sent since the circuit
  opened, the calls that may send once more and those that may send twice
  together never grow, and were at most two for each other slot when it opened
  (`TrafficInv`).
- `CircuitDiscipline` (`CircuitMoves`) and `FailureOpensCircuit`
  (`FittingFailureBlocks`), action properties, from the bounds on `retryAfter`
  with its overflow: a delay that wraps around is never longer than the cap, and one
  that does not is positive. The bound on a move is the cooldown for credentials and
  `MaxBlock` for a 429, whichever is longer.

`GeoIPStoreProofs`

- `GeoIPTypeCorrect`, `ReadersNeverLeak` (`ReadersAccounted`) and `NeverBackwards`
  (`ServesOnward`). `StoreInv`: an open reader is owned by exactly one of the
  store, the two reloads and `Close` (`Distinct`, `open = Owned`); only one
  reload runs at a time, so that the file it opened is not older than the one
  installed (`ReloadInv`, `Newest`); a closed store has no reader (`CloseInv`).
  A request that reads holds the store's reader (`Reading`).
- `TrustHolds` (`TrustBoundary`) and `InferenceHonest` (`InferenceFailsAs503`)
  from `RequestInv`: the address and the status a request has at each step are
  those its input and the deployment determine.

`OriginProofs`

- `NormalizeIdempotent`: a normalized origin is its own normal form; the port is
  printed again as it was (`PortIsNormal`). A list is `Canonical` if it is within
  the limit, holds normal forms and none twice, and such lists are exactly the
  ones the server starts with (`BootableIsAccepted`).
- `SetupLeavesBootable`, `AddLeavesBootable` and `DeleteLeavesBootable`: what
  `setup`, the handlers and the command store is such a list, whatever was
  entered; in particular the handler's list needs no normalization.
- `AllowlistMatchesOrigin`: an allowed origin is recognised in all its spellings
  and no other page is let in.

Only model-checked: the liveness properties `EveryCallReturns`, `WorkersStop`,
`EveryWriteReturns`, `FreshEventually` and `ShutdownEnds`, because fairness is out
of the prover's reach; the sort of `QWeatherParse` and the
bounded `ASSUME`s of the MC modules.

## 5. Not modelled, and the plan

Left for proofs:

1. Of `LocationSource`: `Normalize` is idempotent and gives one key per cell, with
   either zero.
2. Of `QWeatherParse`: `Before` is a strict weak order, so that the limit never
   drops an alert that outranks a kept one.
3. `NoServiceLeak` for a server that was set up in the same process. (`NoStaleRequest`
   and `RuntimeMatchesDisk` are false there, see section 3.)

Not modelled:

- JWT signing, password hashing and the comparison of token hashes: cryptography
  without state of its own.
- The characters of a host name, of metadata and of header text, and the choice
  of a place name by language: a set of accepted values stands for each.
- Health, which asks the modules under locks that are modelled; the reads of the
  management interface, its JSON views and diagnostics counters; log output.
- The process environment apart from what configures the sources of a position.
- The browser code of the management page, and `state/testfixture`, which writes
  files for tests.
- A composition of `WeatherCache` and `QWeatherClient`: all that passes between
  them is an error with its delay, which `WeatherCache` takes from any set.
