--------------------------- MODULE DeviceRequests ---------------------------
(***************************************************************************)
(* A device's request for the weather (modules/weather/module.go: handle   *)
(* and localizeAttempt) or for its own location (modules/location), with   *)
(* the two limiters of platform/location (ChangeLimiter, LocalizeLimiter), *)
(* against the changes of credentials and runtimes that end with Retain    *)
(* (app/runtime.go).                                                       *)
(*                                                                         *)
(* A request runs in two goroutines: the handler, and the lookup of a      *)
(* display name.  It holds the read lock of RuntimeManager throughout.     *)
(* Changes of an initialised server hold changeMu, one at a time; the      *)
(* activation at the end of setup does not, and may overlap one.           *)
(* Budgets are counted in units of time: a token is Interval (or           *)
(* LookupInterval) units, the code's float tokens times the interval.  The *)
(* fetch of the weather itself is the subject of WeatherCache.             *)
(***************************************************************************)
EXTENDS Integers, Sequences, FiniteSets, Functions

CONSTANTS
    Requests,           \* connections: each serves one request after another
    Devices, Scopes,    \* device ids; normalized locations (Point.CacheKey)
    Capacity, Interval, \* ChangeLimiter
    LookupCapacity, LookupInterval, Concurrency,    \* LocalizeLimiter
    SecondUnits,        \* units of time in a second
    MaxTime, MaxRuntimes    \* bounds on the clock and on the runtimes built

ASSUME LimiterAssumption ==
    /\ Capacity \in Nat \ {0} /\ Interval \in Nat \ {0}
    /\ LookupCapacity \in Nat \ {0} /\ LookupInterval \in Nat \ {0}
    /\ Concurrency \in Nat \ {0} /\ SecondUnits \in Nat \ {0}
    /\ MaxTime \in Nat /\ MaxRuntimes \in Nat \ {0}
    /\ Devices # {} /\ Scopes # {}

VARIABLES
    now,
    active,             \* the credentials of current.handler
    routed,             \* the runtime current.handler routes to
    runtime,            \* RuntimeManager.current, 0 before the setup
    built, closed,      \* runtimes built so far; those whose provider is closed
    saved,              \* the devices of state.json
    change, localize,   \* devices -> bucket, in each limiter
    slots,              \* len(LocalizeLimiter.slots)
    request,            \* local state of each request
    writer,             \* local state of setup, and of the change under changeMu
    revoked,            \* history: device ids no longer in use
    overtaken,          \* history: a change has begun before setup had finished
    moves, lookups,     \* history: times of granted moves, of lookups
    promised            \* history: when a refused device was told to return

server == <<active, routed, runtime, built, closed, saved, revoked, overtaken>>
limiters == <<change, localize, slots>>
history == <<moves, lookups, promised>>
vars == <<now, server, limiters, request, writer, history>>

Runtimes == 0..MaxRuntimes

Request == [pc : {"idle", "allow", "get", "failed", "fetched"}, device : Devices,
            scope : Scopes, runtime : Runtimes,
            lookup : {"none", "start", "slot", "running", "giveback", "done"}]

Idle == [pc |-> "idle", device |-> CHOOSE d \in Devices : TRUE,
         scope |-> CHOOSE s \in Scopes : TRUE, runtime |-> 0, lookup |-> "none"]

Writer == [pc : {"pending", "idle", "prepared", "lock", "retain", "retainLookups", "close"},
           tokens : SUBSET Devices, swap : BOOLEAN, target : Runtimes, previous : Runtimes]

NoChange == [pc |-> "idle", tokens |-> {}, swap |-> FALSE, target |-> 0, previous |-> 0]

\* A server that started from state.json, or one that waits for its setup.
Init ==
    /\ now = 0
    /\ \/ /\ saved \in SUBSET Devices /\ active = saved
          /\ runtime = 1 /\ routed = 1 /\ built = 1
          /\ writer = [w \in {"setup", "change"} |-> NoChange]
       \/ /\ saved = {} /\ active = {}
          /\ runtime = 0 /\ routed = 0 /\ built = 0
          /\ writer = [setup |-> [NoChange EXCEPT !.pc = "pending"], change |-> NoChange]
    /\ closed = {}
    /\ change = << >> /\ localize = << >> /\ slots = 0
    /\ request = [r \in Requests |-> Idle]
    /\ revoked = {} /\ overtaken = FALSE
    /\ moves = [d \in Devices |-> << >>]
    /\ lookups = [d \in Devices |-> << >>]
    /\ promised = [d \in Devices |-> -1]

-----------------------------------------------------------------------------
(* Token buckets.                                                          *)

\* Mutant: the refilled budget is not capped.
RefillUncapped(bucket, full) == bucket.tokens + (now - bucket.updated)

\* The tokens of a bucket by now.
Refill(bucket, full) ==
    LET tokens == bucket.tokens + (now - bucket.updated)
    IN  IF tokens > full THEN full ELSE tokens

\* A Go map assignment.
Put(map, key, value) == [k \in DOMAIN map \cup {key} |-> IF k = key THEN value ELSE map[k]]

Bucket(d) == [change[d] EXCEPT !.tokens = Refill(change[d], Capacity * Interval), !.updated = now]

\* Mutant: the delay is rounded down.
RetryAfterFloor(missing) == (missing \div SecondUnits) * SecondUnits

\* The Retry-After header: the missing part of a token in whole seconds.
RetryAfter(missing) == ((missing + SecondUnits - 1) \div SecondUnits) * SecondUnits

-----------------------------------------------------------------------------
(* The handler.                                                            *)

Goto(r, pc) == request' = [request EXCEPT ![r] = [@ EXCEPT !.pc = pc]]

\* The handler returns and the read lock is released.
Return(r) == request' = [request EXCEPT ![r] = Idle]

\* RLock waits behind a writer that waits for the write lock.
WriterWaits == \E w \in {"setup", "change"} : writer[w].pc = "lock"

\* ServeHTTP takes the read lock, behind a waiting writer; the device is
\* authenticated and its location known.
Begin(r, d, s) ==
    /\ request[r].pc = "idle" /\ ~WriterWaits
    /\ d \in active
    /\ request' = [request EXCEPT ![r] = [pc |-> "allow", device |-> d, scope |-> s,
                                          runtime |-> routed, lookup |-> "none"]]
    /\ UNCHANGED <<now, server, limiters, writer, history>>

\* GET /api/v1/location: neither the change limiter nor the weather; the
\* handler looks the name up itself.
BeginLocation(r, d) ==
    /\ request[r].pc = "idle" /\ ~WriterWaits
    /\ d \in active
    /\ request' = [request EXCEPT ![r] = [Idle EXCEPT !.pc = "fetched", !.device = d,
                                          !.runtime = routed, !.lookup = "start"]]
    /\ UNCHANGED <<now, server, limiters, writer, history>>

\* Unauthorized, or no usable location: an error and no trace.
Reject(r) == request[r].pc = "idle" /\ ~WriterWaits /\ UNCHANGED vars

\* The weather is fetched while another goroutine looks up the name.
Serve(r) == request' = [request EXCEPT ![r] = [@ EXCEPT !.pc = "get", !.lookup = "start"]]

\* ChangeLimiter.Allow: a device not seen yet, or one that has not moved.
AllowFirst(r) ==
    LET d == request[r].device IN
    /\ request[r].pc = "allow" /\ d \notin DOMAIN change
    /\ change' = Put(change, d, [tokens |-> Capacity * Interval, updated |-> now,
                                 scope |-> request[r].scope])
    /\ Serve(r)
    /\ UNCHANGED <<now, server, localize, slots, writer, history>>

AllowSame(r) ==
    LET d == request[r].device IN
    /\ request[r].pc = "allow" /\ d \in DOMAIN change
    /\ change[d].scope = request[r].scope
    /\ Serve(r)
    /\ UNCHANGED <<now, server, limiters, writer, history>>

\* ChangeLimiter.Allow: a move within the budget.
AllowMove(r) ==
    LET d == request[r].device IN
    /\ request[r].pc = "allow" /\ d \in DOMAIN change
    /\ change[d].scope # request[r].scope
    /\ Bucket(d).tokens >= Interval
    /\ change' = Put(change, d, [Bucket(d) EXCEPT !.tokens = @ - Interval,
                                                 !.scope = request[r].scope])
    /\ Serve(r)
    /\ moves' = [moves EXCEPT ![d] = Append(@, now)]
    /\ promised' = [promised EXCEPT ![d] = -1]
    /\ UNCHANGED <<now, server, localize, slots, writer, lookups>>

\* ChangeLimiter.Allow: a move beyond it, answered with Retry-After.
RefuseMove(r) ==
    LET d == request[r].device IN
    /\ request[r].pc = "allow" /\ d \in DOMAIN change
    /\ change[d].scope # request[r].scope
    /\ Bucket(d).tokens < Interval
    /\ change' = Put(change, d, Bucket(d))
    /\ Return(r)
    /\ promised' = [promised EXCEPT ![d] = now + RetryAfter(Interval - Bucket(d).tokens)]
    /\ UNCHANGED <<now, server, localize, slots, writer, moves, lookups>>

\* service.Get returns; an error cancels the lookup.
GetReturns(r) ==
    /\ request[r].pc = "get"
    /\ \E pc \in {"failed", "fetched"} : Goto(r, pc)
    /\ UNCHANGED <<now, server, limiters, writer, history>>

\* Mutant: an error is answered without waiting for the lookup.
JoinLookupOnSuccess(r) ==
    /\ request[r].pc = "failed" \/ (request[r].pc = "fetched" /\ request[r].lookup = "done")
    /\ Goto(r, "idle")
    /\ UNCHANGED <<now, server, limiters, writer, history>>

\* The lookup has ended: the handler answers and returns.
JoinLookup(r) ==
    /\ request[r].pc \in {"failed", "fetched"} /\ request[r].lookup = "done"
    /\ Return(r)
    /\ UNCHANGED <<now, server, limiters, writer, history>>

-----------------------------------------------------------------------------
(* The lookup: localizeAttempt with LocalizeLimiter.Try.                   *)

Lookup(r, step) == request' = [request EXCEPT ![r] = [@ EXCEPT !.lookup = step]]

\* The bucket of the device, created or refilled.
LookupBucket(d) ==
    LET full == LookupCapacity * LookupInterval
        bucket == IF d \in DOMAIN localize THEN localize[d]
                  ELSE [tokens |-> full, updated |-> now]
    IN  [tokens |-> Refill(bucket, full), updated |-> now]

\* Mutant: the budget is charged before a slot is known to be free.
TrySlotCharging(r) ==
    LET d == request[r].device IN
    /\ request[r].lookup = "start"
    /\ \/ /\ slots < Concurrency /\ slots' = slots + 1
          /\ Lookup(r, "slot") /\ UNCHANGED localize
       \/ /\ slots = Concurrency /\ UNCHANGED slots
          /\ localize' = Put(localize, d, [LookupBucket(d) EXCEPT !.tokens = @ - LookupInterval])
          /\ Lookup(r, "done")
    /\ UNCHANGED <<now, server, change, writer, history>>

\* A slot is taken without waiting, or there is no lookup.
TrySlot(r) ==
    /\ request[r].lookup = "start"
    /\ \/ slots < Concurrency /\ slots' = slots + 1 /\ Lookup(r, "slot")
       \/ slots = Concurrency /\ UNCHANGED slots /\ Lookup(r, "done")
    /\ UNCHANGED <<now, server, change, localize, writer, history>>

\* The budget is charged, or found too small.
TryBudget(r) ==
    LET d == request[r].device  bucket == LookupBucket(d) IN
    /\ request[r].lookup = "slot"
    /\ \/ /\ bucket.tokens >= LookupInterval
          /\ localize' = Put(localize, d, [bucket EXCEPT !.tokens = @ - LookupInterval])
          /\ lookups' = [lookups EXCEPT ![d] = Append(@, now)]
          /\ Lookup(r, "running")
       \/ /\ bucket.tokens < LookupInterval
          /\ localize' = Put(localize, d, bucket)
          /\ Lookup(r, "giveback") /\ UNCHANGED lookups
    /\ UNCHANGED <<now, server, change, slots, writer, moves, promised>>

\* Mutant: only a lookup that ran gives its slot back.
EndLookupLeaking(r) ==
    /\ request[r].lookup \in {"running", "giveback"}
    /\ slots' = IF request[r].lookup = "running" THEN slots - 1 ELSE slots
    /\ Lookup(r, "done")
    /\ UNCHANGED <<now, server, change, localize, writer, history>>

\* The slot is given back: after a refusal, or when Localize has returned.
EndLookup(r) ==
    /\ request[r].lookup \in {"running", "giveback"}
    /\ slots' = slots - 1
    /\ Lookup(r, "done")
    /\ UNCHANGED <<now, server, change, localize, writer, history>>

-----------------------------------------------------------------------------
(* Activation of new credentials (tokens) or of a new runtime (swap): by   *)
(* setup, and by one change at a time under changeMu.                      *)

\* setup builds its runtime and commits the first state.
PrepareSetup(tokens) ==
    /\ writer["setup"].pc = "pending"
    /\ built < MaxRuntimes /\ built' = built + 1
    /\ saved' = tokens
    /\ writer' = [writer EXCEPT !["setup"] = [NoChange EXCEPT !.pc = "prepared", !.tokens = tokens,
                                                           !.swap = TRUE, !.target = built + 1]]
    /\ UNCHANGED <<now, active, routed, runtime, closed, revoked, overtaken, limiters, request, history>>

\* A change of the tokens (createToken, deleteToken) wraps the routes of the
\* current runtime, read under the read lock, and is saved; device ids are
\* random and never used again.
PrepareTokens(tokens) ==
    /\ writer["change"].pc = "idle" /\ writer["setup"].pc # "pending"
    /\ runtime # 0 /\ ~WriterWaits
    /\ \E d \in Devices \ revoked : tokens \in {saved \cup {d}, saved \ {d}} \ {saved}
    /\ saved' = tokens
    /\ revoked' = revoked \cup (saved \ tokens)
    /\ overtaken' = (overtaken \/ writer["setup"].pc # "idle")
    /\ writer' = [writer EXCEPT !["change"] = [NoChange EXCEPT !.pc = "prepared", !.tokens = tokens,
                                                            !.target = runtime]]
    /\ UNCHANGED <<now, active, routed, runtime, built, closed, limiters, request, history>>

\* putQWeather builds a runtime for other settings, and saves them.
PrepareRuntime ==
    /\ writer["change"].pc = "idle" /\ writer["setup"].pc # "pending"
    /\ built < MaxRuntimes /\ built' = built + 1
    /\ overtaken' = (overtaken \/ writer["setup"].pc # "idle")
    /\ writer' = [writer EXCEPT !["change"] = [NoChange EXCEPT !.pc = "prepared", !.tokens = saved,
                                                            !.swap = TRUE, !.target = built + 1]]
    /\ UNCHANGED <<now, active, routed, runtime, closed, saved, revoked, limiters, request, history>>

Step(w, pc) == writer' = [writer EXCEPT ![w].pc = pc]

\* The management handler returns, and releases changeMu if it holds it.
Finish(w) == writer' = [writer EXCEPT ![w] = NoChange]

\* m.mu.Lock(): writers wait for each other first, then for the readers.
Lock(w) ==
    /\ writer[w].pc = "prepared" /\ ~WriterWaits
    /\ Step(w, "lock")
    /\ UNCHANGED <<now, server, limiters, request, history>>

\* Mutant: the change is activated while requests run.
ActivateAtOnce(w) ==
    /\ writer[w].pc = "lock"
    /\ active' = writer[w].tokens /\ routed' = writer[w].target
    /\ runtime' = IF writer[w].swap THEN writer[w].target ELSE runtime
    /\ writer' = [writer EXCEPT ![w] = [@ EXCEPT !.pc = "retain", !.previous = runtime]]
    /\ UNCHANGED <<now, built, closed, saved, revoked, overtaken, limiters, request, history>>

\* Under the write lock, when no request holds the read lock: a new runtime, or
\* a new handler for whichever runtime is current.
Activate(w) ==
    /\ writer[w].pc = "lock" /\ \A r \in Requests : request[r].pc = "idle"
    /\ active' = writer[w].tokens /\ routed' = writer[w].target
    /\ runtime' = IF writer[w].swap THEN writer[w].target ELSE runtime
    /\ writer' = [writer EXCEPT ![w] = [@ EXCEPT !.pc = "retain", !.previous = runtime]]
    /\ UNCHANGED <<now, built, closed, saved, revoked, overtaken, limiters, request, history>>

\* ChangeLimiter.Retain, after the lock is released.
RetainChange(w) ==
    /\ writer[w].pc = "retain"
    /\ change' = Restrict(change, DOMAIN change \cap writer[w].tokens)
    /\ Step(w, "retainLookups")
    /\ UNCHANGED <<now, server, localize, slots, request, history>>

\* LocalizeLimiter.Retain; there may be a previous runtime to close.
RetainLookups(w) ==
    /\ writer[w].pc = "retainLookups"
    /\ localize' = Restrict(localize, DOMAIN localize \cap writer[w].tokens)
    /\ IF writer[w].swap /\ writer[w].previous # 0 THEN Step(w, "close") ELSE Finish(w)
    /\ UNCHANGED <<now, server, change, slots, request, history>>

\* closeService of the previous runtime.
ClosePrevious(w) ==
    /\ writer[w].pc = "close"
    /\ closed' = closed \cup {writer[w].previous}
    /\ Finish(w)
    /\ UNCHANGED <<now, active, routed, runtime, built, saved, revoked, overtaken, limiters, request, history>>

Tick ==
    /\ now < MaxTime /\ now' = now + 1
    /\ UNCHANGED <<server, limiters, request, writer, history>>

Handler(r) ==
    \/ AllowFirst(r) \/ AllowSame(r) \/ AllowMove(r) \/ RefuseMove(r)
    \/ GetReturns(r) \/ JoinLookup(r)

Lookups(r) == TrySlot(r) \/ TryBudget(r) \/ EndLookup(r)

Change(w) == Lock(w) \/ Activate(w) \/ RetainChange(w) \/ RetainLookups(w) \/ ClosePrevious(w)

Next ==
    \/ \E r \in Requests : \/ \E d \in Devices, s \in Scopes : Begin(r, d, s)
                           \/ \E d \in Devices : BeginLocation(r, d)
                           \/ Reject(r) \/ Handler(r) \/ Lookups(r)
    \/ \E tokens \in SUBSET Devices : PrepareSetup(tokens) \/ PrepareTokens(tokens)
    \/ PrepareRuntime \/ \E w \in {"setup", "change"} : Change(w)
    \/ Tick

Spec == Init /\ [][Next]_vars

-----------------------------------------------------------------------------
(* Properties.                                                             *)

\* Every variable keeps its type.
TypeOK ==
    /\ now \in 0..MaxTime
    /\ active \subseteq Devices /\ revoked \subseteq Devices
    /\ saved \subseteq Devices /\ overtaken \in BOOLEAN
    /\ {runtime, routed, built} \subseteq Runtimes /\ closed \subseteq Runtimes
    /\ DOMAIN change \subseteq Devices /\ DOMAIN localize \subseteq Devices
    /\ \A d \in DOMAIN change :
          change[d] \in [tokens : 0..(Capacity * Interval), updated : 0..now, scope : Scopes]
    /\ \A d \in DOMAIN localize :
          localize[d] \in [tokens : 0..(LookupCapacity * LookupInterval), updated : 0..now]
    /\ slots \in 0..Concurrency
    /\ request \in [Requests -> Request]
    /\ writer \in [{"setup", "change"} -> Writer]
    /\ moves \in [Devices -> Seq(Nat)] /\ lookups \in [Devices -> Seq(Nat)]
    /\ promised \in [Devices -> Int]

\* Between any two of the times, no more events than the capacity and what
\* was refilled meanwhile.
Rated(times, capacity, interval) ==
    \A i, j \in 1..Len(times) :
        i <= j => (j - i + 1 - capacity) * interval <= times[j] - times[i]

\* ChangeLimiter: however its requests interleave, a device never moves more
\* often than Capacity times at once and once per Interval over any period.
\* (Overtaken by a change, the Retain of setup may drop the bucket of a device
\* it does not know.)
MovesAreRated == ~overtaken => \A d \in Devices : Rated(moves[d], Capacity, Interval)

\* LocalizeLimiter: a device causes no more billable lookups than its budget,
\* over any period, and no fewer: "A slot rejection does not consume the device
\* budget" (localize.go), what is missing was spent on lookups that ran.
LookupsAreRated ==
    ~overtaken =>
        /\ \A d \in Devices : Rated(lookups[d], LookupCapacity, LookupInterval)
        /\ \A d \in DOMAIN localize :
              localize[d].tokens + Len(lookups[d]) * LookupInterval >= LookupCapacity * LookupInterval

\* A request is refused in this step.
Refused(r) == request[r].pc = "allow" /\ request'[r].pc = "idle"

\* A device that was told to retry after some seconds, waited that long and
\* did not move meanwhile is not refused again.
HonestRetryAfter ==
    [][\A r \in Requests : LET until == promised[request[r].device] IN
          Refused(r) => until < 0 \/ now < until]_vars

LookupsInFlight == {r \in Requests : request[r].lookup \in {"slot", "running", "giveback"}}

\* "the caller must call release exactly once" (localize.go): the slots in
\* use are those of the lookups in flight, refused ones included.
SlotsMatchLookups == slots = Cardinality(LookupsInFlight)

\* "a runtime swap can never close the provider while the lookup is in
\* flight" (module.go): the provider a lookup or a fetch uses is open as long as
\* the handler routes to the current runtime, and it does unless a change has
\* overtaken setup.  Then a change of the tokens can activate, after setup has
\* closed the runtime of putQWeather, a handler that routes to it.
ProviderOpenInUse ==
    /\ ~overtaken => routed = runtime
    /\ routed = runtime =>
          \A r \in Requests :
              request[r].pc = "get" \/ r \in LookupsInFlight => request[r].runtime \notin closed

\* Revocation leaves nothing behind: when nothing is being activated, both
\* limiters hold state of active devices only, whatever requests were running
\* and even when setup has been overtaken.
LimitersForgetRevoked ==
    (\A w \in {"setup", "change"} : writer[w].pc \in {"pending", "idle", "prepared"}) =>
        DOMAIN change \cup DOMAIN localize \subseteq active
=============================================================================
