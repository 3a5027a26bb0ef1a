---------------------------- MODULE WeatherCache ----------------------------
(***************************************************************************)
(* The stale-while-revalidate cache of internal/modules/weather/service.go *)
(* (type Service).  A call of Service.Get is an element of Calls: it reads *)
(* the clock, takes the mutex, and then answers from the cache, rejects,   *)
(* waits for another call's refresh, or refreshes the entry itself.  Stale *)
(* hits start a background worker (refreshAsync).                          *)
(*                                                                         *)
(* Cache entries are heap objects, as in the code: an eviction removes the *)
(* pointer from the map while fetchers and waiters keep using the object.  *)
(* The mutex s.mu makes each of its critical sections one action; what     *)
(* happens outside it (the clock readings of Get and finishRefresh, the    *)
(* upstream fetch, the wait on entry.wait) are separate steps.             *)
(*                                                                         *)
(* A fetched dataset is represented by the key it was fetched for, an      *)
(* error by its RetryDelay().  The diagnostic counters are left out.       *)
(***************************************************************************)
EXTENDS Integers, Sequences, FiniteSets

CONSTANTS
    Calls,              \* the calls of Get
    Locations,          \* values of point.CacheKey()
    Kinds,              \* current, hourly, daily, alerts
    EntryIds,           \* heap addresses of cacheEntry objects
    NoEntry,            \* the nil pointer
    Errors,             \* errors Provider.Fetch may return
    CtxError,           \* the error of a cancelled context
    Ok,                 \* no error
    FreshFor, StaleFor, \* policies: [Kinds -> Nat]
    Maximum,            \* CacheOptions.MaxLocations
    ErrorDelay,         \* RetryDelay() of an error, 0 when it has none
    InitialRetryDelay, MaximumRetryDelay,
    MaxTime             \* bound on the clock

(* validateCache (internal/app/runtime.go) enforces the policy bounds.     *)
ASSUME CacheAssumption ==
    /\ NoEntry \notin EntryIds
    /\ CtxError \in Errors /\ Ok \notin Errors
    /\ FreshFor \in [Kinds -> Nat \ {0}] /\ StaleFor \in [Kinds -> Nat]
    /\ \A k \in Kinds : StaleFor[k] > FreshFor[k]
    /\ Maximum \in Nat \ {0}
    /\ ErrorDelay \in [Errors -> Nat]
    /\ InitialRetryDelay \in Nat \ {0} /\ MaximumRetryDelay \in Nat \ {0}
    /\ MaxTime \in Nat

VARIABLES
    now,        \* time.Now()
    lru,        \* s.lru, most recently used location first
    entries,    \* s.entries, [Keys -> EntryIds \cup {NoEntry}]
    heap,       \* the cacheEntry objects
    call,       \* local state of each Get
    worker,     \* the refreshAsync goroutine of an entry, if any
    phase       \* Service lifecycle: open, draining (Close), closed

vars == <<now, lru, entries, heap, call, worker, phase>>

Keys == [location : Locations, kind : Kinds]
NoKey == [location |-> NoEntry, kind |-> NoEntry]

Entry == [result : Keys \cup {NoKey}, hasValue : BOOLEAN, fetchedAt : Nat,
          validUntil : Nat, staleUntil : Nat, refreshing : BOOLEAN,
          retryAfter : Nat, failures : Nat]

\* &cacheEntry{}
BlankEntry == [result |-> NoKey, hasValue |-> FALSE, fetchedAt |-> 0,
               validUntil |-> 0, staleUntil |-> 0, refreshing |-> FALSE,
               retryAfter |-> 0, failures |-> 0]

PCs == {"idle", "lookup", "waiting", "fetch", "finish", "reply", "done"}
Outcomes == {"none", "data", "unavailable", "cancelled"}

Call == [pc : PCs, key : Keys \cup {NoKey}, t : Nat, entry : EntryIds \cup {NoEntry},
         woken : BOOLEAN, at : Nat, err : Errors \cup {Ok},
         out : Outcomes, stale : BOOLEAN, data : Keys \cup {NoKey}, fetchedAt : Nat]

BlankCall == [pc |-> "idle", key |-> NoKey, t |-> 0, entry |-> NoEntry,
              woken |-> FALSE, at |-> 0, err |-> Ok,
              out |-> "none", stale |-> FALSE, data |-> NoKey, fetchedAt |-> 0]

Worker == [pc : {"none", "fetch", "finish"}, key : Keys \cup {NoKey}, at : Nat,
           err : Errors \cup {Ok}]

NoWorker == [pc |-> "none", key |-> NoKey, at |-> 0, err |-> Ok]

-----------------------------------------------------------------------------
(* The LRU list.                                                           *)

Tracked == {lru[i] : i \in 1..Len(lru)}

MoveToFront(l) ==
    LET p == CHOOSE i \in 1..Len(lru) : lru[i] = l
    IN  [i \in 1..Len(lru) |-> IF i = 1 THEN l ELSE IF i <= p THEN lru[i - 1] ELSE lru[i]]

PushFront(l) == [i \in 1..(Len(lru) + 1) |-> IF i = 1 THEN l ELSE lru[i - 1]]

\* touchLocationLocked: the list it leaves; the tail beyond Maximum is evicted.
TouchLocation(l) ==
    IF l \in Tracked THEN MoveToFront(l)
    ELSE IF Len(lru) + 1 > Maximum THEN SubSeq(PushFront(l), 1, Maximum)
    ELSE PushFront(l)

\* Mutant: the location leaves the list but its entries stay in the map.
EvictedByNobody(l) == {}

\* The locations touchLocationLocked drops, together with all their entries.
EvictedBy(l) ==
    IF l \in Tracked THEN {} ELSE {PushFront(l)[i] : i \in (Maximum + 1)..(Len(lru) + 1)}

-----------------------------------------------------------------------------
(* Retry delays.                                                           *)

\* The doubling loop of retryDelay: 1, 2, 4, ... initial delays, capped.
Backoff(failures) ==
    LET doubled == InitialRetryDelay * 2^(IF failures = 0 THEN 0 ELSE failures - 1)
    IN  IF doubled > MaximumRetryDelay THEN MaximumRetryDelay ELSE doubled

\* jitterDelay: the whole time units within 20% of the delay, capped.
Jitter(delay) ==
    {d \in 0..MaximumRetryDelay : 100 * d >= 80 * delay /\ 100 * d <= 120 * delay}

\* retryDelay: the provider's own cooldown wins over the exponential backoff.
RetryDelays(err, failures) ==
    IF ErrorDelay[err] > 0 THEN {ErrorDelay[err]} ELSE Jitter(Backoff(failures))

-----------------------------------------------------------------------------
(* The entry a call finds, or the new one it installs.                     *)

Holds(c, e) == call[c].entry = e /\ call[c].pc \in {"waiting", "fetch", "finish", "reply"}

InUse(e) ==
    \/ \E k \in Keys : entries[k] = e
    \/ \E c \in Calls : Holds(c, e)
    \/ worker[e].pc # "none"

Unused == {e \in EntryIds : ~InUse(e)}

Address(c) == IF entries[call[c].key] = NoEntry
              THEN CHOOSE e \in EntryIds : e \in Unused
              ELSE entries[call[c].key]

Found(c) == IF entries[call[c].key] = NoEntry THEN BlankEntry ELSE heap[entries[call[c].key]]

\* The part of Get's critical section every call goes through: touch the
\* location, evict, and find or install the entry of the key.
EnterCache(c) ==
    LET k == call[c].key
    IN  /\ call[c].pc = "lookup"
        /\ entries[k] = NoEntry => Unused # {}
        /\ lru' = TouchLocation(k.location)
        /\ entries' = [x \in Keys |->
                         IF x = k THEN Address(c)
                         ELSE IF x.location \in EvictedBy(k.location) THEN NoEntry
                         ELSE entries[x]]

IsFresh(c) == Found(c).hasValue /\ call[c].t < Found(c).validUntil

\* Mutant: a value is stale for ever.
IsStaleForever(c) == ~IsFresh(c) /\ Found(c).hasValue

IsStale(c) == ~IsFresh(c) /\ Found(c).hasValue /\ call[c].t < Found(c).staleUntil

\* Mutant: a failed entry is fetched again at once.
NeverInCooldown(c) == FALSE

InCooldown(c) == ~Found(c).refreshing /\ call[c].t < Found(c).retryAfter

\* envelopeFrom(entry, ..., stale) and the return of Get.
Answered(c, entry, stale) ==
    [call[c] EXCEPT !.pc = "done", !.entry = NoEntry, !.out = "data", !.stale = stale,
                    !.data = entry.result, !.fetchedAt = entry.fetchedAt]

\* Get returns an error.
Refused(c, outcome) == [call[c] EXCEPT !.pc = "done", !.entry = NoEntry, !.out = outcome]

-----------------------------------------------------------------------------
Init ==
    /\ now = 0
    /\ lru = <<>>
    /\ entries = [k \in Keys |-> NoEntry]
    /\ heap = [e \in EntryIds |-> BlankEntry]
    /\ call = [c \in Calls |-> BlankCall]
    /\ worker = [e \in EntryIds |-> NoWorker]
    /\ phase = "open"

\* A handler calls Get, which reads the clock before it takes the mutex.
Start(c, k) ==
    /\ phase = "open"
    /\ call[c].pc = "idle"
    /\ call' = [call EXCEPT ![c] = [@ EXCEPT !.pc = "lookup", !.key = k, !.t = now]]
    /\ UNCHANGED <<now, lru, entries, heap, worker, phase>>

\* A fresh value is returned at once.
FreshHit(c) ==
    /\ EnterCache(c)
    /\ IsFresh(c)
    /\ call' = [call EXCEPT ![c] = Answered(c, Found(c), FALSE)]
    /\ UNCHANGED <<now, heap, worker, phase>>

\* A stale value is returned; nobody refreshes it because a refresh runs or
\* the entry is cooling down.
StaleHit(c) ==
    /\ EnterCache(c)
    /\ IsStale(c)
    /\ Found(c).refreshing \/ call[c].t < Found(c).retryAfter
    /\ call' = [call EXCEPT ![c] = Answered(c, Found(c), TRUE)]
    /\ UNCHANGED <<now, heap, worker, phase>>

\* A stale value is returned and a background refresh is started.
StaleHitRefresh(c) ==
    /\ EnterCache(c)
    /\ IsStale(c)
    /\ ~Found(c).refreshing /\ ~(call[c].t < Found(c).retryAfter)
    /\ heap' = [heap EXCEPT ![Address(c)].refreshing = TRUE]
    /\ worker' = [worker EXCEPT ![Address(c)] =
                    [NoWorker EXCEPT !.pc = "fetch", !.key = call[c].key]]
    /\ call' = [call EXCEPT ![c] = Answered(c, Found(c), TRUE)]
    /\ UNCHANGED <<now, phase>>

\* No usable value and the entry is cooling down: ErrUnavailable.
Reject(c) ==
    /\ EnterCache(c)
    /\ ~IsFresh(c) /\ ~IsStale(c)
    /\ InCooldown(c)
    /\ call' = [call EXCEPT ![c] = Refused(c, "unavailable")]
    /\ UNCHANGED <<now, heap, worker, phase>>

\* No usable value and another fetch runs: wait on entry.wait.
Join(c) ==
    /\ EnterCache(c)
    /\ ~IsFresh(c) /\ ~IsStale(c)
    /\ Found(c).refreshing
    /\ call' = [call EXCEPT ![c] = [@ EXCEPT !.pc = "waiting", !.entry = Address(c), !.woken = FALSE]]
    /\ UNCHANGED <<now, heap, worker, phase>>

\* No usable value, no fetch, no cooldown: this call fetches synchronously.
Lead(c) ==
    /\ EnterCache(c)
    /\ ~IsFresh(c) /\ ~IsStale(c)
    /\ ~InCooldown(c) /\ ~Found(c).refreshing
    /\ heap' = [heap EXCEPT ![Address(c)] = [Found(c) EXCEPT !.refreshing = TRUE]]
    /\ call' = [call EXCEPT ![c] = [@ EXCEPT !.pc = "fetch", !.entry = Address(c)]]
    /\ UNCHANGED <<now, worker, phase>>

Lookup(c) == \/ FreshHit(c) \/ StaleHit(c) \/ StaleHitRefresh(c)
             \/ Reject(c) \/ Join(c) \/ Lead(c)

-----------------------------------------------------------------------------
(* The end of a fetch.                                                     *)

\* The fetch of a leading call returns and finishRefresh reads the clock.  The
\* client may have disconnected: then the error can be that of its context.
FetchReturns(c, err) ==
    /\ call[c].pc = "fetch"
    /\ call' = [call EXCEPT ![c] = [@ EXCEPT !.pc = "finish", !.err = err, !.at = now]]
    /\ UNCHANGED <<now, lru, entries, heap, worker, phase>>

\* The fetch of a background worker uses the context of the service.
WorkerReturns(e, err) ==
    /\ worker[e].pc = "fetch"
    /\ err = CtxError => phase # "open"
    /\ worker' = [worker EXCEPT ![e].pc = "finish", ![e].err = err, ![e].at = now]
    /\ UNCHANGED <<now, lru, entries, heap, call, phase>>

\* What finishRefresh leaves in the entry after a success.
Refreshed(entry, key, at) ==
    [entry EXCEPT !.result = key, !.hasValue = TRUE, !.fetchedAt = at,
                  !.validUntil = at + FreshFor[key.kind],
                  !.staleUntil = at + StaleFor[key.kind],
                  !.retryAfter = 0, !.failures = 0, !.refreshing = FALSE]

\* Mutant: a failed refresh drops the cached value.
FailedForgets(entry, at, delay) ==
    [entry EXCEPT !.failures = @ + 1, !.retryAfter = at + delay, !.refreshing = FALSE,
                  !.hasValue = FALSE]

\* Mutant: the error path returns before it resets refreshing.
FailedStuck(entry, at, delay) ==
    [entry EXCEPT !.failures = @ + 1, !.retryAfter = at + delay]

\* What finishRefresh leaves in the entry after a failure.
Failed(entry, at, delay) ==
    [entry EXCEPT !.failures = @ + 1, !.retryAfter = at + delay, !.refreshing = FALSE]

\* finishRefresh on entry e: store the outcome.
FinishRefresh(e, key, at, err) ==
    IF err = Ok
    THEN heap' = [heap EXCEPT ![e] = Refreshed(heap[e], key, at)]
    ELSE \E delay \in RetryDelays(err, heap[e].failures + 1) :
             heap' = [heap EXCEPT ![e] = Failed(heap[e], at, delay)]

\* Mutant: entry.wait is never closed.
ReleasedNobody(e) == call

\* finishRefresh closes entry.wait, which releases every call waiting on it.
Released(e) ==
    [c \in Calls |-> IF call[c].pc = "waiting" /\ call[c].entry = e
                     THEN [call[c] EXCEPT !.woken = TRUE] ELSE call[c]]

Finish(c) ==
    LET e == call[c].entry
    IN  /\ call[c].pc = "finish"
        /\ FinishRefresh(e, call[c].key, call[c].at, call[c].err)
        /\ call' = [Released(e) EXCEPT
                      ![c] = [(IF call[c].err = Ok THEN [call[c] EXCEPT !.pc = "reply"]
                               ELSE Refused(c, "unavailable")) EXCEPT !.err = Ok, !.at = 0]]
        /\ UNCHANGED <<now, lru, entries, worker, phase>>

\* Mutant: refreshAsync retries a failed fetch although Close has cancelled it.
WorkerFinishRetries(e) ==
    /\ worker[e].pc = "finish"
    /\ IF worker[e].err = Ok
       THEN /\ FinishRefresh(e, worker[e].key, worker[e].at, worker[e].err)
            /\ call' = Released(e)
            /\ worker' = [worker EXCEPT ![e] = NoWorker]
       ELSE /\ worker' = [worker EXCEPT ![e].pc = "fetch"]
            /\ UNCHANGED <<heap, call>>
    /\ UNCHANGED <<now, lru, entries, phase>>

WorkerFinish(e) ==
    /\ worker[e].pc = "finish"
    /\ FinishRefresh(e, worker[e].key, worker[e].at, worker[e].err)
    /\ call' = Released(e)
    /\ worker' = [worker EXCEPT ![e] = NoWorker]
    /\ UNCHANGED <<now, lru, entries, phase>>

\* The leading call takes the mutex again to build its envelope.
Reply(c) ==
    /\ call[c].pc = "reply"
    /\ call' = [call EXCEPT ![c] = Answered(c, heap[call[c].entry], FALSE)]
    /\ UNCHANGED <<now, lru, entries, heap, worker, phase>>

\* Mutant: a woken call answers from the entry without going round the loop.
WakeAnswers(c) ==
    /\ call[c].pc = "waiting" /\ call[c].woken
    /\ call' = [call EXCEPT ![c] = Answered(c, heap[call[c].entry], FALSE)]
    /\ UNCHANGED <<now, lru, entries, heap, worker, phase>>

\* <-wait: the call goes round the loop and reads the clock again.
Wake(c) ==
    /\ call[c].pc = "waiting" /\ call[c].woken
    /\ call' = [call EXCEPT ![c] = [@ EXCEPT !.pc = "lookup", !.t = now, !.entry = NoEntry,
                                             !.woken = FALSE]]
    /\ UNCHANGED <<now, lru, entries, heap, worker, phase>>

\* <-ctx.Done(): the client disconnected while its call waited.
AbandonWait(c) ==
    /\ call[c].pc = "waiting"
    /\ call' = [call EXCEPT ![c] = Refused(c, "cancelled")]
    /\ UNCHANGED <<now, lru, entries, heap, worker, phase>>

-----------------------------------------------------------------------------
(* The environment and the lifecycle.                                      *)

Tick ==
    /\ now < MaxTime
    /\ now' = now + 1
    /\ UNCHANGED <<lru, entries, heap, call, worker, phase>>

\* Close cancels the service context.  The runtime manager calls it only when
\* no call runs and none can start: it has replaced the runtime under the
\* write lock every handler holds for reading.
CloseService ==
    /\ phase = "open"
    /\ \A c \in Calls : call[c].pc \in {"idle", "done"}
    /\ phase' = "draining"
    /\ UNCHANGED <<now, lru, entries, heap, call, worker>>

\* wg.Wait() returned: the provider is closed.
CloseProvider ==
    /\ phase = "draining"
    /\ \A e \in EntryIds : worker[e].pc = "none"
    /\ phase' = "closed"
    /\ UNCHANGED <<now, lru, entries, heap, call, worker>>

\* The context of Close expired first: the provider is closed under workers.
CloseTimeout ==
    /\ phase = "draining"
    /\ phase' = "closed"
    /\ UNCHANGED <<now, lru, entries, heap, call, worker>>

\* Everything has stopped: nothing is left to happen.
Stopped ==
    /\ phase = "closed"
    /\ \A e \in EntryIds : worker[e].pc = "none"
    /\ UNCHANGED vars

CallStep(c) == \/ \E k \in Keys : Start(c, k)
               \/ Lookup(c)
               \/ \E err \in Errors \cup {Ok} : FetchReturns(c, err)
               \/ Finish(c) \/ Reply(c) \/ Wake(c) \/ AbandonWait(c)

WorkerStep(e) == \/ \E err \in Errors \cup {Ok} : WorkerReturns(e, err)
                 \/ WorkerFinish(e)

Next == \/ \E c \in Calls : CallStep(c)
        \/ \E e \in EntryIds : WorkerStep(e)
        \/ Tick \/ CloseService \/ CloseProvider \/ CloseTimeout \/ Stopped

Spec == Init /\ [][Next]_vars

\* Goroutines are scheduled, and a fetch ends: the HTTP client of the provider
\* has a timeout and the service context is cancelled by Close.
CallProgress(c) == \/ Lookup(c)
                   \/ \E err \in Errors \cup {Ok} : FetchReturns(c, err)
                   \/ Finish(c) \/ Reply(c) \/ Wake(c)

Fairness == /\ \A c \in Calls : WF_vars(CallProgress(c))
            /\ \A e \in EntryIds : WF_vars(WorkerStep(e))

FairSpec == Spec /\ Fairness

-----------------------------------------------------------------------------
(* Properties.                                                             *)

\* Every variable keeps its type: in particular a deadline stored by
\* finishRefresh is never before the clock's origin.
TypeOK ==
    /\ now \in Nat
    /\ lru \in Seq(Locations)
    /\ entries \in [Keys -> EntryIds \cup {NoEntry}]
    /\ heap \in [EntryIds -> Entry]
    /\ call \in [Calls -> Call]
    /\ worker \in [EntryIds -> Worker]
    /\ phase \in {"open", "draining", "closed"}

\* A call that fetches for entry e, or is about to store what it fetched.
Leads(c, e) == call[c].entry = e /\ call[c].pc \in {"fetch", "finish"}

\* entry.refreshing is set exactly while one goroutine, a leading Get or a
\* refreshAsync worker, owes the entry a finishRefresh.  Were it left set, the
\* key could never be fetched again; were there two owners, the second would
\* close a nil or a foreign wait channel.
OneOwnerPerRefresh ==
    \A e \in EntryIds :
        /\ heap[e].refreshing <=> (worker[e].pc # "none" \/ \E c \in Calls : Leads(c, e))
        /\ worker[e].pc # "none" => \A c \in Calls : ~Leads(c, e)
        /\ \A c, d \in Calls : Leads(c, e) /\ Leads(d, e) => c = d

\* A Get that waits on entry.wait has been released, or some goroutine still
\* owes the entry a finishRefresh, even when the entry has been evicted.
NoLostWaiter ==
    \A c \in Calls : call[c].pc = "waiting" /\ ~call[c].woken => heap[call[c].entry].refreshing

\* A Get is answered with a dataset fetched for its own location and kind:
\* never with an empty entry, and never with another key's data after an
\* eviction and a new fetch.
ReplyForKey ==
    \A c \in Calls : call[c].out = "data" => call[c].data = call[c].key

\* The age of an answer, measured at the clock reading t of the Get.  A fresh
\* answer is younger than freshFor; a stale one is at least that old and never
\* reaches staleFor, however long the refreshes fail.
ReplyAge ==
    \A c \in Calls : call[c].out = "data" =>
        LET k == call[c].key.kind
            f == call[c].fetchedAt
        IN  IF call[c].stale
            THEN f + FreshFor[k] <= call[c].t /\ call[c].t < f + StaleFor[k]
            ELSE call[c].t < f + FreshFor[k]

\* The cache is bounded: the list of locations has no duplicates and at most
\* MaxLocations elements, an entry is in the map only while its location is in
\* the list, so that an eviction leaves none behind, and two keys never share
\* an entry.
EntriesTracked ==
    /\ Len(lru) <= Maximum
    /\ \A i, j \in 1..Len(lru) : lru[i] = lru[j] => i = j
    /\ \A k \in Keys : entries[k] # NoEntry =>
          /\ k.location \in Tracked
          /\ \A x \in Keys : entries[x] = entries[k] => x = k

\* While an entry stays in the map a refresh, failed or not, never loses its
\* value and never replaces it by one fetched earlier, although the clock is
\* read outside the mutex.
ValueNeverRegresses ==
    [][\A k \in Keys :
          entries[k] # NoEntry /\ entries'[k] = entries[k] /\ heap[entries[k]].hasValue =>
              /\ heap'[entries[k]].hasValue
              /\ heap'[entries[k]].fetchedAt >= heap[entries[k]].fetchedAt]_vars

\* No fetch of an entry of the map begins before the cooldown its last failure
\* set has run out, whichever calls race for it.
CooldownRespected ==
    [][\A k \in Keys :
          LET e == entries[k]
          IN  e # NoEntry /\ ~heap[e].refreshing /\ heap'[e].refreshing =>
                  now >= heap[e].retryAfter]_vars

\* Every Get that has started returns: no waiter is forgotten, and no call
\* goes round the loop for ever.  A call that has returned stays so.
EveryCallReturns ==
    (\E c \in Calls : call[c].pc = "lookup") ~> (\A c \in Calls : call[c].pc \in {"idle", "done"})

\* Once Close has cancelled the service every background worker ends.
WorkersStop == (phase = "draining") ~> (\A e \in EntryIds : worker[e].pc = "none")

=============================================================================
