------------------------- MODULE WeatherCacheProofs -------------------------
(***************************************************************************)
(* Proofs about WeatherCache.                                              *)
(***************************************************************************)
EXTENDS WeatherCache, TLAPS

\* The delays retryDelay can return are natural numbers.
LEMMA RetryDelaysNat ==
    ASSUME NEW err \in Errors, NEW n \in Nat
    PROVE  RetryDelays(err, n) \subseteq Nat
BY CacheAssumption DEF CacheAssumption, RetryDelays, Jitter

\* The records finishRefresh leaves behind are entries.
LEMMA RefreshedType ==
    ASSUME NEW x \in Entry, NEW k \in Keys, NEW at \in Nat
    PROVE  Refreshed(x, k, at) \in Entry
<1> DEFINE valid == at + FreshFor[k.kind]
           stale == at + StaleFor[k.kind]
<1>1. valid \in Nat /\ stale \in Nat
  BY CacheAssumption DEF CacheAssumption, Keys
<1> HIDE DEF valid, stale
<1>2. [x EXCEPT !.result = k, !.hasValue = TRUE, !.fetchedAt = at, !.validUntil = valid,
                !.staleUntil = stale, !.retryAfter = 0, !.failures = 0,
                !.refreshing = FALSE] \in Entry
  BY <1>1 DEF Entry
<1> QED BY <1>2 DEF Refreshed, valid, stale

\* A failure leaves an entry too.
LEMMA FailedType ==
    ASSUME NEW x \in Entry, NEW at \in Nat, NEW delay \in Nat
    PROVE  Failed(x, at, delay) \in Entry
<1> DEFINE count == x.failures + 1
           until == at + delay
<1>1. count \in Nat /\ until \in Nat
  BY DEF Entry
<1> HIDE DEF count, until
<1>2. [x EXCEPT !.failures = count, !.retryAfter = until, !.refreshing = FALSE] \in Entry
  BY <1>1 DEF Entry
<1> QED BY <1>2 DEF Failed, count, until

\* touchLocationLocked leaves a list of locations.
LEMMA TouchLocationType ==
    ASSUME lru \in Seq(Locations), NEW l \in Locations
    PROVE  TouchLocation(l) \in Seq(Locations)
<1>1. MoveToFront(l) \in Seq(Locations)
  BY DEF MoveToFront
<1>2. PushFront(l) \in Seq(Locations)
  BY DEF PushFront
<1>3. Len(PushFront(l)) = Len(lru) + 1
  BY DEF PushFront
<1>4. ASSUME Len(lru) + 1 > Maximum
      PROVE  SubSeq(PushFront(l), 1, Maximum) \in Seq(Locations)
  BY <1>2, <1>3, <1>4, CacheAssumption DEF CacheAssumption
<1> QED BY <1>1, <1>2, <1>4 DEF TouchLocation

-----------------------------------------------------------------------------
(* Type correctness.                                                       *)

\* What the types of the variables leave open: a running call and a running
\* worker have a key, and a call that left the lookup holds an entry.
Shape ==
    /\ \A c \in Calls :
          /\ call[c].pc # "idle" => call[c].key \in Keys
          /\ call[c].pc \in {"waiting", "fetch", "finish", "reply"} => call[c].entry \in EntryIds
    /\ \A e \in EntryIds : worker[e].pc # "none" => worker[e].key \in Keys

TypeInv == TypeOK /\ Shape

\* The entry a lookup works on exists, and its contents are an entry.
LEMMA AddressType ==
    ASSUME TypeInv, NEW c \in Calls, EnterCache(c)
    PROVE  /\ call[c].key \in Keys
           /\ Address(c) \in EntryIds
           /\ Found(c) \in Entry
           /\ lru' \in Seq(Locations)
           /\ entries' \in [Keys -> EntryIds \cup {NoEntry}]
<1>1. call[c].key \in Keys
  BY DEF TypeInv, Shape, EnterCache
<1>2. Address(c) \in EntryIds
  BY <1>1 DEF TypeInv, TypeOK, EnterCache, Address, Unused
<1>3. BlankEntry \in Entry
  BY DEF BlankEntry, Entry
<1>4. Found(c) \in Entry
  BY <1>1, <1>3 DEF TypeInv, TypeOK, Found
<1>5. lru' \in Seq(Locations)
  BY <1>1, TouchLocationType DEF TypeInv, TypeOK, EnterCache, Keys
<1>6. entries' \in [Keys -> EntryIds \cup {NoEntry}]
  BY <1>1, <1>2 DEF TypeInv, TypeOK, EnterCache
<1> QED BY <1>1, <1>2, <1>4, <1>5, <1>6

\* The local states in which Get returns.
LEMMA AnsweredType ==
    ASSUME TypeInv, NEW c \in Calls, NEW x \in Entry, NEW stale \in BOOLEAN
    PROVE  /\ Answered(c, x, stale) \in Call
           /\ Answered(c, x, stale).pc = "done"
           /\ Answered(c, x, stale).key = call[c].key
<1> DEFINE r == call[c]
           data == x.result
           fetched == x.fetchedAt
<1>1. r \in Call /\ data \in Keys \cup {NoKey} /\ fetched \in Nat
  BY DEF TypeInv, TypeOK, Entry
<1> HIDE DEF r, data, fetched
<1> DEFINE answer == [r EXCEPT !.pc = "done", !.entry = NoEntry, !.out = "data",
                               !.stale = stale, !.data = data, !.fetchedAt = fetched]
<1>2. answer \in Call
  BY <1>1 DEF Call, PCs, Outcomes
<1>3. answer.pc = "done" /\ answer.key = r.key
  BY <1>1 DEF Call
<1> QED BY <1>2, <1>3 DEF Answered, r, data, fetched

\* A call that returns an error has a well-typed local state.
LEMMA RefusedType ==
    ASSUME TypeInv, NEW c \in Calls, NEW outcome \in Outcomes
    PROVE  /\ Refused(c, outcome) \in Call
           /\ Refused(c, outcome).pc = "done"
           /\ Refused(c, outcome).key = call[c].key
BY ZenonT(60) DEF TypeInv, TypeOK, Refused, Call, PCs

\* finishRefresh keeps the type of the heap.
LEMMA FinishRefreshType ==
    ASSUME TypeInv, NEW e \in EntryIds, NEW key \in Keys, NEW at \in Nat,
           NEW err \in Errors \cup {Ok}, FinishRefresh(e, key, at, err)
    PROVE  heap' \in [EntryIds -> Entry]
<1>1. CASE err = Ok
  BY <1>1, RefreshedType DEF TypeInv, TypeOK, FinishRefresh
<1>2. CASE err # Ok
  <2>1. heap[e].failures + 1 \in Nat
    BY DEF TypeInv, TypeOK, Entry
  <2>2. PICK delay \in RetryDelays(err, heap[e].failures + 1) :
            heap' = [heap EXCEPT ![e] = Failed(heap[e], at, delay)]
    BY <1>2 DEF FinishRefresh
  <2>3. delay \in Nat
    BY <1>2, <2>1, RetryDelaysNat
  <2> QED BY <2>2, <2>3, FailedType DEF TypeInv, TypeOK
<1> QED BY <1>1, <1>2

\* Releasing the waiters of an entry keeps the type of the calls.
LEMMA ReleasedType ==
    ASSUME TypeInv, NEW e \in EntryIds
    PROVE  /\ Released(e) \in [Calls -> Call]
           /\ \A c \in Calls : /\ Released(e)[c].pc = call[c].pc
                               /\ Released(e)[c].key = call[c].key
                               /\ Released(e)[c].entry = call[c].entry
                               /\ Released(e)[c].woken <=>
                                    call[c].woken \/ (call[c].pc = "waiting" /\ call[c].entry = e)
<1> SUFFICES ASSUME NEW c \in Calls
             PROVE  /\ Released(e)[c] \in Call
                    /\ Released(e)[c].pc = call[c].pc
                    /\ Released(e)[c].key = call[c].key
                    /\ Released(e)[c].entry = call[c].entry
                    /\ Released(e)[c].woken <=>
                         call[c].woken \/ (call[c].pc = "waiting" /\ call[c].entry = e)
  BY Zenon DEF Released
<1> DEFINE r == call[c]
<1>1. r \in Call
  BY DEF TypeInv, TypeOK
<1>2. Released(e)[c] = IF r.pc = "waiting" /\ r.entry = e THEN [r EXCEPT !.woken = TRUE] ELSE r
  BY DEF Released
<1> HIDE DEF r
<1>3. [r EXCEPT !.woken = TRUE] \in Call
  BY <1>1 DEF Call
<1>4. /\ [r EXCEPT !.woken = TRUE].pc = r.pc /\ [r EXCEPT !.woken = TRUE].key = r.key
      /\ [r EXCEPT !.woken = TRUE].entry = r.entry /\ [r EXCEPT !.woken = TRUE].woken = TRUE
  BY <1>1 DEF Call
<1>5. CASE r.pc = "waiting" /\ r.entry = e
  BY <1>2, <1>3, <1>4, <1>5, Zenon DEF r
<1>6. CASE ~(r.pc = "waiting" /\ r.entry = e)
  BY <1>1, <1>2, <1>6, Zenon DEF r
<1> QED BY <1>5, <1>6

CallShape(r) ==
    /\ r \in Call
    /\ r.pc # "idle" => r.key \in Keys
    /\ r.pc \in {"waiting", "fetch", "finish", "reply"} => r.entry \in EntryIds

WorkerShape(w) == w \in Worker /\ (w.pc # "none" => w.key \in Keys)

\* TypeInv, call by call and worker by worker.
LEMMA TypeInvPointwise ==
    TypeInv <=>
        /\ now \in Nat
        /\ lru \in Seq(Locations)
        /\ entries \in [Keys -> EntryIds \cup {NoEntry}]
        /\ heap \in [EntryIds -> Entry]
        /\ call = [c \in Calls |-> call[c]]
        /\ \A c \in Calls : CallShape(call[c])
        /\ worker = [e \in EntryIds |-> worker[e]]
        /\ \A e \in EntryIds : WorkerShape(worker[e])
        /\ phase \in {"open", "draining", "closed"}
BY DEF TypeInv, TypeOK, Shape, CallShape, WorkerShape

\* The initial states are well typed.
THEOREM InitTypeInv == Init => TypeInv
<1> SUFFICES ASSUME Init PROVE TypeInv
  OBVIOUS
<1>1. BlankEntry \in Entry
  BY DEF BlankEntry, Entry
<1>2. BlankCall \in Call /\ BlankCall.pc = "idle"
  BY DEF BlankCall, Call, PCs, Outcomes
<1>3. NoWorker \in Worker /\ NoWorker.pc = "none"
  BY DEF NoWorker, Worker
<1> QED BY <1>1, <1>2, <1>3 DEF Init, TypeInv, TypeOK, Shape

\* A step that changes the local state of one call only.
LEMMA OneCallChanges ==
    ASSUME TypeInv, NEW c \in Calls, NEW r, CallShape(r),
           call' = [call EXCEPT ![c] = r]
    PROVE  /\ call' = [d \in Calls |-> call'[d]]
           /\ \A d \in Calls : CallShape(call'[d])
BY TypeInvPointwise

\* The new local states of the calls, action by action.
LEMMA CallSteps ==
    ASSUME TypeInv, NEW c \in Calls
    PROVE  /\ \A k \in Keys : call[c].pc = "idle" =>
                 CallShape([call[c] EXCEPT !.pc = "lookup", !.key = k, !.t = now])
           /\ \A e \in EntryIds : call[c].pc = "lookup" =>
                 /\ CallShape([call[c] EXCEPT !.pc = "waiting", !.entry = e, !.woken = FALSE])
                 /\ CallShape([call[c] EXCEPT !.pc = "fetch", !.entry = e])
           /\ \A err \in Errors \cup {Ok} : call[c].pc = "fetch" =>
                 CallShape([call[c] EXCEPT !.pc = "finish", !.err = err, !.at = now])
           /\ call[c].pc = "finish" =>
                 /\ CallShape([[call[c] EXCEPT !.pc = "reply"] EXCEPT !.err = Ok, !.at = 0])
                 /\ CallShape([Refused(c, "unavailable") EXCEPT !.err = Ok, !.at = 0])
           /\ call[c].pc = "waiting" =>
                 CallShape([call[c] EXCEPT !.pc = "lookup", !.t = now, !.entry = NoEntry,
                                           !.woken = FALSE])
           /\ \A x \in Entry, stale \in BOOLEAN : call[c].pc # "idle" => CallShape(Answered(c, x, stale))
           /\ \A outcome \in Outcomes : call[c].pc # "idle" => CallShape(Refused(c, outcome))
<1> DEFINE r == call[c]
           t == now
<1>1. CallShape(r) /\ t \in Nat
  BY TypeInvPointwise
<1> HIDE DEF r, t
<1>2. ASSUME NEW k \in Keys
      PROVE  CallShape([r EXCEPT !.pc = "lookup", !.key = k, !.t = t])
  BY <1>1 DEF CallShape, Call, PCs
<1>3. ASSUME NEW e \in EntryIds, r.pc = "lookup"
      PROVE  /\ CallShape([r EXCEPT !.pc = "waiting", !.entry = e, !.woken = FALSE])
             /\ CallShape([r EXCEPT !.pc = "fetch", !.entry = e])
  BY <1>1, <1>3 DEF CallShape, Call, PCs
<1>4. ASSUME NEW err \in Errors \cup {Ok}, r.pc = "fetch"
      PROVE  CallShape([r EXCEPT !.pc = "finish", !.err = err, !.at = t])
  BY <1>1, <1>4 DEF CallShape, Call, PCs
<1>5. ASSUME r.pc = "finish"
      PROVE  CallShape([[r EXCEPT !.pc = "reply"] EXCEPT !.err = Ok, !.at = 0])
  BY <1>1, <1>5 DEF CallShape, Call, PCs
<1>6. ASSUME r.pc = "waiting"
      PROVE  CallShape([r EXCEPT !.pc = "lookup", !.t = t, !.entry = NoEntry, !.woken = FALSE])
  BY <1>1, <1>6 DEF CallShape, Call, PCs
<1>7. ASSUME NEW x \in Entry, NEW stale \in BOOLEAN, r.pc # "idle"
      PROVE  CallShape(Answered(c, x, stale))
  BY <1>1, <1>7, AnsweredType DEF CallShape, r
<1>8. ASSUME NEW outcome \in Outcomes, r.pc # "idle"
      PROVE  CallShape(Refused(c, outcome))
  BY <1>1, <1>8, RefusedType DEF CallShape, r
<1>9. ASSUME r.pc = "finish"
      PROVE  CallShape([Refused(c, "unavailable") EXCEPT !.err = Ok, !.at = 0])
  <2> DEFINE q == Refused(c, "unavailable")
  <2>1. CallShape(q) /\ q.pc = "done"
    BY <1>8, <1>9, RefusedType DEF Outcomes
  <2> HIDE DEF q
  <2>2. CallShape([q EXCEPT !.err = Ok, !.at = 0])
    BY <2>1 DEF CallShape, Call
  <2> QED BY <2>2 DEF q
<1> QED BY <1>2, <1>3, <1>4, <1>5, <1>6, <1>7, <1>8, <1>9 DEF r, t

\* Every step of the cache keeps the types, action by action.
LEMMA NextTypeInv == TypeInv /\ [Next]_vars => TypeInv'
<1> SUFFICES ASSUME TypeInv, [Next]_vars PROVE TypeInv'
  OBVIOUS
<1> DEFINE Rest == /\ now' \in Nat
                   /\ lru' \in Seq(Locations)
                   /\ entries' \in [Keys -> EntryIds \cup {NoEntry}]
                   /\ heap' \in [EntryIds -> Entry]
                   /\ phase' \in {"open", "draining", "closed"}
           CallsOK == call' = [d \in Calls |-> call'[d]] /\ \A d \in Calls : CallShape(call'[d])
           WorkersOK == /\ worker' = [e \in EntryIds |-> worker'[e]]
                        /\ \A e \in EntryIds : WorkerShape(worker'[e])
<1>0. ASSUME Rest, CallsOK, WorkersOK PROVE TypeInv'
  BY <1>0 DEF TypeInv, TypeOK, Shape, CallShape, WorkerShape
<1>1. ASSUME UNCHANGED call PROVE CallsOK
  BY <1>1, TypeInvPointwise
<1>2. ASSUME UNCHANGED worker PROVE WorkersOK
  BY <1>2, TypeInvPointwise
<1>3. ASSUME UNCHANGED <<now, lru, entries, heap, phase>> PROVE Rest
  BY <1>3, TypeInvPointwise
<1>4. ASSUME NEW c \in Calls, EnterCache(c), UNCHANGED <<now, phase>>,
             heap' \in [EntryIds -> Entry]
      PROVE  Rest
  BY <1>4, TypeInvPointwise, AddressType
<1> HIDE DEF Rest, CallsOK, WorkersOK
<1>5. ASSUME NEW c \in Calls, CallStep(c) PROVE TypeInv'
  <2>1. ASSUME NEW k \in Keys, Start(c, k) PROVE TypeInv'
    <3> DEFINE r == [call[c] EXCEPT !.pc = "lookup", !.key = k, !.t = now]
    <3>1. call' = [call EXCEPT ![c] = r] /\ CallShape(r)
      BY <2>1, CallSteps DEF Start
    <3> HIDE DEF r
    <3>2. CallsOK
      BY <3>1, OneCallChanges DEF CallsOK
    <3> QED BY <1>0, <1>2, <1>3, <2>1, <3>2 DEF Start
  <2>2. CASE FreshHit(c) \/ StaleHit(c)
    <3>1. PICK stale \in BOOLEAN : call' = [call EXCEPT ![c] = Answered(c, Found(c), stale)]
      BY <2>2 DEF FreshHit, StaleHit
    <3>2. EnterCache(c) /\ UNCHANGED <<now, heap, worker, phase>>
      BY <2>2 DEF FreshHit, StaleHit
    <3>3. CallsOK
      BY <3>1, <3>2, AddressType, CallSteps, OneCallChanges DEF EnterCache, CallsOK
    <3>4. Rest
      BY <1>4, <3>2, TypeInvPointwise
    <3> QED BY <1>0, <1>2, <3>2, <3>3, <3>4
  <2>3. CASE StaleHitRefresh(c)
    <3> USE <2>3 DEF StaleHitRefresh
    <3>1. CallsOK
      BY AddressType, CallSteps, OneCallChanges DEF EnterCache, CallsOK
    <3>2. heap' \in [EntryIds -> Entry]
      BY AddressType, TypeInvPointwise, ZenonT(60) DEF Entry
    <3>3. WorkerShape([NoWorker EXCEPT !.pc = "fetch", !.key = call[c].key])
      BY AddressType DEF WorkerShape, NoWorker, Worker
    <3>4. WorkersOK
      BY <3>3, AddressType, TypeInvPointwise DEF WorkersOK
    <3> QED BY <1>0, <1>4, <3>1, <3>2, <3>4
  <2>4. CASE Reject(c)
    <3>1. CallsOK
      BY <2>4, CallSteps, OneCallChanges DEF Reject, EnterCache, CallsOK, Outcomes
    <3>2. Rest
      BY <1>4, <2>4, TypeInvPointwise DEF Reject
    <3> QED BY <1>0, <1>2, <2>4, <3>1, <3>2 DEF Reject
  <2>5. CASE Join(c)
    <3> DEFINE r == [call[c] EXCEPT !.pc = "waiting", !.entry = Address(c), !.woken = FALSE]
    <3>1. call' = [call EXCEPT ![c] = r] /\ CallShape(r)
      BY <2>5, AddressType, CallSteps DEF Join, EnterCache
    <3> HIDE DEF r
    <3>2. CallsOK
      BY <3>1, OneCallChanges DEF CallsOK
    <3>3. Rest
      BY <1>4, <2>5, TypeInvPointwise DEF Join
    <3> QED BY <1>0, <1>2, <2>5, <3>2, <3>3 DEF Join
  <2>6. CASE Lead(c)
    <3> DEFINE r == [call[c] EXCEPT !.pc = "fetch", !.entry = Address(c)]
    <3>1. call' = [call EXCEPT ![c] = r] /\ CallShape(r)
      BY <2>6, AddressType, CallSteps DEF Lead, EnterCache
    <3> HIDE DEF r
    <3>2. CallsOK
      BY <3>1, OneCallChanges DEF CallsOK
    <3>3. [Found(c) EXCEPT !.refreshing = TRUE] \in Entry
      BY <2>6, AddressType DEF Lead, Entry
    <3>4. heap' \in [EntryIds -> Entry]
      BY <2>6, <3>3, AddressType, TypeInvPointwise DEF Lead
    <3> QED BY <1>0, <1>2, <1>4, <2>6, <3>2, <3>4 DEF Lead
  <2>7. ASSUME NEW err \in Errors \cup {Ok}, FetchReturns(c, err) PROVE TypeInv'
    <3> DEFINE r == [call[c] EXCEPT !.pc = "finish", !.err = err, !.at = now]
    <3>1. call' = [call EXCEPT ![c] = r] /\ CallShape(r)
      BY <2>7, CallSteps DEF FetchReturns
    <3> HIDE DEF r
    <3>2. CallsOK
      BY <3>1, OneCallChanges DEF CallsOK
    <3> QED BY <1>0, <1>2, <1>3, <2>7, <3>2 DEF FetchReturns
  <2>8. CASE Finish(c)
    <3> DEFINE e == call[c].entry
               r == [(IF call[c].err = Ok THEN [call[c] EXCEPT !.pc = "reply"]
                      ELSE Refused(c, "unavailable")) EXCEPT !.err = Ok, !.at = 0]
    <3>1. /\ call[c].pc = "finish" /\ e \in EntryIds /\ call[c].key \in Keys
          /\ call[c].at \in Nat /\ call[c].err \in Errors \cup {Ok}
      BY <2>8, TypeInvPointwise DEF Finish, CallShape, Call
    <3>2. FinishRefresh(e, call[c].key, call[c].at, call[c].err)
      BY <2>8 DEF Finish
    <3>3. heap' \in [EntryIds -> Entry]
      BY <3>1, <3>2, FinishRefreshType
    <3>4. CallShape(r)
      BY <3>1, CallSteps
    <3>5. call' = [Released(e) EXCEPT ![c] = r]
      BY <2>8 DEF Finish
    <3> HIDE DEF r
    <3>6. \A d \in Calls : CallShape(Released(e)[d])
      <4> TAKE d \in Calls
      <4>1. Released(e)[d] \in Call /\ CallShape(call[d])
        BY <3>1, ReleasedType, TypeInvPointwise
      <4>2. /\ Released(e)[d].pc = call[d].pc /\ Released(e)[d].key = call[d].key
            /\ Released(e)[d].entry = call[d].entry
        BY <3>1, ReleasedType
      <4> QED BY <4>1, <4>2, Zenon DEF CallShape
    <3>7. CallsOK
      BY <3>1, <3>4, <3>5, <3>6, ReleasedType DEF CallsOK
    <3>8. Rest
      BY <2>8, <3>3, TypeInvPointwise DEF Finish, Rest
    <3> QED BY <1>0, <1>2, <2>8, <3>7, <3>8 DEF Finish
  <2>9. CASE Reply(c)
    <3>1. call[c].pc = "reply" /\ heap[call[c].entry] \in Entry
      BY <2>9, TypeInvPointwise DEF Reply, CallShape
    <3>2. CallsOK
      BY <2>9, <3>1, CallSteps, OneCallChanges DEF Reply, CallsOK
    <3> QED BY <1>0, <1>2, <1>3, <2>9, <3>2 DEF Reply
  <2>10. CASE Wake(c)
    <3> DEFINE r == [call[c] EXCEPT !.pc = "lookup", !.t = now, !.entry = NoEntry, !.woken = FALSE]
    <3>1. call' = [call EXCEPT ![c] = r] /\ CallShape(r)
      BY <2>10, CallSteps DEF Wake
    <3> HIDE DEF r
    <3>2. CallsOK
      BY <3>1, OneCallChanges DEF CallsOK
    <3> QED BY <1>0, <1>2, <1>3, <2>10, <3>2 DEF Wake
  <2>11. CASE AbandonWait(c)
    <3>1. CallsOK
      BY <2>11, CallSteps, OneCallChanges DEF AbandonWait, CallsOK, Outcomes
    <3> QED BY <1>0, <1>2, <1>3, <2>11, <3>1 DEF AbandonWait
  <2> QED BY <1>5, <2>1, <2>2, <2>3, <2>4, <2>5, <2>6, <2>7, <2>8, <2>9, <2>10, <2>11
          DEF CallStep, Lookup
<1>6. ASSUME NEW e \in EntryIds, WorkerStep(e) PROVE TypeInv'
  <2>1. ASSUME NEW err \in Errors \cup {Ok}, WorkerReturns(e, err) PROVE TypeInv'
    <3>1. now \in Nat /\ WorkerShape(worker[e]) /\ worker[e].pc = "fetch"
      BY <2>1, TypeInvPointwise DEF WorkerReturns
    <3>2. WorkerShape([worker[e] EXCEPT !.pc = "finish", !.err = err, !.at = now])
      BY <3>1 DEF WorkerShape, Worker
    <3>3. WorkersOK
      BY <2>1, <3>2, TypeInvPointwise DEF WorkerReturns, WorkersOK
    <3> QED BY <1>0, <1>1, <1>3, <2>1, <3>3 DEF WorkerReturns
  <2>2. CASE WorkerFinish(e)
    <3>1. worker[e].key \in Keys /\ worker[e].at \in Nat /\ worker[e].err \in Errors \cup {Ok}
      BY <2>2, TypeInvPointwise DEF WorkerFinish, WorkerShape, Worker
    <3>2. heap' \in [EntryIds -> Entry]
      BY <2>2, <3>1, FinishRefreshType DEF WorkerFinish
    <3>3. CallsOK
      BY <2>2, ReleasedType, TypeInvPointwise DEF WorkerFinish, CallsOK, CallShape
    <3>4. WorkerShape(NoWorker)
      BY DEF WorkerShape, NoWorker, Worker
    <3>5. WorkersOK
      BY <2>2, <3>4, TypeInvPointwise DEF WorkerFinish, WorkersOK
    <3>6. Rest
      BY <2>2, <3>2, TypeInvPointwise DEF WorkerFinish, Rest
    <3> QED BY <1>0, <3>3, <3>5, <3>6
  <2> QED BY <1>6, <2>1, <2>2 DEF WorkerStep
<1>7. CASE Tick \/ CloseService \/ CloseProvider \/ CloseTimeout
  <2>1. Rest
    BY <1>7, TypeInvPointwise DEF Tick, CloseService, CloseProvider, CloseTimeout, Rest
  <2> QED BY <1>0, <1>1, <1>2, <1>7, <2>1 DEF Tick, CloseService, CloseProvider, CloseTimeout
<1>8. CASE Stopped \/ UNCHANGED vars
  BY <1>0, <1>1, <1>2, <1>3, <1>8 DEF Stopped, vars
<1> QED BY <1>5, <1>6, <1>7, <1>8 DEF Next

\* Every variable of the cache keeps its type, for any number of calls,
\* locations, kinds and entries.
THEOREM TypeCorrect == Spec => []TypeOK
<1>1. TypeInv => TypeOK
  BY DEF TypeInv
<1> QED BY <1>1, InitTypeInv, NextTypeInv, PTL DEF Spec

-----------------------------------------------------------------------------
(* Every refresh has one owner, and no waiter is forgotten.                *)

OwnerInv == TypeInv /\ OneOwnerPerRefresh /\ NoLostWaiter

\* A call that waits and has not been released.
Waits(c) == call[c].pc = "waiting" /\ ~call[c].woken

\* Initially nothing refreshes and nobody waits.
THEOREM InitOwnerInv == Init => OwnerInv
<1> SUFFICES ASSUME Init PROVE OwnerInv
  OBVIOUS
<1>1. \A c \in Calls : call[c].pc = "idle"
  BY DEF Init, BlankCall
<1>2. \A e \in EntryIds : heap[e].refreshing = FALSE /\ worker[e].pc = "none"
  BY DEF Init, BlankEntry, NoWorker
<1> QED BY <1>1, <1>2, InitTypeInv DEF OwnerInv, OneOwnerPerRefresh, NoLostWaiter, Leads

\* A step that begins and ends no refresh and adds no waiter.
LEMMA NeutralStep ==
    ASSUME OwnerInv, TypeInv',
           \A e \in EntryIds : heap'[e].refreshing = heap[e].refreshing,
           \A e \in EntryIds : worker'[e].pc # "none" <=> worker[e].pc # "none",
           \A d \in Calls, e \in EntryIds : Leads(d, e)' <=> Leads(d, e),
           \A d \in Calls : Waits(d)' => Waits(d) /\ call'[d].entry = call[d].entry
    PROVE  OwnerInv'
<1>1. OneOwnerPerRefresh'
  <2> SUFFICES ASSUME NEW e \in EntryIds
               PROVE  /\ heap'[e].refreshing <=>
                            (worker'[e].pc # "none" \/ \E c \in Calls : Leads(c, e)')
                      /\ worker'[e].pc # "none" => \A c \in Calls : ~Leads(c, e)'
                      /\ \A c, d \in Calls : Leads(c, e)' /\ Leads(d, e)' => c = d
    BY Zenon DEF OneOwnerPerRefresh
  <2> QED BY Zenon DEF OwnerInv, OneOwnerPerRefresh
<1>2. NoLostWaiter'
  <2> SUFFICES ASSUME NEW d \in Calls, Waits(d)' PROVE heap'[call'[d].entry].refreshing
    BY DEF NoLostWaiter, Waits
  <2>1. Waits(d) /\ call'[d].entry = call[d].entry
    OBVIOUS
  <2>2. call[d].entry \in EntryIds /\ heap[call[d].entry].refreshing
    BY <2>1 DEF OwnerInv, TypeInv, Shape, NoLostWaiter, Waits
  <2> QED BY <2>1, <2>2
<1> QED BY <1>1, <1>2 DEF OwnerInv

\* A step that changes one call and begins no refresh.
LEMMA NeutralCall ==
    ASSUME OwnerInv, TypeInv', NEW c \in Calls, NEW r,
           call' = [call EXCEPT ![c] = r],
           UNCHANGED <<heap, worker>>,
           r.pc # "waiting",
           r.pc \in {"fetch", "finish"} <=> call[c].pc \in {"fetch", "finish"},
           r.pc \in {"fetch", "finish"} => r.entry = call[c].entry
    PROVE  OwnerInv'
<1>1. /\ call'[c] = r
      /\ \A d \in Calls \ {c} : call'[d] = call[d]
  BY DEF OwnerInv, TypeInv, TypeOK
<1>2. \A d \in Calls, e \in EntryIds : Leads(d, e)' <=> Leads(d, e)
  BY <1>1 DEF Leads
<1>3. \A d \in Calls : Waits(d)' => Waits(d) /\ call'[d].entry = call[d].entry
  BY <1>1 DEF Waits
<1> QED BY <1>2, <1>3, NeutralStep

\* The entry a lookup refreshes has no owner yet.
LEMMA NoOwnerYet ==
    ASSUME OwnerInv, NEW c \in Calls, EnterCache(c), ~Found(c).refreshing
    PROVE  /\ worker[Address(c)].pc = "none"
           /\ \A d \in Calls : ~Leads(d, Address(c))
<1>1. call[c].key \in Keys /\ Address(c) \in EntryIds
  BY AddressType DEF OwnerInv
<1>2. CASE entries[call[c].key] = NoEntry
  <2>1. ~InUse(Address(c))
    BY <1>1, <1>2 DEF EnterCache, Address, Unused
  <2> QED BY <2>1 DEF InUse, Holds, Leads
<1>3. CASE entries[call[c].key] # NoEntry
  <2>1. ~heap[Address(c)].refreshing
    BY <1>3 DEF Found, Address
  <2> QED BY <1>1, <2>1 DEF OwnerInv, OneOwnerPerRefresh
<1> QED BY <1>2, <1>3

\* A step that begins the refresh of entry e, by a new leading call or by a
\* new worker.
LEMMA BeginRefresh ==
    ASSUME OwnerInv, TypeInv', NEW e \in EntryIds,
           worker[e].pc = "none",
           \A d \in Calls : ~Leads(d, e),
           heap'[e].refreshing,
           \A x \in EntryIds \ {e} : heap'[x].refreshing = heap[x].refreshing,
           \A x \in EntryIds \ {e} : worker'[x].pc = worker[x].pc,
           \A d \in Calls, x \in EntryIds \ {e} : Leads(d, x)' <=> Leads(d, x),
           \/ worker'[e].pc # "none" /\ \A d \in Calls : ~Leads(d, e)'
           \/ worker'[e].pc = "none" /\ \E c \in Calls : \A d \in Calls : Leads(d, e)' <=> d = c,
           \A d \in Calls : Waits(d)' => Waits(d) /\ call'[d].entry = call[d].entry
    PROVE  OwnerInv'
<1>1. OneOwnerPerRefresh'
  <2> SUFFICES ASSUME NEW x \in EntryIds
               PROVE  /\ heap'[x].refreshing <=>
                            (worker'[x].pc # "none" \/ \E c \in Calls : Leads(c, x)')
                      /\ worker'[x].pc # "none" => \A c \in Calls : ~Leads(c, x)'
                      /\ \A c, d \in Calls : Leads(c, x)' /\ Leads(d, x)' => c = d
    BY Zenon DEF OneOwnerPerRefresh
  <2>1. CASE x = e
    BY <2>1, Zenon
  <2>2. CASE x # e
    BY <2>2, Zenon DEF OwnerInv, OneOwnerPerRefresh
  <2> QED BY <2>1, <2>2
<1>2. NoLostWaiter'
  <2> SUFFICES ASSUME NEW d \in Calls, Waits(d)' PROVE heap'[call'[d].entry].refreshing
    BY DEF NoLostWaiter, Waits
  <2>1. Waits(d) /\ call'[d].entry = call[d].entry
    OBVIOUS
  <2>2. call[d].entry \in EntryIds /\ heap[call[d].entry].refreshing
    BY <2>1 DEF OwnerInv, TypeInv, Shape, NoLostWaiter, Waits
  <2> QED BY <2>1, <2>2
<1> QED BY <1>1, <1>2 DEF OwnerInv

\* A step that ends the refresh of entry e and releases its waiters.
LEMMA EndRefresh ==
    ASSUME OwnerInv, TypeInv', NEW e \in EntryIds,
           ~heap'[e].refreshing, worker'[e].pc = "none",
           \A d \in Calls : ~Leads(d, e)',
           \A x \in EntryIds \ {e} : heap'[x].refreshing = heap[x].refreshing,
           \A x \in EntryIds \ {e} : worker'[x].pc = worker[x].pc,
           \A d \in Calls, x \in EntryIds \ {e} : Leads(d, x)' <=> Leads(d, x),
           \A d \in Calls : Waits(d)' => /\ Waits(d) /\ call'[d].entry = call[d].entry
                                         /\ call[d].entry # e
    PROVE  OwnerInv'
<1>1. OneOwnerPerRefresh'
  <2> SUFFICES ASSUME NEW x \in EntryIds
               PROVE  /\ heap'[x].refreshing <=>
                            (worker'[x].pc # "none" \/ \E c \in Calls : Leads(c, x)')
                      /\ worker'[x].pc # "none" => \A c \in Calls : ~Leads(c, x)'
                      /\ \A c, d \in Calls : Leads(c, x)' /\ Leads(d, x)' => c = d
    BY Zenon DEF OneOwnerPerRefresh
  <2>1. CASE x = e
    BY <2>1, Zenon
  <2>2. CASE x # e
    BY <2>2, Zenon DEF OwnerInv, OneOwnerPerRefresh
  <2> QED BY <2>1, <2>2
<1>2. NoLostWaiter'
  <2> SUFFICES ASSUME NEW d \in Calls, Waits(d)' PROVE heap'[call'[d].entry].refreshing
    BY DEF NoLostWaiter, Waits
  <2>1. Waits(d) /\ call'[d].entry = call[d].entry /\ call[d].entry # e
    OBVIOUS
  <2>2. call[d].entry \in EntryIds /\ heap[call[d].entry].refreshing
    BY <2>1 DEF OwnerInv, TypeInv, Shape, NoLostWaiter, Waits
  <2> QED BY <2>1, <2>2
<1> QED BY <1>1, <1>2 DEF OwnerInv

\* finishRefresh clears the flag of its entry and of no other.
LEMMA FinishClears ==
    ASSUME TypeInv, NEW e \in EntryIds, NEW key, NEW at, NEW err,
           FinishRefresh(e, key, at, err)
    PROVE  /\ ~heap'[e].refreshing
           /\ \A x \in EntryIds \ {e} : heap'[x] = heap[x]
<1>1. heap = [x \in EntryIds |-> heap[x]] /\ heap[e] \in Entry
  BY DEF TypeInv, TypeOK
<1>2. PICK y : heap' = [heap EXCEPT ![e] = y] /\ ~y.refreshing
  <2>1. ~Refreshed(heap[e], key, at).refreshing
    BY <1>1 DEF Refreshed, Entry
  <2>2. \A delay : ~Failed(heap[e], at, delay).refreshing
    BY <1>1 DEF Failed, Entry
  <2> QED BY <2>1, <2>2, Zenon DEF FinishRefresh
<1> QED BY <1>1, <1>2

\* Every step of the cache keeps one owner per refresh and loses no waiter.
LEMMA NextOwnerInv == OwnerInv /\ [Next]_vars => OwnerInv'
<1> SUFFICES ASSUME OwnerInv, [Next]_vars PROVE OwnerInv'
  OBVIOUS
<1>1. TypeInv /\ TypeInv'
  BY NextTypeInv DEF OwnerInv
<1>2. \A c \in Calls : call[c] \in Call
  BY <1>1 DEF TypeInv, TypeOK
<1>3. ASSUME NEW c \in Calls, NEW x \in Entry, NEW stale \in BOOLEAN, call[c].pc \in {"lookup", "reply"},
             call' = [call EXCEPT ![c] = Answered(c, x, stale)], UNCHANGED <<heap, worker>>
      PROVE  OwnerInv'
  <2>1. Answered(c, x, stale).pc = "done"
    BY <1>1, AnsweredType
  <2> QED BY <1>1, <1>3, <2>1, NeutralCall
<1>4. ASSUME NEW c \in Calls, NEW outcome \in Outcomes, call[c].pc \in {"lookup", "waiting"},
             call' = [call EXCEPT ![c] = Refused(c, outcome)], UNCHANGED <<heap, worker>>
      PROVE  OwnerInv'
  <2>1. Refused(c, outcome).pc = "done"
    BY <1>1, RefusedType
  <2> QED BY <1>1, <1>4, <2>1, NeutralCall
<1>5. ASSUME NEW c \in Calls, CallStep(c) PROVE OwnerInv'
  <2>1. ASSUME NEW k \in Keys, Start(c, k) PROVE OwnerInv'
    <3> DEFINE r == [call[c] EXCEPT !.pc = "lookup", !.key = k, !.t = now]
    <3>1. r.pc = "lookup"
      BY <1>2 DEF Call
    <3>2. /\ call' = [call EXCEPT ![c] = r] /\ UNCHANGED <<heap, worker>> /\ call[c].pc = "idle"
      BY <2>1 DEF Start
    <3> QED BY <1>1, <3>1, <3>2, NeutralCall
  <2>2. CASE FreshHit(c) \/ StaleHit(c)
    <3>1. EnterCache(c) /\ call[c].pc = "lookup" /\ UNCHANGED <<heap, worker>>
      BY <2>2 DEF FreshHit, StaleHit, EnterCache
    <3>2. PICK stale \in BOOLEAN : call' = [call EXCEPT ![c] = Answered(c, Found(c), stale)]
      BY <2>2 DEF FreshHit, StaleHit
    <3> QED BY <1>1, <1>3, <3>1, <3>2, AddressType
  <2>3. CASE StaleHitRefresh(c)
    <3> DEFINE a == Answered(c, Found(c), TRUE)
    <3>1. EnterCache(c) /\ call[c].pc = "lookup" /\ ~Found(c).refreshing
      BY <2>3 DEF StaleHitRefresh, EnterCache
    <3>2. PICK e \in EntryIds : e = Address(c) /\ a.pc = "done"
      BY <1>1, <3>1, AddressType, AnsweredType
    <3>3. worker[e].pc = "none" /\ \A d \in Calls : ~Leads(d, e)
      BY <3>1, <3>2, NoOwnerYet
    <3>4. call' = [call EXCEPT ![c] = a]
      BY <2>3 DEF StaleHitRefresh
    <3>5. \A d \in Calls : /\ d # c => call'[d] = call[d]
                           /\ d = c => call'[d].pc = "done"
      BY <1>1, <3>2, <3>4 DEF TypeInv, TypeOK
    <3>6. /\ heap'[e].refreshing
          /\ \A x \in EntryIds \ {e} : heap'[x] = heap[x]
      BY <1>1, <2>3, <3>2 DEF StaleHitRefresh, TypeInv, TypeOK, Entry
    <3>7. /\ worker'[e].pc = "fetch"
          /\ \A x \in EntryIds \ {e} : worker'[x] = worker[x]
      BY <1>1, <2>3, <3>2 DEF StaleHitRefresh, TypeInv, TypeOK, NoWorker
    <3>8. \A d \in Calls, x \in EntryIds : Leads(d, x)' <=> Leads(d, x)
      BY <3>1, <3>5 DEF Leads
    <3>9. \A d \in Calls : Waits(d)' => Waits(d) /\ call'[d].entry = call[d].entry
      BY <3>5 DEF Waits
    <3> HIDE DEF a
    <3> QED BY <1>1, <3>2, <3>3, <3>6, <3>7, <3>8, <3>9, BeginRefresh
  <2>4. CASE Reject(c)
    BY <1>4, <2>4 DEF Reject, EnterCache, Outcomes
  <2>5. CASE Join(c)
    <3> DEFINE e == Address(c)
               r == [call[c] EXCEPT !.pc = "waiting", !.entry = e, !.woken = FALSE]
    <3>1. EnterCache(c) /\ call[c].pc = "lookup" /\ Found(c).refreshing
      BY <2>5 DEF Join, EnterCache
    <3>2. e \in EntryIds
      BY <1>1, <3>1, AddressType
    <3>3. heap[e].refreshing
      BY <3>1 DEF Found, Address, BlankEntry
    <3>4. call' = [call EXCEPT ![c] = r] /\ UNCHANGED <<heap, worker>>
      BY <2>5 DEF Join
    <3>5. r.pc = "waiting" /\ r.entry = e
      BY <1>2 DEF Call
    <3> HIDE DEF r, e
    <3>6. \A d \in Calls : /\ d # c => call'[d] = call[d]
                           /\ d = c => call'[d].pc = "waiting" /\ call'[d].entry = e
      BY <1>1, <3>4, <3>5 DEF TypeInv, TypeOK
    <3>7. \A d \in Calls, x \in EntryIds : Leads(d, x)' <=> Leads(d, x)
      BY <3>1, <3>6 DEF Leads
    <3>8. OneOwnerPerRefresh'
      <4> SUFFICES ASSUME NEW x \in EntryIds
                   PROVE  /\ heap'[x].refreshing <=>
                                (worker'[x].pc # "none" \/ \E d \in Calls : Leads(d, x)')
                          /\ worker'[x].pc # "none" => \A d \in Calls : ~Leads(d, x)'
                          /\ \A b, d \in Calls : Leads(b, x)' /\ Leads(d, x)' => b = d
        BY Zenon DEF OneOwnerPerRefresh
      <4>1. heap' = heap /\ worker' = worker
        BY <3>4
      <4> QED BY <3>7, <4>1, Zenon DEF OwnerInv, OneOwnerPerRefresh
    <3>9. NoLostWaiter'
      BY <3>3, <3>4, <3>6 DEF OwnerInv, NoLostWaiter
    <3> QED BY <1>1, <3>8, <3>9 DEF OwnerInv
  <2>6. CASE Lead(c)
    <3>1. EnterCache(c) /\ call[c].pc = "lookup" /\ ~Found(c).refreshing
      BY <2>6 DEF Lead, EnterCache
    <3>2. PICK e \in EntryIds : e = Address(c) /\ Found(c) \in Entry
      BY <1>1, <3>1, AddressType
    <3> DEFINE r == [call[c] EXCEPT !.pc = "fetch", !.entry = e]
    <3>3. worker[e].pc = "none" /\ \A d \in Calls : ~Leads(d, e)
      BY <3>1, <3>2, NoOwnerYet
    <3>4. call' = [call EXCEPT ![c] = r] /\ UNCHANGED worker
      BY <2>6, <3>2 DEF Lead
    <3>5. r.pc = "fetch" /\ r.entry = e
      BY <1>2 DEF Call
    <3>6. [Found(c) EXCEPT !.refreshing = TRUE].refreshing
      BY <3>2 DEF Entry
    <3>7. /\ heap'[e].refreshing
          /\ \A x \in EntryIds \ {e} : heap'[x] = heap[x]
      BY <1>1, <2>6, <3>2, <3>6 DEF Lead, TypeInv, TypeOK
    <3> HIDE DEF r
    <3>8. \A d \in Calls : /\ d # c => call'[d] = call[d]
                           /\ d = c => call'[d].pc = "fetch" /\ call'[d].entry = e
      BY <1>1, <3>4, <3>5 DEF TypeInv, TypeOK
    <3>9. \A d \in Calls, x \in EntryIds \ {e} : Leads(d, x)' <=> Leads(d, x)
      BY <3>1, <3>8 DEF Leads
    <3>10. \A d \in Calls : Leads(d, e)' <=> d = c
      BY <3>3, <3>8 DEF Leads
    <3>11. \A d \in Calls : Waits(d)' => Waits(d) /\ call'[d].entry = call[d].entry
      BY <3>8 DEF Waits
    <3> QED BY <1>1, <3>2, <3>3, <3>4, <3>7, <3>9, <3>10, <3>11, BeginRefresh
  <2>7. ASSUME NEW err \in Errors \cup {Ok}, FetchReturns(c, err) PROVE OwnerInv'
    <3> DEFINE r == [call[c] EXCEPT !.pc = "finish", !.err = err, !.at = now]
    <3>1. r.pc = "finish" /\ r.entry = call[c].entry
      BY <1>2 DEF Call
    <3>2. /\ call' = [call EXCEPT ![c] = r] /\ UNCHANGED <<heap, worker>> /\ call[c].pc = "fetch"
      BY <2>7 DEF FetchReturns
    <3> HIDE DEF r
    <3> QED BY <1>1, <3>1, <3>2, NeutralCall
  <2>8. CASE Finish(c)
    <3>1. PICK e \in EntryIds : e = call[c].entry /\ call[c].pc = "finish" /\ Leads(c, e)
      BY <1>1, <2>8 DEF Finish, TypeInv, Shape, Leads
    <3> DEFINE r == [(IF call[c].err = Ok THEN [call[c] EXCEPT !.pc = "reply"]
                      ELSE Refused(c, "unavailable")) EXCEPT !.err = Ok, !.at = 0]
    <3>2. worker[e].pc = "none" /\ \A d \in Calls : Leads(d, e) => d = c
      BY <3>1 DEF OwnerInv, OneOwnerPerRefresh
    <3>3. ~heap'[e].refreshing /\ \A x \in EntryIds \ {e} : heap'[x] = heap[x]
      BY <1>1, <2>8, <3>1, FinishClears DEF Finish
    <3>4. call' = [Released(e) EXCEPT ![c] = r] /\ UNCHANGED worker
      BY <2>8, <3>1 DEF Finish
    <3>5. r.pc \in {"reply", "done"}
      BY <1>2 DEF Refused, Call
    <3> HIDE DEF r
    <3>6. \A d \in Calls : /\ d # c => call'[d] = Released(e)[d]
                           /\ d = c => call'[d].pc \in {"reply", "done"}
      BY <1>1, <3>1, <3>4, <3>5, ReleasedType
    <3>7. \A d \in Calls \ {c} :
             /\ call'[d].pc = call[d].pc /\ call'[d].entry = call[d].entry
             /\ call'[d].woken <=> call[d].woken \/ (call[d].pc = "waiting" /\ call[d].entry = e)
      BY <1>1, <3>1, <3>6, ReleasedType
    <3>8. \A d \in Calls : ~Leads(d, e)'
      BY <3>2, <3>6, <3>7 DEF Leads
    <3>9. \A d \in Calls, x \in EntryIds \ {e} : Leads(d, x)' <=> Leads(d, x)
      BY <3>1, <3>6, <3>7 DEF Leads
    <3>10. \A d \in Calls : Waits(d)' => /\ Waits(d) /\ call'[d].entry = call[d].entry
                                         /\ call[d].entry # e
      BY <3>6, <3>7 DEF Waits
    <3> QED BY <1>1, <3>1, <3>2, <3>3, <3>4, <3>8, <3>9, <3>10, EndRefresh
  <2>9. CASE Reply(c)
    <3>1. call[c].pc = "reply" /\ heap[call[c].entry] \in Entry
      BY <1>1, <2>9 DEF Reply, TypeInv, TypeOK, Shape
    <3> QED BY <1>3, <2>9, <3>1 DEF Reply
  <2>10. CASE Wake(c)
    <3> DEFINE r == [call[c] EXCEPT !.pc = "lookup", !.t = now, !.entry = NoEntry, !.woken = FALSE]
    <3>1. r.pc = "lookup"
      BY <1>2 DEF Call
    <3>2. /\ call' = [call EXCEPT ![c] = r] /\ UNCHANGED <<heap, worker>> /\ call[c].pc = "waiting"
      BY <2>10 DEF Wake
    <3> HIDE DEF r
    <3> QED BY <1>1, <3>1, <3>2, NeutralCall
  <2>11. CASE AbandonWait(c)
    BY <1>4, <2>11 DEF AbandonWait, Outcomes
  <2> QED BY <1>5, <2>1, <2>2, <2>3, <2>4, <2>5, <2>6, <2>7, <2>8, <2>9, <2>10, <2>11
          DEF CallStep, Lookup
<1>6. ASSUME NEW e \in EntryIds, WorkerStep(e) PROVE OwnerInv'
  <2>1. ASSUME NEW err \in Errors \cup {Ok}, WorkerReturns(e, err) PROVE OwnerInv'
    <3>1. \A x \in EntryIds : worker'[x].pc # "none" <=> worker[x].pc # "none"
      BY <1>1, <2>1 DEF WorkerReturns, TypeInv, TypeOK, Worker
    <3>2. heap' = heap /\ call' = call
      BY <2>1 DEF WorkerReturns
    <3> QED BY <1>1, <3>1, <3>2, NeutralStep DEF Leads, Waits
  <2>2. CASE WorkerFinish(e)
    <3>1. worker[e].pc # "none" /\ \A d \in Calls : ~Leads(d, e)
      BY <2>2 DEF WorkerFinish, OwnerInv, OneOwnerPerRefresh
    <3>2. ~heap'[e].refreshing /\ \A x \in EntryIds \ {e} : heap'[x] = heap[x]
      BY <1>1, <2>2, FinishClears DEF WorkerFinish
    <3>3. worker'[e].pc = "none" /\ \A x \in EntryIds \ {e} : worker'[x] = worker[x]
      BY <1>1, <2>2 DEF WorkerFinish, TypeInv, TypeOK, NoWorker
    <3>4. call' = Released(e)
      BY <2>2 DEF WorkerFinish
    <3>5. \A d \in Calls :
             /\ call'[d].pc = call[d].pc /\ call'[d].entry = call[d].entry
             /\ call'[d].woken <=> call[d].woken \/ (call[d].pc = "waiting" /\ call[d].entry = e)
      BY <1>1, <3>4, ReleasedType
    <3>6. \A d \in Calls, x \in EntryIds : Leads(d, x)' <=> Leads(d, x)
      BY <3>5 DEF Leads
    <3>7. \A d \in Calls : Waits(d)' => /\ Waits(d) /\ call'[d].entry = call[d].entry
                                        /\ call[d].entry # e
      BY <3>5 DEF Waits
    <3> QED BY <1>1, <3>1, <3>2, <3>3, <3>6, <3>7, EndRefresh
  <2> QED BY <1>6, <2>1, <2>2 DEF WorkerStep
<1>7. CASE Tick \/ CloseService \/ CloseProvider \/ CloseTimeout \/ Stopped \/ UNCHANGED vars
  <2>1. heap' = heap /\ call' = call /\ worker' = worker
    BY <1>7 DEF Tick, CloseService, CloseProvider, CloseTimeout, Stopped, vars
  <2> QED BY <1>1, <2>1, NeutralStep DEF Leads, Waits
<1> QED BY <1>5, <1>6, <1>7 DEF Next

\* For any number of calls, locations and entries: entry.refreshing is set
\* exactly while one goroutine owes the entry a finishRefresh.
THEOREM RefreshHasOneOwner == Spec => []OneOwnerPerRefresh
<1>1. OwnerInv => OneOwnerPerRefresh
  BY DEF OwnerInv
<1> QED BY <1>1, InitOwnerInv, NextOwnerInv, PTL DEF Spec

\* A Get that waits on entry.wait is released by the owner of the refresh,
\* also when the entry was evicted from the cache in the meantime.
THEOREM WaitersAreReleased == Spec => []NoLostWaiter
<1>1. OwnerInv => NoLostWaiter
  BY DEF OwnerInv
<1> QED BY <1>1, InitOwnerInv, NextOwnerInv, PTL DEF Spec

-----------------------------------------------------------------------------
(* The cache is bounded.                                                   *)

\* Moving a listed location to the front permutes the list.
LEMMA MoveToFrontPermutes ==
    ASSUME lru \in Seq(Locations), NEW l \in Locations, l \in Tracked,
           \A i, j \in 1..Len(lru) : lru[i] = lru[j] => i = j,
           NEW m, m = MoveToFront(l)
    PROVE  /\ Len(m) = Len(lru)
           /\ \A i, j \in 1..Len(lru) : m[i] = m[j] => i = j
           /\ \A i \in 1..Len(lru) : \E j \in 1..Len(lru) : m[j] = lru[i]
<1> DEFINE p == CHOOSE i \in 1..Len(lru) : lru[i] = l
           n == Len(lru)
<1>1. n \in Nat
  OBVIOUS
<1>2. p \in 1..n /\ lru[p] = l
  BY DEF Tracked
<1>3. m = [i \in 1..n |-> IF i = 1 THEN l ELSE IF i <= p THEN lru[i - 1] ELSE lru[i]]
  BY DEF MoveToFront
<1> HIDE DEF p
<1>4. Len(m) = n
  BY <1>1, <1>3
<1>5. ASSUME NEW i \in 1..n
      PROVE  m[i] = lru[IF i = 1 THEN p ELSE IF i <= p THEN i - 1 ELSE i]
  BY <1>1, <1>2, <1>3, <1>5
<1>6. ASSUME NEW i \in 1..n, NEW j \in 1..n, m[i] = m[j]
      PROVE  i = j
  <2> DEFINE a == IF i = 1 THEN p ELSE IF i <= p THEN i - 1 ELSE i
             b == IF j = 1 THEN p ELSE IF j <= p THEN j - 1 ELSE j
  <2>1. a \in 1..n /\ b \in 1..n
    BY <1>1, <1>2
  <2>2. lru[a] = lru[b]
    BY <1>5, <1>6
  <2>3. a = b
    BY <2>1, <2>2
  <2> QED BY <1>1, <1>2, <2>3
<1>7. ASSUME NEW i \in 1..n
      PROVE  \E j \in 1..n : m[j] = lru[i]
  <2>1. CASE i = p
    BY <1>1, <1>2, <1>5, <2>1
  <2>2. CASE i < p
    <3>1. i + 1 \in 1..n /\ i + 1 # 1 /\ i + 1 <= p /\ (i + 1) - 1 = i
      BY <1>1, <1>2, <2>2
    <3> QED BY <1>5, <3>1
  <2>3. CASE i > p
    BY <1>1, <1>2, <1>5, <2>3
  <2> QED BY <1>1, <1>2, <2>1, <2>2, <2>3
<1> QED BY <1>4, <1>6, <1>7

\* touchLocationLocked keeps the list bounded and without duplicates, puts the
\* location on it, and takes only the locations it evicts off it.
LEMMA TouchLocationBounded ==
    ASSUME lru \in Seq(Locations), NEW l \in Locations, Len(lru) <= Maximum,
           \A i, j \in 1..Len(lru) : lru[i] = lru[j] => i = j,
           NEW next, next = TouchLocation(l)
    PROVE  /\ Len(next) <= Maximum
           /\ \A i, j \in 1..Len(next) : next[i] = next[j] => i = j
           /\ \E i \in 1..Len(next) : next[i] = l
           /\ \A x \in Tracked \ EvictedBy(l) : \E i \in 1..Len(next) : next[i] = x
<1> DEFINE n == Len(lru)
<1>1. n \in Nat /\ Maximum \in Nat \ {0}
  BY CacheAssumption DEF CacheAssumption
<1>2. CASE l \in Tracked
  <2>1. next = MoveToFront(l)
    BY <1>2 DEF TouchLocation
  <2>2. next[1] = l /\ 1 \in 1..n
    BY <1>2, <2>1 DEF MoveToFront, Tracked
  <2>3. \A x \in Tracked : \E i \in 1..n : lru[i] = x
    BY DEF Tracked
  <2>4. Len(next) = n /\ \A i, j \in 1..n : next[i] = next[j] => i = j
    BY <1>2, <2>1, MoveToFrontPermutes, SMTT(30)
  <2>5. ASSUME NEW x \in Tracked PROVE \E i \in 1..n : next[i] = x
    <3>1. PICK i \in 1..n : lru[i] = x
      BY <2>3
    <3>2. \E j \in 1..n : next[j] = lru[i]
      BY <1>2, <2>1, MoveToFrontPermutes
    <3> QED BY <3>1, <3>2
  <2> QED BY <2>2, <2>4, <2>5
<1>3. CASE l \notin Tracked
  <2> DEFINE q == PushFront(l)
  <2>1. q = [i \in 1..(n + 1) |-> IF i = 1 THEN l ELSE lru[i - 1]]
    BY DEF PushFront
  <2>2. q \in Seq(Locations) /\ Len(q) = n + 1
    BY <1>1, <2>1
  <2> HIDE DEF q
  <2>3. ASSUME NEW i \in 1..(n + 1), NEW j \in 1..(n + 1), q[i] = q[j]
        PROVE  i = j
    <3>1. \A h \in 1..n : lru[h] # l
      BY <1>3 DEF Tracked
    <3>2. CASE i = 1 \/ j = 1
      BY <1>1, <2>1, <2>3, <3>1, <3>2
    <3>3. CASE i # 1 /\ j # 1
      <4>1. i - 1 \in 1..n /\ j - 1 \in 1..n /\ lru[i - 1] = lru[j - 1]
        BY <1>1, <2>1, <2>3, <3>3
      <4>2. i - 1 = j - 1
        BY <4>1
      <4> QED BY <4>2
    <3> QED BY <3>2, <3>3
  <2>4. ASSUME NEW i \in 1..n PROVE i + 1 \in 1..(n + 1) /\ q[i + 1] = lru[i]
    BY <1>1, <2>1, <2>4
  <2>5. CASE n + 1 > Maximum
    <3>1. next = SubSeq(q, 1, Maximum)
      BY <1>3, <2>5 DEF TouchLocation, q
    <3>2. Len(next) = Maximum /\ \A i \in 1..Maximum : next[i] = q[i]
      BY <1>1, <2>2, <2>5, <3>1
    <3>3. next[1] = l /\ 1 \in 1..Maximum
      <4>1. 1 \in 1..Maximum /\ 1 \in 1..(n + 1)
        BY <1>1
      <4>2. q[1] = l
        BY <2>1, <4>1
      <4> QED BY <3>2, <4>1, <4>2
    <3>4. ASSUME NEW x \in Tracked \ EvictedBy(l)
          PROVE  \E i \in 1..Maximum : next[i] = x
      <4>1. PICK i \in 1..n : lru[i] = x
        BY DEF Tracked
      <4>2. i + 1 \in 1..(n + 1) /\ q[i + 1] = x
        BY <2>4, <4>1
      <4>3. i + 1 \notin (Maximum + 1)..(n + 1)
        BY <1>3, <4>2 DEF EvictedBy, q
      <4>4. i + 1 \in 1..Maximum
        BY <1>1, <4>2, <4>3
      <4> QED BY <3>2, <4>2, <4>4
    <3>5. \A i, j \in 1..Maximum : next[i] = next[j] => i = j
      <4> TAKE i, j \in 1..Maximum
      <4>1. i \in 1..(n + 1) /\ j \in 1..(n + 1)
        BY <1>1, <2>5
      <4> QED BY <2>3, <3>2, <4>1
    <3> QED BY <1>1, <3>2, <3>3, <3>4, <3>5
  <2>6. CASE ~(n + 1 > Maximum)
    <3>1. next = q
      BY <1>3, <2>6 DEF TouchLocation, q
    <3>2. q[1] = l /\ 1 \in 1..(n + 1)
      BY <1>1, <2>1
    <3>3. \A x \in Tracked : \E i \in 1..n : lru[i] = x
      BY DEF Tracked
    <3>4. \A x \in Tracked : \E i \in 1..(n + 1) : q[i] = x
      BY <2>4, <3>3
    <3> QED BY <1>1, <2>2, <2>3, <2>6, <3>1, <3>2, <3>4
  <2> QED BY <2>5, <2>6
<1> QED BY <1>2, <1>3

\* A lookup touches the list and keeps the map within it.
LEMMA EnterCacheTracked ==
    ASSUME TypeInv, EntriesTracked, NEW c \in Calls, EnterCache(c)
    PROVE  EntriesTracked'
<1>1. PICK k \in Keys : k = call[c].key
  BY AddressType
<1>2. PICK a \in EntryIds : a = Address(c)
  BY AddressType
<1> DEFINE l == k.location
<1>3. lru \in Seq(Locations) /\ l \in Locations /\ lru' = TouchLocation(l)
  BY <1>1 DEF TypeInv, TypeOK, Keys, EnterCache
<1>4. /\ Len(lru') <= Maximum
      /\ \A i, j \in 1..Len(lru') : lru'[i] = lru'[j] => i = j
      /\ \E i \in 1..Len(lru') : lru'[i] = l
      /\ \A x \in Tracked \ EvictedBy(l) : \E i \in 1..Len(lru') : lru'[i] = x
  BY <1>3, TouchLocationBounded, SMTT(30) DEF EntriesTracked
<1>5. \A x \in Keys : entries'[x] = IF x = k THEN a
                                    ELSE IF x.location \in EvictedBy(l) THEN NoEntry ELSE entries[x]
  BY <1>1, <1>2 DEF EnterCache
<1>6. \A x \in Keys \ {k} : entries[x] # a
  <2>1. CASE entries[k] = NoEntry
    BY <1>1, <1>2, <2>1 DEF EnterCache, Address, Unused, InUse
  <2>2. CASE entries[k] # NoEntry
    BY <1>1, <1>2, <2>2 DEF Address, EntriesTracked
  <2> QED BY <2>1, <2>2
<1>7. ASSUME NEW x \in Keys, entries'[x] # NoEntry
      PROVE  /\ \E i \in 1..Len(lru') : lru'[i] = x.location
             /\ \A y \in Keys : entries'[y] = entries'[x] => y = x
  <2>1. CASE x = k
    BY <1>4, <1>5, <1>6, <1>7, <2>1, CacheAssumption DEF CacheAssumption
  <2>2. CASE x # k
    <3>1. /\ entries'[x] = entries[x] /\ entries[x] # NoEntry
          /\ x.location \in Tracked \ EvictedBy(l)
      BY <1>5, <1>7, <2>2 DEF EntriesTracked
    <3>2. \A y \in Keys : entries'[y] = entries[x] => y = x
      BY <1>5, <1>6, <2>2, <3>1 DEF EntriesTracked
    <3> QED BY <1>4, <3>1, <3>2
  <2> QED BY <2>1, <2>2
<1>8. Tracked' = {lru'[i] : i \in 1..Len(lru')}
  BY DEF Tracked
<1> QED BY <1>4, <1>7, <1>8 DEF EntriesTracked

\* Every step keeps the cache bounded.
LEMMA NextEntriesTracked == TypeInv /\ EntriesTracked /\ [Next]_vars => EntriesTracked'
<1> SUFFICES ASSUME TypeInv, EntriesTracked, [Next]_vars PROVE EntriesTracked'
  OBVIOUS
<1>1. CASE \E c \in Calls : EnterCache(c)
  BY <1>1, EnterCacheTracked
<1>2. CASE UNCHANGED <<lru, entries>>
  BY <1>2 DEF EntriesTracked, Tracked
<1>3. ASSUME NEW c \in Calls, Lookup(c) PROVE EnterCache(c)
  BY <1>3 DEF Lookup, FreshHit, StaleHit, StaleHitRefresh, Reject, Join, Lead
<1>4. ASSUME NEW c \in Calls, CallStep(c), ~Lookup(c) PROVE UNCHANGED <<lru, entries>>
  BY <1>4 DEF CallStep, Start, FetchReturns, Finish, Reply, Wake, AbandonWait
<1>5. ASSUME NEW e \in EntryIds, WorkerStep(e) PROVE UNCHANGED <<lru, entries>>
  BY <1>5 DEF WorkerStep, WorkerReturns, WorkerFinish
<1>6. CASE Tick \/ CloseService \/ CloseProvider \/ CloseTimeout \/ Stopped \/ UNCHANGED vars
  BY <1>2, <1>6 DEF Tick, CloseService, CloseProvider, CloseTimeout, Stopped, vars
<1> QED BY <1>1, <1>2, <1>3, <1>4, <1>5, <1>6 DEF Next

\* The list of locations has no duplicates and at most Maximum elements, the
\* entries of an evicted location leave the map with it, and two keys never
\* share an entry.
THEOREM CacheStaysBounded == Spec => []EntriesTracked
<1>1. Init => EntriesTracked
  BY CacheAssumption DEF CacheAssumption, Init, EntriesTracked
<1>2. TypeInv /\ EntriesTracked /\ [Next]_vars => (TypeInv /\ EntriesTracked)'
  BY NextTypeInv, NextEntriesTracked
<1> QED BY <1>1, <1>2, InitTypeInv, PTL DEF Spec

-----------------------------------------------------------------------------
(* What the cache answers.                                                 *)

\* Entry e belongs to key k: the map leads from k to e, or a call for k holds
\* e, or the worker of e fetches for k.
Uses(e, k) ==
    \/ entries[k] = e
    \/ \E c \in Calls : Holds(c, e) /\ call[c].key = k
    \/ worker[e].pc # "none" /\ worker[e].key = k

\* An entry belongs to one key, also after it was evicted, and its value was
\* fetched for that key.
KeyInv ==
    \A e \in EntryIds, k \in Keys : Uses(e, k) =>
        /\ \A x \in Keys : Uses(e, x) => x = k
        /\ heap[e].hasValue => heap[e].result = k

\* The deadlines of a value were computed from the time it was fetched, by
\* the policy of its kind.
ValueTimes(e) ==
    /\ heap[e].fetchedAt <= now
    /\ heap[e].hasValue =>
          /\ heap[e].result \in Keys
          /\ heap[e].validUntil = heap[e].fetchedAt + FreshFor[heap[e].result.kind]
          /\ heap[e].staleUntil = heap[e].fetchedAt + StaleFor[heap[e].result.kind]

\* A fetch that a call has finished was finished after the call began and after
\* the value the entry still has; a call about to reply finds its own value or
\* a later one.
CallTimes(c) ==
    /\ call[c].t <= now
    /\ call[c].pc = "finish" =>
          /\ call[c].t <= call[c].at /\ call[c].at <= now
          /\ heap[call[c].entry].fetchedAt <= call[c].at
    /\ call[c].pc = "reply" =>
          /\ heap[call[c].entry].hasValue
          /\ call[c].t <= heap[call[c].entry].fetchedAt

\* The same of the fetch of a worker.
WorkerTimes(e) ==
    worker[e].pc = "finish" => worker[e].at <= now /\ heap[e].fetchedAt <= worker[e].at

TimeInv ==
    /\ \A e \in EntryIds : ValueTimes(e) /\ WorkerTimes(e)
    /\ \A c \in Calls : CallTimes(c)

\* Only a call that has returned carries an answer.
ReplyInv == (\A c \in Calls : call[c].out = "data" => call[c].pc = "done") /\ ReplyForKey /\ ReplyAge

AnswerInv == OwnerInv /\ EntriesTracked /\ KeyInv /\ TimeInv /\ ReplyInv

(* A step, seen from each call, entry, worker and key.                     *)

\* At most the flag woken of the call changes.
SameCall(c) ==
    /\ call'[c].pc = call[c].pc /\ call'[c].key = call[c].key
    /\ call'[c].t = call[c].t /\ call'[c].entry = call[c].entry
    /\ call'[c].at = call[c].at /\ call'[c].out = call[c].out
    /\ call'[c].stale = call[c].stale /\ call'[c].data = call[c].data
    /\ call'[c].fetchedAt = call[c].fetchedAt

\* The call goes on with the same key and clock reading.
GoesOn(c) == call'[c].key = call[c].key /\ call'[c].t = call[c].t /\ call'[c].out = call[c].out

AnswersFrom(c, x, stale) ==
    /\ call'[c].pc = "done" /\ call'[c].key = call[c].key /\ call'[c].t = call[c].t
    /\ call'[c].stale = stale /\ call'[c].data = x.result /\ call'[c].fetchedAt = x.fetchedAt

Begins(c) ==
    /\ call[c].pc \in {"idle", "waiting"} /\ call'[c].pc = "lookup"
    /\ call'[c].t = now /\ call'[c].out = call[c].out

Hits(c) ==
    LET e == entries[call[c].key]
    IN  /\ call[c].pc = "lookup" /\ e # NoEntry /\ heap[e].hasValue
        /\ \/ AnswersFrom(c, heap[e], FALSE) /\ call[c].t < heap[e].validUntil
           \/ /\ AnswersFrom(c, heap[e], TRUE)
              /\ ~(call[c].t < heap[e].validUntil) /\ call[c].t < heap[e].staleUntil

Fails(c) == call'[c].pc = "done" /\ call'[c].t = call[c].t /\ call'[c].out # "data"

Takes(c) ==
    /\ call[c].pc = "lookup" /\ call'[c].pc \in {"waiting", "fetch"} /\ GoesOn(c)
    /\ call'[c].entry = entries'[call[c].key]

Fetches(c) ==
    /\ call[c].pc = "fetch" /\ call'[c].pc = "finish" /\ GoesOn(c)
    /\ call'[c].entry = call[c].entry /\ call'[c].at = now /\ heap' = heap

Stores(c) ==
    /\ call[c].pc = "finish" /\ call'[c].pc = "reply" /\ GoesOn(c)
    /\ call'[c].entry = call[c].entry
    /\ heap'[call[c].entry] = Refreshed(heap[call[c].entry], call[c].key, call[c].at)

Replies(c) == call[c].pc = "reply" /\ AnswersFrom(c, heap[call[c].entry], FALSE)

CallMove(c) ==
    \/ SameCall(c) \/ Begins(c) \/ Hits(c) \/ Fails(c) \/ Takes(c)
    \/ Fetches(c) \/ Stores(c) \/ Replies(c)

\* The value of the entry and its deadlines stay.
SameValue(e) ==
    /\ heap'[e].hasValue = heap[e].hasValue /\ heap'[e].result = heap[e].result
    /\ heap'[e].fetchedAt = heap[e].fetchedAt
    /\ heap'[e].validUntil = heap[e].validUntil /\ heap'[e].staleUntil = heap[e].staleUntil

\* An unused address gets a new entry, which has no value.
NewEntry(e) == e \in Unused /\ ~heap'[e].hasValue /\ heap'[e].fetchedAt = 0

WorkerStores(e) ==
    /\ worker[e].pc = "finish" /\ worker'[e].pc = "none"
    /\ heap'[e] = Refreshed(heap[e], worker[e].key, worker[e].at)

HeapMove(e) ==
    \/ SameValue(e) \/ NewEntry(e) \/ WorkerStores(e)
    \/ \E c \in Calls : call[c].entry = e /\ Stores(c)

WorkerMove(e) ==
    \/ worker'[e] = worker[e]
    \/ worker'[e].pc = "none"
    \/ worker'[e].pc = "fetch" /\ entries[worker'[e].key] = e
    \/ /\ worker[e].pc = "fetch" /\ worker'[e].pc = "finish" /\ worker'[e].key = worker[e].key
       /\ worker'[e].at = now /\ heap' = heap

KeyMove(k) ==
    \/ entries'[k] = entries[k]
    \/ entries'[k] = NoEntry
    \/ entries'[k] \in Unused /\ ~heap'[entries'[k]].hasValue

Moves ==
    /\ now \in Nat /\ now' \in Nat /\ now <= now'
    /\ \A c \in Calls : CallMove(c)
    /\ \A e \in EntryIds : HeapMove(e) /\ WorkerMove(e)
    /\ \A k \in Keys : KeyMove(k)

\* What Get's return leaves in the call.
LEMMA AnsweredFields ==
    ASSUME TypeInv, NEW c \in Calls, NEW x, NEW stale, call'[c] = Answered(c, x, stale)
    PROVE  AnswersFrom(c, x, stale)
<1> DEFINE r == call[c]
           data == x.result
           fetched == x.fetchedAt
<1>1. r \in Call
  BY DEF TypeInv, TypeOK
<1> HIDE DEF r, data, fetched
<1>2. call'[c] = [r EXCEPT !.pc = "done", !.entry = NoEntry, !.out = "data",
                           !.stale = stale, !.data = data, !.fetchedAt = fetched]
  BY DEF Answered, r, data, fetched
<1> QED BY <1>1, <1>2 DEF AnswersFrom, Call, r, data, fetched

\* What finishRefresh leaves in the entry.
LEMMA RefreshedFields ==
    ASSUME NEW x \in Entry, NEW k \in Keys, NEW at \in Nat
    PROVE  LET y == Refreshed(x, k, at)
           IN  /\ y.hasValue /\ y.result = k /\ y.fetchedAt = at
               /\ y.validUntil = at + FreshFor[k.kind] /\ y.staleUntil = at + StaleFor[k.kind]
<1> DEFINE valid == at + FreshFor[k.kind]
           until == at + StaleFor[k.kind]
           y == Refreshed(x, k, at)
<1>1. y = [x EXCEPT !.result = k, !.hasValue = TRUE, !.fetchedAt = at, !.validUntil = valid,
                    !.staleUntil = until, !.retryAfter = 0, !.failures = 0,
                    !.refreshing = FALSE]
  BY DEF Refreshed
<1> HIDE DEF valid, until, y
<1>2. /\ y.hasValue /\ y.result = k /\ y.fetchedAt = at
      /\ y.validUntil = valid /\ y.staleUntil = until
  BY <1>1 DEF Entry
<1> QED BY <1>2 DEF valid, until, y

\* A failure keeps the value.
LEMMA FailedFields ==
    ASSUME NEW x \in Entry, NEW at, NEW delay, NEW y, y = Failed(x, at, delay)
    PROVE  /\ y.hasValue = x.hasValue /\ y.result = x.result /\ y.fetchedAt = x.fetchedAt
           /\ y.validUntil = x.validUntil /\ y.staleUntil = x.staleUntil
BY DEF Failed, Entry

\* finishRefresh leaves the value of its entry or stores the new one.
LEMMA FinishMoves ==
    ASSUME TypeInv, NEW e \in EntryIds, NEW key \in Keys, NEW at \in Nat,
           NEW err \in Errors \cup {Ok}, FinishRefresh(e, key, at, err)
    PROVE  /\ IF err = Ok THEN heap'[e] = Refreshed(heap[e], key, at) ELSE SameValue(e)
           /\ \A x \in EntryIds \ {e} : SameValue(x)
<1>1. heap = [x \in EntryIds |-> heap[x]] /\ heap[e] \in Entry
  BY DEF TypeInv, TypeOK
<1>2. \A x \in EntryIds \ {e} : SameValue(x)
  BY FinishClears DEF SameValue
<1>3. CASE err = Ok
  BY <1>1, <1>2, <1>3 DEF FinishRefresh
<1>4. CASE err # Ok
  <2>1. PICK delay : heap' = [heap EXCEPT ![e] = Failed(heap[e], at, delay)]
    BY <1>4 DEF FinishRefresh
  <2>2. heap'[e] = Failed(heap[e], at, delay)
    BY <1>1, <2>1
  <2>3. SameValue(e)
    BY <1>1, <2>2, FailedFields DEF SameValue
  <2> QED BY <1>2, <1>4, <2>3
<1> QED BY <1>3, <1>4

\* Releasing the waiters of an entry changes nothing else.
LEMMA ReleasedSame ==
    ASSUME TypeInv, NEW e \in EntryIds, NEW c \in Calls, call'[c] = Released(e)[c]
    PROVE  SameCall(c)
<1> DEFINE r == call[c]
           q == call'[c]
<1>1. r \in Call
  BY DEF TypeInv, TypeOK
<1>2. q = r \/ q = [r EXCEPT !.woken = TRUE]
  BY DEF Released
<1> HIDE DEF r, q
<1>3. /\ q.pc = r.pc /\ q.key = r.key /\ q.t = r.t /\ q.entry = r.entry /\ q.at = r.at
      /\ q.out = r.out /\ q.stale = r.stale /\ q.data = r.data /\ q.fetchedAt = r.fetchedAt
  BY <1>1, <1>2 DEF Call
<1> QED BY <1>3 DEF SameCall, r, q

\* A lookup evicts, and installs an entry only at an unused address.
LEMMA EnterCacheKeys ==
    ASSUME TypeInv, NEW c \in Calls, EnterCache(c)
    PROVE  /\ entries'[call[c].key] = Address(c)
           /\ entries[call[c].key] = NoEntry => Address(c) \in Unused
           /\ entries[call[c].key] # NoEntry =>
                 Address(c) = entries[call[c].key] /\ Found(c) = heap[Address(c)]
           /\ \A x \in Keys \ {call[c].key} : entries'[x] \in {entries[x], NoEntry}
<1>1. PICK k \in Keys : k = call[c].key
  BY AddressType
<1>2. \A x \in Keys : entries'[x] = IF x = k THEN Address(c)
                                    ELSE IF x.location \in EvictedBy(k.location) THEN NoEntry
                                    ELSE entries[x]
  BY <1>1 DEF EnterCache
<1>3. entries[k] = NoEntry => Address(c) \in Unused
  BY <1>1 DEF EnterCache, Address, Unused
<1>4. entries[k] # NoEntry => Address(c) = entries[k] /\ Found(c) = heap[Address(c)]
  BY <1>1 DEF Address, Found
<1> QED BY <1>1, <1>2, <1>3, <1>4

\* A new entry has nothing to answer from and no reason to refuse.
LEMMA NothingFound ==
    ASSUME TypeInv, NEW c \in Calls, entries[call[c].key] = NoEntry
    PROVE  ~Found(c).hasValue /\ ~Found(c).refreshing /\ ~InCooldown(c) /\ Found(c).fetchedAt = 0
<1>1. Found(c) = BlankEntry
  BY DEF Found
<1>2. call[c].t \in Nat
  BY DEF TypeInv, TypeOK, Call
<1> QED BY <1>1, <1>2 DEF BlankEntry, InCooldown

\* A step that changes one call and neither the map, the heap nor the workers.
LEMMA QuietMoves ==
    ASSUME TypeInv, NEW c \in Calls, CallMove(c), \A d \in Calls \ {c} : call'[d] = call[d],
           UNCHANGED <<now, entries, heap, worker>>
    PROVE  Moves
<1>1. now \in Nat /\ now' = now
  BY DEF TypeInv, TypeOK
<1>2. \A d \in Calls : CallMove(d)
  BY DEF CallMove, SameCall
<1>3. \A e \in EntryIds : HeapMove(e) /\ WorkerMove(e)
  BY DEF HeapMove, SameValue, WorkerMove
<1>4. \A k \in Keys : KeyMove(k)
  BY DEF KeyMove
<1> QED BY <1>1, <1>2, <1>3, <1>4 DEF Moves

\* A lookup that finds an entry in the map.
LEMMA FoundMoves ==
    ASSUME TypeInv, NEW c \in Calls, EnterCache(c), entries[call[c].key] # NoEntry,
           CallMove(c), \A d \in Calls \ {c} : call'[d] = call[d],
           now' = now, \A e \in EntryIds : SameValue(e) /\ WorkerMove(e)
    PROVE  Moves
<1>1. now \in Nat /\ now' = now
  BY DEF TypeInv, TypeOK
<1>2. \A d \in Calls : CallMove(d)
  BY DEF CallMove, SameCall
<1>3. \A e \in EntryIds : HeapMove(e) /\ WorkerMove(e)
  BY DEF HeapMove
<1>4. \A k \in Keys : KeyMove(k)
  BY EnterCacheKeys DEF KeyMove
<1> QED BY <1>1, <1>2, <1>3, <1>4 DEF Moves

\* Every step moves each call, entry, worker and key in one of these ways.
LEMMA NextMoves == TypeInv /\ [Next]_vars => Moves
<1> SUFFICES ASSUME TypeInv, [Next]_vars PROVE Moves
  OBVIOUS
<1>1. /\ now \in Nat /\ \A c \in Calls : call[c] \in Call
      /\ call = [c \in Calls |-> call[c]] /\ heap = [e \in EntryIds |-> heap[e]]
      /\ worker = [e \in EntryIds |-> worker[e]]
      /\ \A e \in EntryIds : heap[e] \in Entry /\ worker[e] \in Worker
  BY DEF TypeInv, TypeOK
<1>2. ASSUME NEW c \in Calls, NEW r, call' = [call EXCEPT ![c] = r]
      PROVE  call'[c] = r /\ \A d \in Calls \ {c} : call'[d] = call[d]
  BY <1>1, <1>2
<1>3. UNCHANGED heap => \A e \in EntryIds : SameValue(e)
  BY DEF SameValue
<1>4. UNCHANGED worker => \A e \in EntryIds : WorkerMove(e)
  BY DEF WorkerMove
<1>5. ASSUME NEW c \in Calls, CallStep(c) PROVE Moves
  <2>1. ASSUME NEW k \in Keys, Start(c, k) PROVE Moves
    <3>1. /\ call'[c] = [call[c] EXCEPT !.pc = "lookup", !.key = k, !.t = now]
          /\ \A d \in Calls \ {c} : call'[d] = call[d]
      BY <1>2, <2>1 DEF Start
    <3>2. Begins(c)
      BY <1>1, <2>1, <3>1 DEF Start, Begins, Call
    <3> QED BY <2>1, <3>1, <3>2, QuietMoves DEF Start, CallMove
  <2>2. ASSUME EnterCache(c), NEW stale \in BOOLEAN, Found(c).hasValue,
               call' = [call EXCEPT ![c] = Answered(c, Found(c), stale)],
               now' = now, \A e \in EntryIds : SameValue(e) /\ WorkerMove(e),
               stale => IsStale(c), ~stale => IsFresh(c)
        PROVE  Moves
    <3>1. call'[c] = Answered(c, Found(c), stale) /\ \A d \in Calls \ {c} : call'[d] = call[d]
      BY <1>2, <2>2
    <3>2. entries[call[c].key] # NoEntry
      BY <2>2, NothingFound
    <3>3. PICK e : e = entries[call[c].key] /\ Found(c) = heap[e]
      BY <2>2, <3>2, EnterCacheKeys
    <3>4. AnswersFrom(c, heap[e], stale)
      BY <3>1, <3>3, AnsweredFields
    <3>5. CASE stale = TRUE
      <4>1. ~(call[c].t < heap[e].validUntil) /\ call[c].t < heap[e].staleUntil
        BY <2>2, <3>3, <3>5 DEF IsStale, IsFresh
      <4>2. Hits(c)
        BY <2>2, <3>2, <3>3, <3>4, <3>5, <4>1 DEF Hits, EnterCache
      <4> QED BY <2>2, <3>1, <3>2, <4>2, FoundMoves DEF CallMove
    <3>6. CASE stale = FALSE
      <4>1. call[c].t < heap[e].validUntil
        BY <2>2, <3>3, <3>6 DEF IsFresh
      <4>2. Hits(c)
        BY <2>2, <3>2, <3>3, <3>4, <3>6, <4>1 DEF Hits, EnterCache
      <4> QED BY <2>2, <3>1, <3>2, <4>2, FoundMoves DEF CallMove
    <3> QED BY <2>2, <3>5, <3>6
  <2>3. CASE FreshHit(c)
    BY <1>3, <1>4, <2>2, <2>3 DEF FreshHit, IsFresh
  <2>4. CASE StaleHit(c)
    BY <1>3, <1>4, <2>2, <2>4 DEF StaleHit, IsStale
  <2>5. CASE StaleHitRefresh(c)
    <3> USE <2>5 DEF StaleHitRefresh
    <3>1. PICK a \in EntryIds : a = Address(c) /\ call[c].key \in Keys
      BY AddressType
    <3>2. entries[call[c].key] = a
      BY <3>1, NothingFound, EnterCacheKeys DEF IsStale
    <3>3. \A e \in EntryIds : SameValue(e)
      BY <1>1, <3>1 DEF SameValue, Entry
    <3>4. /\ worker'[a] = [NoWorker EXCEPT !.pc = "fetch", !.key = call[c].key]
          /\ \A e \in EntryIds \ {a} : worker'[e] = worker[e]
      BY <1>1, <3>1
    <3>5. worker'[a].pc = "fetch" /\ worker'[a].key = call[c].key
      <4>1. ASSUME NEW k PROVE /\ [NoWorker EXCEPT !.pc = "fetch", !.key = k].pc = "fetch"
                               /\ [NoWorker EXCEPT !.pc = "fetch", !.key = k].key = k
        BY Zenon DEF NoWorker
      <4> QED BY <3>4, <4>1, ZenonT(30)
    <3>6. \A e \in EntryIds : WorkerMove(e)
      BY <3>2, <3>4, <3>5 DEF WorkerMove
    <3> QED BY <2>2, <3>3, <3>6 DEF IsStale
  <2>6. CASE Reject(c)
    <3>1. call'[c] = Refused(c, "unavailable") /\ \A d \in Calls \ {c} : call'[d] = call[d]
      BY <1>2, <2>6 DEF Reject
    <3>2. Fails(c)
      BY <1>1, <3>1 DEF Refused, Fails, Call
    <3>3. entries[call[c].key] # NoEntry
      BY <2>6, NothingFound DEF Reject
    <3> QED BY <1>3, <1>4, <2>6, <3>1, <3>2, <3>3, FoundMoves DEF Reject, CallMove
  <2>7. CASE Join(c)
    <3>1. PICK a : a = Address(c)
      OBVIOUS
    <3>2. /\ call'[c] = [call[c] EXCEPT !.pc = "waiting", !.entry = a, !.woken = FALSE]
          /\ \A d \in Calls \ {c} : call'[d] = call[d]
      BY <1>2, <2>7, <3>1 DEF Join
    <3>3. entries[call[c].key] # NoEntry
      BY <2>7, NothingFound DEF Join
    <3>4. entries'[call[c].key] = a /\ call[c].pc = "lookup"
      BY <2>7, <3>1, EnterCacheKeys DEF Join, EnterCache
    <3>5. Takes(c)
      BY <1>1, <3>2, <3>4 DEF Takes, GoesOn, Call
    <3> QED BY <1>3, <1>4, <2>7, <3>2, <3>3, <3>5, FoundMoves DEF Join, CallMove
  <2>8. CASE Lead(c)
    <3>1. PICK a \in EntryIds : a = Address(c) /\ Found(c) \in Entry /\ call[c].key \in Keys
      BY <2>8, AddressType DEF Lead
    <3>2. /\ call'[c] = [call[c] EXCEPT !.pc = "fetch", !.entry = a]
          /\ \A d \in Calls \ {c} : call'[d] = call[d]
      BY <1>2, <2>8, <3>1 DEF Lead
    <3>3. entries'[call[c].key] = a /\ call[c].pc = "lookup"
      BY <2>8, <3>1, EnterCacheKeys DEF Lead, EnterCache
    <3>4. Takes(c)
      BY <1>1, <3>2, <3>3 DEF Takes, GoesOn, Call
    <3>5. /\ heap'[a] = [Found(c) EXCEPT !.refreshing = TRUE]
          /\ \A e \in EntryIds \ {a} : heap'[e] = heap[e]
      BY <1>1, <2>8, <3>1 DEF Lead
    <3>6. /\ heap'[a].hasValue = Found(c).hasValue /\ heap'[a].result = Found(c).result
          /\ heap'[a].fetchedAt = Found(c).fetchedAt
          /\ heap'[a].validUntil = Found(c).validUntil /\ heap'[a].staleUntil = Found(c).staleUntil
      BY <3>1, <3>5 DEF Entry
    <3>7. \A e \in EntryIds \ {a} : SameValue(e)
      BY <3>5 DEF SameValue
    <3>8. CASE entries[call[c].key] # NoEntry
      <4>1. Found(c) = heap[a]
        BY <2>8, <3>1, <3>8, EnterCacheKeys DEF Lead
      <4>2. SameValue(a)
        BY <3>6, <4>1 DEF SameValue
      <4> QED BY <1>4, <2>8, <3>2, <3>4, <3>7, <3>8, <4>2, FoundMoves DEF Lead, CallMove
    <3>9. CASE entries[call[c].key] = NoEntry
      <4>1. a \in Unused /\ \A x \in Keys \ {call[c].key} : entries'[x] \in {entries[x], NoEntry}
        BY <2>8, <3>1, <3>9, EnterCacheKeys DEF Lead
      <4>2. ~heap'[a].hasValue /\ heap'[a].fetchedAt = 0
        BY <3>6, <3>9, NothingFound
      <4>3. \A e \in EntryIds : HeapMove(e)
        BY <3>7, <4>1, <4>2 DEF HeapMove, NewEntry
      <4>4. \A k \in Keys : KeyMove(k)
        BY <3>3, <4>1, <4>2 DEF KeyMove
      <4>5. \A d \in Calls : CallMove(d)
        BY <3>2, <3>4 DEF CallMove, SameCall
      <4>6. now' = now /\ \A e \in EntryIds : WorkerMove(e)
        BY <1>4, <2>8 DEF Lead
      <4> QED BY <1>1, <4>3, <4>4, <4>5, <4>6 DEF Moves
    <3> QED BY <3>8, <3>9
  <2>9. ASSUME NEW err \in Errors \cup {Ok}, FetchReturns(c, err) PROVE Moves
    <3>1. /\ call'[c] = [call[c] EXCEPT !.pc = "finish", !.err = err, !.at = now]
          /\ \A d \in Calls \ {c} : call'[d] = call[d]
      BY <1>2, <2>9 DEF FetchReturns
    <3>2. Fetches(c)
      BY <1>1, <2>9, <3>1, ZenonT(60) DEF FetchReturns, Fetches, GoesOn, Call
    <3> QED BY <2>9, <3>1, <3>2, QuietMoves DEF FetchReturns, CallMove
  <2>10. CASE Finish(c)
    <3>1. PICK e \in EntryIds : e = call[c].entry /\ call[c].pc = "finish"
      BY <2>10 DEF Finish, TypeInv, Shape
    <3>2. call[c].key \in Keys /\ call[c].at \in Nat /\ call[c].err \in Errors \cup {Ok}
      BY <1>1, <3>1 DEF TypeInv, Shape, Call
    <3>3. /\ IF call[c].err = Ok THEN heap'[e] = Refreshed(heap[e], call[c].key, call[c].at)
             ELSE SameValue(e)
          /\ \A x \in EntryIds \ {e} : SameValue(x)
      BY <2>10, <3>1, <3>2, FinishMoves DEF Finish
    <3>4. /\ call'[c] = [(IF call[c].err = Ok THEN [call[c] EXCEPT !.pc = "reply"]
                          ELSE Refused(c, "unavailable")) EXCEPT !.err = Ok, !.at = 0]
          /\ \A d \in Calls \ {c} : call'[d] = Released(e)[d]
      BY <2>10, <3>1 DEF Finish, Released
    <3>5. \A d \in Calls \ {c} : SameCall(d)
      BY <1>1, <3>1, <3>4, ReleasedSame
    <3>6. CallMove(c) /\ HeapMove(e)
      <4>1. CASE call[c].err = Ok
        <5>1. call'[c] = [[call[c] EXCEPT !.pc = "reply"] EXCEPT !.err = Ok, !.at = 0]
          BY <3>4, <4>1
        <5>2. Stores(c)
          BY <1>1, <3>1, <3>3, <4>1, <5>1 DEF Stores, GoesOn, Call
        <5> QED BY <3>1, <5>2 DEF CallMove, HeapMove
      <4>2. CASE call[c].err # Ok
        <5>1. call'[c] = [Refused(c, "unavailable") EXCEPT !.err = Ok, !.at = 0]
          BY <3>4, <4>2
        <5>2. Fails(c)
          BY <1>1, <5>1 DEF Refused, Fails, Call
        <5> QED BY <3>3, <4>2, <5>2 DEF CallMove, HeapMove
      <4> QED BY <4>1, <4>2
    <3>7. \A x \in EntryIds : HeapMove(x) /\ WorkerMove(x)
      BY <1>4, <2>10, <3>3, <3>6 DEF HeapMove, Finish
    <3>8. \A d \in Calls : CallMove(d)
      BY <3>5, <3>6 DEF CallMove
    <3>9. now' = now /\ \A k \in Keys : KeyMove(k)
      BY <2>10 DEF Finish, KeyMove
    <3> QED BY <1>1, <3>7, <3>8, <3>9 DEF Moves
  <2>11. CASE Reply(c)
    <3>1. /\ call'[c] = Answered(c, heap[call[c].entry], FALSE)
          /\ \A d \in Calls \ {c} : call'[d] = call[d]
      BY <1>2, <2>11 DEF Reply
    <3>2. Replies(c)
      BY <2>11, <3>1, AnsweredFields DEF Reply, Replies
    <3> QED BY <2>11, <3>1, <3>2, QuietMoves DEF Reply, CallMove
  <2>12. CASE Wake(c)
    <3>1. /\ call'[c] = [call[c] EXCEPT !.pc = "lookup", !.t = now, !.entry = NoEntry,
                                       !.woken = FALSE]
          /\ \A d \in Calls \ {c} : call'[d] = call[d]
      BY <1>2, <2>12 DEF Wake
    <3>2. Begins(c)
      BY <1>1, <2>12, <3>1, ZenonT(60) DEF Wake, Begins, Call
    <3> QED BY <2>12, <3>1, <3>2, QuietMoves DEF Wake, CallMove
  <2>13. CASE AbandonWait(c)
    <3>1. call'[c] = Refused(c, "cancelled") /\ \A d \in Calls \ {c} : call'[d] = call[d]
      BY <1>2, <2>13 DEF AbandonWait
    <3>2. Fails(c)
      BY <1>1, <3>1 DEF Refused, Fails, Call
    <3> QED BY <2>13, <3>1, <3>2, QuietMoves DEF AbandonWait, CallMove
  <2> QED BY <1>5, <2>1, <2>3, <2>4, <2>5, <2>6, <2>7, <2>8, <2>9, <2>10, <2>11, <2>12, <2>13
          DEF CallStep, Lookup
<1>6. ASSUME NEW e \in EntryIds, WorkerStep(e) PROVE Moves
  <2>1. ASSUME NEW err \in Errors \cup {Ok}, WorkerReturns(e, err) PROVE Moves
    <3>1. /\ worker'[e].pc = "finish" /\ worker'[e].key = worker[e].key /\ worker'[e].at = now
          /\ \A x \in EntryIds \ {e} : worker'[x] = worker[x]
      BY <1>1, <2>1 DEF WorkerReturns, Worker
    <3>2. \A x \in EntryIds : WorkerMove(x)
      BY <2>1, <3>1 DEF WorkerReturns, WorkerMove
    <3>3. now' = now /\ heap' = heap /\ call' = call /\ entries' = entries
      BY <2>1 DEF WorkerReturns
    <3> QED BY <1>1, <1>3, <3>2, <3>3 DEF Moves, HeapMove, CallMove, SameCall, KeyMove
  <2>2. CASE WorkerFinish(e)
    <3>1. worker[e].key \in Keys /\ worker[e].at \in Nat /\ worker[e].err \in Errors \cup {Ok}
      BY <1>1, <2>2 DEF WorkerFinish, TypeInv, Shape, Worker
    <3>2. /\ IF worker[e].err = Ok THEN heap'[e] = Refreshed(heap[e], worker[e].key, worker[e].at)
             ELSE SameValue(e)
          /\ \A x \in EntryIds \ {e} : SameValue(x)
      BY <2>2, <3>1, FinishMoves DEF WorkerFinish
    <3>3. worker'[e].pc = "none" /\ \A x \in EntryIds \ {e} : worker'[x] = worker[x]
      BY <1>1, <2>2 DEF WorkerFinish, NoWorker
    <3>4. \A x \in EntryIds : HeapMove(x) /\ WorkerMove(x)
      BY <2>2, <3>2, <3>3 DEF WorkerFinish, HeapMove, WorkerStores, WorkerMove
    <3>5. \A d \in Calls : CallMove(d)
      BY <2>2, ReleasedSame DEF WorkerFinish, CallMove
    <3>6. now' = now /\ \A k \in Keys : KeyMove(k)
      BY <2>2 DEF WorkerFinish, KeyMove
    <3> QED BY <1>1, <3>4, <3>5, <3>6 DEF Moves
  <2> QED BY <1>6, <2>1, <2>2 DEF WorkerStep
<1>7. CASE Tick \/ CloseService \/ CloseProvider \/ CloseTimeout \/ Stopped \/ UNCHANGED vars
  <2>1. heap' = heap /\ call' = call /\ worker' = worker /\ entries' = entries
    BY <1>7 DEF Tick, CloseService, CloseProvider, CloseTimeout, Stopped, vars
  <2>2. now' \in Nat /\ now <= now'
    BY <1>1, <1>7 DEF Tick, CloseService, CloseProvider, CloseTimeout, Stopped, vars
  <2> QED BY <1>1, <1>3, <1>4, <2>1, <2>2 DEF Moves, HeapMove, CallMove, SameCall, KeyMove
<1> QED BY <1>5, <1>6, <1>7 DEF Next

\* What a stored value is: facts about a refresh by the call c of its entry.
LEMMA StoredByCall ==
    ASSUME AnswerInv, NEW c \in Calls, Stores(c)
    PROVE  LET e == call[c].entry
           IN  /\ e \in EntryIds /\ call[c].key \in Keys /\ Uses(e, call[c].key) /\ Leads(c, e)
               /\ heap'[e].hasValue /\ heap'[e].result = call[c].key
               /\ heap'[e].fetchedAt = call[c].at
               /\ heap'[e].validUntil = call[c].at + FreshFor[call[c].key.kind]
               /\ heap'[e].staleUntil = call[c].at + StaleFor[call[c].key.kind]
               /\ call[c].at <= now /\ heap[e].fetchedAt <= call[c].at /\ call[c].t <= call[c].at
<1>1. PICK e \in EntryIds : e = call[c].entry
  BY DEF AnswerInv, OwnerInv, TypeInv, Shape, Stores
<1>2. call[c].key \in Keys /\ call[c].at \in Nat /\ heap[e] \in Entry
  BY DEF AnswerInv, OwnerInv, TypeInv, TypeOK, Shape, Stores, Call
<1>3. heap'[e] = Refreshed(heap[e], call[c].key, call[c].at)
  BY <1>1 DEF Stores
<1>4. /\ heap'[e].hasValue /\ heap'[e].result = call[c].key
      /\ heap'[e].fetchedAt = call[c].at
      /\ heap'[e].validUntil = call[c].at + FreshFor[call[c].key.kind]
      /\ heap'[e].staleUntil = call[c].at + StaleFor[call[c].key.kind]
  <2>1. PICK x \in Entry, k \in Keys, at \in Nat :
            x = heap[e] /\ k = call[c].key /\ at = call[c].at
    BY <1>2
  <2>2. PICK y : y = heap'[e]
    OBVIOUS
  <2>3. y = Refreshed(x, k, at)
    BY <1>3, <2>1, <2>2
  <2>4. /\ y.hasValue /\ y.result = k /\ y.fetchedAt = at
        /\ y.validUntil = at + FreshFor[k.kind] /\ y.staleUntil = at + StaleFor[k.kind]
    BY <2>1, <2>3, RefreshedFields
  <2> QED BY <2>1, <2>2, <2>4
<1>5. Uses(e, call[c].key) /\ Leads(c, e)
  BY <1>1 DEF Uses, Holds, Leads, Stores
<1>6. call[c].at <= now /\ heap[e].fetchedAt <= call[c].at /\ call[c].t <= call[c].at
  BY <1>1 DEF AnswerInv, TimeInv, CallTimes, Stores
<1> QED BY <1>1, <1>2, <1>4, <1>5, <1>6

\* The same of a refresh by the worker of the entry.
LEMMA StoredByWorker ==
    ASSUME AnswerInv, NEW e \in EntryIds, WorkerStores(e)
    PROVE  /\ worker[e].key \in Keys /\ Uses(e, worker[e].key)
           /\ heap'[e].hasValue /\ heap'[e].result = worker[e].key
           /\ heap'[e].fetchedAt = worker[e].at
           /\ heap'[e].validUntil = worker[e].at + FreshFor[worker[e].key.kind]
           /\ heap'[e].staleUntil = worker[e].at + StaleFor[worker[e].key.kind]
           /\ worker[e].at <= now /\ heap[e].fetchedAt <= worker[e].at
<1>1. worker[e].key \in Keys /\ worker[e].at \in Nat /\ heap[e] \in Entry
  BY DEF AnswerInv, OwnerInv, TypeInv, TypeOK, Shape, WorkerStores, Worker
<1>2. /\ heap'[e].hasValue /\ heap'[e].result = worker[e].key
      /\ heap'[e].fetchedAt = worker[e].at
      /\ heap'[e].validUntil = worker[e].at + FreshFor[worker[e].key.kind]
      /\ heap'[e].staleUntil = worker[e].at + StaleFor[worker[e].key.kind]
  <2>1. PICK x \in Entry, k \in Keys, at \in Nat :
            x = heap[e] /\ k = worker[e].key /\ at = worker[e].at
    BY <1>1
  <2>2. PICK y : y = heap'[e]
    OBVIOUS
  <2>3. y = Refreshed(x, k, at)
    BY <2>1, <2>2 DEF WorkerStores
  <2>4. /\ y.hasValue /\ y.result = k /\ y.fetchedAt = at
        /\ y.validUntil = at + FreshFor[k.kind] /\ y.staleUntil = at + StaleFor[k.kind]
    BY <2>1, <2>3, RefreshedFields
  <2> QED BY <2>1, <2>2, <2>4
<1>3. Uses(e, worker[e].key)
  BY DEF Uses, WorkerStores
<1>4. worker[e].at <= now /\ heap[e].fetchedAt <= worker[e].at
  BY DEF AnswerInv, TimeInv, WorkerTimes, WorkerStores
<1> QED BY <1>1, <1>2, <1>3, <1>4

\* While an entry is in use its value is never lost nor replaced by one that
\* was fetched earlier.
LEMMA ValueKept ==
    ASSUME AnswerInv, Moves, NEW e \in EntryIds, InUse(e)
    PROVE  /\ heap[e].hasValue => heap'[e].hasValue
           /\ heap[e].fetchedAt <= heap'[e].fetchedAt
<1>1. HeapMove(e) /\ ~NewEntry(e)
  BY DEF Moves, NewEntry, Unused
<1>2. heap[e].fetchedAt \in Nat
  BY DEF AnswerInv, OwnerInv, TypeInv, TypeOK, Entry
<1>3. CASE SameValue(e)
  BY <1>2, <1>3 DEF SameValue
<1>4. CASE WorkerStores(e)
  BY <1>4, StoredByWorker
<1>5. ASSUME NEW c \in Calls, call[c].entry = e, Stores(c)
      PROVE  heap'[e].hasValue /\ heap[e].fetchedAt <= heap'[e].fetchedAt
  BY <1>5, StoredByCall
<1> QED BY <1>1, <1>3, <1>4, <1>5 DEF HeapMove

\* The entry of a running fetch keeps its value until the fetch is stored.
LEMMA OwnedValueStays ==
    ASSUME AnswerInv, Moves, NEW e \in EntryIds, ~WorkerStores(e),
           \A c \in Calls : call[c].entry = e => ~Stores(c), InUse(e)
    PROVE  SameValue(e)
BY DEF Moves, HeapMove, NewEntry, Unused

\* A step gives an entry to another key only when the entry was unused.
LEMMA UsesMoves ==
    ASSUME TypeInv, Moves, NEW e \in EntryIds, NEW k \in Keys, Uses(e, k)'
    PROVE  Uses(e, k) \/ entries'[k] = e
<1>1. CASE entries'[k] = e
  BY <1>1
<1>2. ASSUME NEW c \in Calls, Holds(c, e)', call'[c].key = k
      PROVE  Uses(e, k) \/ entries'[k] = e
  <2>1. CallMove(c) /\ call'[c].entry = e /\ call'[c].pc \in {"waiting", "fetch", "finish", "reply"}
    BY <1>2 DEF Moves, Holds
  <2>2. CASE SameCall(c)
    BY <1>2, <2>1, <2>2 DEF SameCall, Uses, Holds
  <2>3. CASE Takes(c)
    BY <1>2, <2>1, <2>3 DEF Takes, GoesOn
  <2>4. CASE Fetches(c)
    BY <1>2, <2>1, <2>4 DEF Fetches, GoesOn, Uses, Holds
  <2>5. CASE Stores(c)
    BY <1>2, <2>1, <2>5 DEF Stores, GoesOn, Uses, Holds
  <2>6. ~Begins(c) /\ ~Hits(c) /\ ~Fails(c) /\ ~Replies(c)
    BY <2>1 DEF Begins, Hits, Fails, Replies, AnswersFrom
  <2> QED BY <2>1, <2>2, <2>3, <2>4, <2>5, <2>6 DEF CallMove
<1>3. ASSUME worker'[e].pc # "none", worker'[e].key = k
      PROVE  Uses(e, k)
  BY <1>3 DEF Moves, WorkerMove, Uses
<1> QED BY <1>1, <1>2, <1>3 DEF Uses

\* An entry keeps belonging to one key, and its value to that key.
LEMMA NextKeyInv ==
    ASSUME AnswerInv, EntriesTracked', Moves
    PROVE  KeyInv'
<1>1. TypeInv /\ KeyInv
  BY DEF AnswerInv, OwnerInv
<1> SUFFICES ASSUME NEW e \in EntryIds, NEW k \in Keys, Uses(e, k)'
             PROVE  /\ \A x \in Keys : Uses(e, x)' => x = k
                    /\ heap'[e].hasValue => heap'[e].result = k
  BY DEF KeyInv
<1>2. CASE \E y \in Keys : entries'[y] = e /\ entries[y] # e
  <2>1. PICK y \in Keys : entries'[y] = e /\ entries[y] # e
    BY <1>2
  <2>2. e # NoEntry
    BY CacheAssumption DEF CacheAssumption
  <2>3. e \in Unused /\ ~heap'[e].hasValue
    BY <2>1, <2>2 DEF Moves, KeyMove
  <2>4. \A x \in Keys : ~Uses(e, x)
    BY <2>3 DEF Unused, InUse, Uses
  <2>5. \A x \in Keys : Uses(e, x)' => entries'[x] = e
    BY <1>1, <2>4, UsesMoves
  <2>6. \A x \in Keys : entries'[x] = e => x = y
    BY <2>1, <2>2 DEF EntriesTracked
  <2> QED BY <2>3, <2>5, <2>6
<1>3. CASE ~ \E y \in Keys : entries'[y] = e /\ entries[y] # e
  <2>1. \A x \in Keys : Uses(e, x)' => Uses(e, x)
    BY <1>1, <1>3, UsesMoves DEF Uses
  <2>2. Uses(e, k) /\ \A x \in Keys : Uses(e, x) => x = k
    BY <1>1, <2>1 DEF KeyInv
  <2>3. ASSUME heap'[e].hasValue PROVE heap'[e].result = k
    <3>1. HeapMove(e) /\ ~NewEntry(e)
      BY <2>3 DEF Moves, NewEntry
    <3>2. CASE SameValue(e)
      BY <1>1, <2>2, <2>3, <3>2 DEF SameValue, KeyInv
    <3>3. CASE WorkerStores(e)
      BY <2>2, <3>3, StoredByWorker
    <3>4. ASSUME NEW c \in Calls, call[c].entry = e, Stores(c) PROVE heap'[e].result = k
      BY <2>2, <3>4, StoredByCall
    <3> QED BY <3>1, <3>2, <3>3, <3>4 DEF HeapMove
  <2> QED BY <2>1, <2>2, <2>3
<1> QED BY <1>2, <1>3

\* The times of values, calls and workers stay in order.
LEMMA NextTimeInv ==
    ASSUME AnswerInv, TypeInv', Moves
    PROVE  TimeInv'
<1>1. TypeInv /\ TimeInv /\ OneOwnerPerRefresh
  BY DEF AnswerInv, OwnerInv
<1>2. now \in Nat /\ now' \in Nat /\ now <= now'
  BY DEF Moves
<1>3. \A e \in EntryIds : /\ heap[e].fetchedAt \in Nat /\ heap'[e].fetchedAt \in Nat
                          /\ worker[e].at \in Nat /\ worker'[e].at \in Nat
  BY <1>1 DEF TypeInv, TypeOK, Entry, Worker
<1>4. \A c \in Calls : call[c].t \in Nat /\ call'[c].t \in Nat /\ call[c].at \in Nat /\ call'[c].at \in Nat
  BY <1>1 DEF TypeInv, TypeOK, Call
<1>5. ASSUME NEW e \in EntryIds PROVE ValueTimes(e)'
  <2>1. HeapMove(e) /\ ValueTimes(e)
    BY <1>1 DEF Moves, TimeInv
  <2>2. CASE SameValue(e)
    <3>1. heap'[e].fetchedAt <= now'
      BY <1>2, <1>3, <2>1, <2>2 DEF SameValue, ValueTimes
    <3> QED BY <2>1, <2>2, <3>1 DEF SameValue, ValueTimes
  <2>3. CASE NewEntry(e)
    BY <1>2, <2>3 DEF NewEntry, ValueTimes
  <2>4. CASE WorkerStores(e)
    <3>1. worker[e].at <= now'
      BY <1>2, <1>3, <2>4, StoredByWorker
    <3> QED BY <2>4, <3>1, StoredByWorker DEF ValueTimes
  <2>5. ASSUME NEW c \in Calls, call[c].entry = e, Stores(c) PROVE ValueTimes(e)'
    <3>1. call[c].at <= now'
      BY <1>2, <1>4, <2>5, StoredByCall
    <3> QED BY <2>5, <3>1, StoredByCall DEF ValueTimes
  <2> QED BY <2>1, <2>2, <2>3, <2>4, <2>5 DEF HeapMove
<1>6. ASSUME NEW e \in EntryIds PROVE WorkerTimes(e)'
  <2> SUFFICES ASSUME worker'[e].pc = "finish"
               PROVE  worker'[e].at <= now' /\ heap'[e].fetchedAt <= worker'[e].at
    BY DEF WorkerTimes
  <2>1. WorkerMove(e)
    BY DEF Moves
  <2>2. CASE worker'[e] = worker[e]
    <3>1. worker[e].at <= now /\ heap[e].fetchedAt <= worker[e].at
      BY <1>1, <2>2 DEF TimeInv, WorkerTimes
    <3>2. InUse(e) /\ \A c \in Calls : ~Leads(c, e)
      BY <1>1, <2>2 DEF InUse, OneOwnerPerRefresh
    <3>3. SameValue(e)
      BY <2>2, <3>2, OwnedValueStays DEF WorkerStores, Stores, Leads
    <3> QED BY <1>2, <1>3, <2>2, <3>1, <3>3 DEF SameValue
  <2>3. CASE worker'[e].at = now /\ heap' = heap
    BY <1>1, <1>2, <1>3, <2>3 DEF TimeInv, ValueTimes
  <2> QED BY <2>1, <2>2, <2>3 DEF WorkerMove
<1>7. ASSUME NEW c \in Calls PROVE CallTimes(c)'
  <2>1. CallMove(c) /\ CallTimes(c)
    BY <1>1 DEF Moves, TimeInv
  <2>2. call[c].t <= now /\ now <= now'
    BY <1>2, <2>1 DEF CallTimes
  <2>3. CASE SameCall(c)
    <3>1. call'[c].t <= now'
      BY <1>2, <1>4, <2>2, <2>3 DEF SameCall
    <3>2. ASSUME call'[c].pc \in {"finish", "reply"}
          PROVE  call[c].entry \in EntryIds /\ InUse(call[c].entry) /\ ~Stores(c)
      BY <1>1, <2>3, <3>2 DEF SameCall, TypeInv, Shape, InUse, Holds, Stores
    <3>3. ASSUME call'[c].pc = "finish"
          PROVE  /\ call'[c].t <= call'[c].at /\ call'[c].at <= now'
                 /\ heap'[call'[c].entry].fetchedAt <= call'[c].at
      <4>1. PICK e \in EntryIds : e = call[c].entry
        BY <3>2, <3>3
      <4>2. Leads(c, e) /\ InUse(e)
        BY <2>3, <3>2, <3>3, <4>1 DEF SameCall, Leads
      <4>3. worker[e].pc = "none" /\ \A d \in Calls : Leads(d, e) => d = c
        BY <1>1, <4>2 DEF OneOwnerPerRefresh
      <4>4. SameValue(e)
        BY <3>2, <3>3, <4>2, <4>3, OwnedValueStays DEF WorkerStores, Stores, Leads
      <4>5. /\ call[c].t <= call[c].at /\ call[c].at <= now
            /\ heap[e].fetchedAt <= call[c].at
        BY <2>1, <2>3, <3>3, <4>1 DEF SameCall, CallTimes
      <4>6. call[c].at <= now'
        BY <1>2, <1>4, <4>5
      <4> QED BY <2>3, <4>1, <4>4, <4>5, <4>6 DEF SameCall, SameValue
    <3>4. ASSUME call'[c].pc = "reply"
          PROVE  /\ heap'[call'[c].entry].hasValue
                 /\ call'[c].t <= heap'[call'[c].entry].fetchedAt
      <4>1. PICK e \in EntryIds : e = call[c].entry /\ InUse(e)
        BY <3>2, <3>4
      <4>2. heap[e].hasValue /\ call[c].t <= heap[e].fetchedAt
        BY <2>1, <2>3, <3>4, <4>1 DEF SameCall, CallTimes
      <4>3. heap'[e].hasValue /\ heap[e].fetchedAt <= heap'[e].fetchedAt
        BY <4>1, <4>2, ValueKept
      <4>4. call[c].t <= heap'[e].fetchedAt
        BY <1>3, <1>4, <4>2, <4>3
      <4> QED BY <2>3, <4>1, <4>3, <4>4 DEF SameCall
    <3> QED BY <3>1, <3>3, <3>4 DEF CallTimes
  <2>4. CASE Begins(c)
    BY <1>2, <2>4 DEF Begins, CallTimes
  <2>5. CASE Hits(c) \/ Fails(c) \/ Replies(c)
    <3>1. call'[c].pc = "done" /\ call'[c].t = call[c].t
      BY <2>5 DEF Hits, Fails, Replies, AnswersFrom
    <3> QED BY <1>2, <1>4, <2>2, <3>1 DEF CallTimes
  <2>6. CASE Takes(c)
    <3>1. call'[c].pc \notin {"finish", "reply"} /\ call'[c].t = call[c].t
      BY <2>6 DEF Takes, GoesOn
    <3> QED BY <1>2, <1>4, <2>2, <3>1 DEF CallTimes
  <2>7. CASE Fetches(c)
    <3>1. PICK e \in EntryIds : e = call[c].entry
      BY <1>1, <2>7 DEF Fetches, TypeInv, Shape
    <3>2. /\ call'[c].pc = "finish" /\ call'[c].t = call[c].t /\ call'[c].entry = e
          /\ call'[c].at = now /\ heap' = heap
      BY <2>7, <3>1 DEF Fetches, GoesOn
    <3>3. heap[e].fetchedAt <= now
      BY <1>1 DEF TimeInv, ValueTimes
    <3>4. call'[c].t <= now'
      BY <1>2, <1>4, <2>2, <3>2
    <3> QED BY <2>2, <3>2, <3>3, <3>4 DEF CallTimes
  <2>8. CASE Stores(c)
    <3>1. PICK e \in EntryIds : e = call[c].entry
      BY <2>8, StoredByCall
    <3>2. call'[c].pc = "reply" /\ call'[c].t = call[c].t /\ call'[c].entry = e
      BY <2>8, <3>1 DEF Stores, GoesOn
    <3>3. heap'[e].hasValue /\ heap'[e].fetchedAt = call[c].at /\ call[c].t <= call[c].at
      BY <2>8, <3>1, StoredByCall
    <3>4. call'[c].t <= now'
      BY <1>2, <1>4, <2>2, <3>2
    <3> QED BY <3>2, <3>3, <3>4 DEF CallTimes
  <2> QED BY <2>1, <2>3, <2>4, <2>5, <2>6, <2>7, <2>8 DEF CallMove
<1> QED BY <1>5, <1>6, <1>7 DEF TimeInv

\* The answer of one call.
Answer(c) ==
    LET k == call[c].key.kind
        f == call[c].fetchedAt
    IN  /\ call[c].data = call[c].key
        /\ IF call[c].stale
           THEN f + FreshFor[k] <= call[c].t /\ call[c].t < f + StaleFor[k]
           ELSE call[c].t < f + FreshFor[k]

\* ReplyInv, call by call.
LEMMA ReplyInvPointwise ==
    ReplyInv <=> \A c \in Calls : call[c].out = "data" => call[c].pc = "done" /\ Answer(c)
BY DEF ReplyInv, ReplyForKey, ReplyAge, Answer

\* Every answer is of the key of its call and of the age the policies allow.
LEMMA NextReplyInv ==
    ASSUME AnswerInv, TypeInv', Moves
    PROVE  ReplyInv'
<1>1. TypeInv /\ TimeInv /\ KeyInv
  BY DEF AnswerInv, OwnerInv
<1>2. \A c \in Calls : call[c].out = "data" => call[c].pc = "done" /\ Answer(c)
  BY ReplyInvPointwise DEF AnswerInv
<1>3. ASSUME NEW c \in Calls, NEW e \in EntryIds, Uses(e, call[c].key), call[c].key \in Keys,
             heap[e].hasValue
      PROVE  /\ heap[e].result = call[c].key /\ call[c].key.kind \in Kinds
             /\ heap[e].validUntil = heap[e].fetchedAt + FreshFor[call[c].key.kind]
             /\ heap[e].staleUntil = heap[e].fetchedAt + StaleFor[call[c].key.kind]
             /\ heap[e].fetchedAt \in Nat /\ call[c].t \in Nat
             /\ FreshFor[call[c].key.kind] \in Nat \ {0} /\ StaleFor[call[c].key.kind] \in Nat
  <2>1. heap[e].result = call[c].key
    BY <1>1, <1>3 DEF KeyInv
  <2>2. /\ heap[e].validUntil = heap[e].fetchedAt + FreshFor[heap[e].result.kind]
        /\ heap[e].staleUntil = heap[e].fetchedAt + StaleFor[heap[e].result.kind]
    BY <1>1, <1>3 DEF TimeInv, ValueTimes
  <2>3. heap[e].fetchedAt \in Nat /\ call[c].t \in Nat
    BY <1>1 DEF TypeInv, TypeOK, Entry, Call
  <2>4. call[c].key.kind \in Kinds
    BY <1>3 DEF Keys
  <2>5. FreshFor[call[c].key.kind] \in Nat \ {0} /\ StaleFor[call[c].key.kind] \in Nat
    BY <2>4, CacheAssumption DEF CacheAssumption
  <2> QED BY <2>1, <2>2, <2>3, <2>4, <2>5
<1>4. ASSUME NEW c \in Calls, call'[c].out = "data" PROVE call'[c].pc = "done" /\ Answer(c)'
  <2>1. CallMove(c)
    BY DEF Moves
  <2>2. CASE SameCall(c)
    <3>1. call[c].pc = "done" /\ Answer(c)
      BY <1>2, <1>4, <2>2 DEF SameCall
    <3> QED BY <2>2, <3>1 DEF SameCall, Answer
  <2>3. CASE Hits(c)
    <3>1. call[c].key \in Keys
      BY <1>1, <2>3 DEF Hits, TypeInv, Shape
    <3>2. PICK e \in EntryIds : e = entries[call[c].key] /\ heap[e].hasValue /\ Uses(e, call[c].key)
      BY <1>1, <2>3, <3>1 DEF Hits, TypeInv, TypeOK, Uses
    <3>3. PICK f \in Nat, t \in Nat, fresh \in Nat \ {0}, until \in Nat :
              /\ f = heap[e].fetchedAt /\ t = call[c].t
              /\ fresh = FreshFor[call[c].key.kind] /\ until = StaleFor[call[c].key.kind]
              /\ heap[e].validUntil = f + fresh /\ heap[e].staleUntil = f + until
              /\ heap[e].result = call[c].key
      BY <1>3, <3>1, <3>2
    <3>4. CASE AnswersFrom(c, heap[e], FALSE) /\ t < f + fresh
      BY <3>3, <3>4 DEF AnswersFrom, Answer
    <3>5. CASE AnswersFrom(c, heap[e], TRUE) /\ ~(t < f + fresh) /\ t < f + until
      <4>1. f + fresh <= t
        BY <3>5
      <4> QED BY <3>3, <3>5, <4>1 DEF AnswersFrom, Answer
    <3> QED BY <2>3, <3>2, <3>3, <3>4, <3>5 DEF Hits
  <2>4. CASE Replies(c)
    <3>1. call[c].key \in Keys
      BY <1>1, <2>4 DEF Replies, TypeInv, Shape
    <3>2. PICK e \in EntryIds : e = call[c].entry
      BY <1>1, <2>4 DEF Replies, TypeInv, Shape
    <3>3. Uses(e, call[c].key)
      BY <2>4, <3>2 DEF Replies, Uses, Holds
    <3>4. heap[e].hasValue /\ call[c].t <= heap[e].fetchedAt
      BY <1>1, <2>4, <3>2 DEF Replies, TimeInv, CallTimes
    <3>5. PICK f \in Nat, t \in Nat, fresh \in Nat \ {0} :
              /\ f = heap[e].fetchedAt /\ t = call[c].t /\ t <= f
              /\ fresh = FreshFor[call[c].key.kind] /\ heap[e].result = call[c].key
      BY <1>3, <3>1, <3>3, <3>4
    <3>6. t < f + fresh
      BY <3>5
    <3>7. AnswersFrom(c, heap[e], FALSE)
      BY <2>4, <3>2 DEF Replies
    <3> QED BY <3>5, <3>6, <3>7 DEF AnswersFrom, Answer
  <2>5. CASE Begins(c) \/ Takes(c) \/ Fetches(c) \/ Stores(c)
    <3>1. call[c].out = "data" /\ call[c].pc # "done"
      BY <1>4, <2>5 DEF Begins, Takes, Fetches, Stores, GoesOn
    <3> QED BY <1>2, <3>1
  <2>6. ~Fails(c)
    BY <1>4 DEF Fails
  <2> QED BY <2>1, <2>2, <2>3, <2>4, <2>5, <2>6 DEF CallMove
<1>5. \A c \in Calls : call'[c].out = "data" => call'[c].pc = "done" /\ Answer(c)'
  BY <1>4
<1> QED BY <1>5, ReplyInvPointwise DEF ReplyInv, ReplyForKey, ReplyAge, Answer

\* Nothing is cached and nothing answered yet.
LEMMA InitAnswerInv == Init => AnswerInv
<1> SUFFICES ASSUME Init PROVE AnswerInv
  OBVIOUS
<1>1. OwnerInv /\ EntriesTracked
  BY InitOwnerInv, CacheAssumption DEF Init, EntriesTracked, CacheAssumption
<1>2. \A c \in Calls : call[c].pc = "idle" /\ call[c].out = "none" /\ call[c].t = 0
  BY DEF Init, BlankCall
<1>3. \A e \in EntryIds : heap[e].fetchedAt = 0 /\ ~heap[e].hasValue /\ worker[e].pc = "none"
  BY DEF Init, BlankEntry, NoWorker
<1>4. now = 0 /\ \A k \in Keys : entries[k] = NoEntry
  BY DEF Init
<1>5. KeyInv
  BY <1>2, <1>3, <1>4, CacheAssumption DEF KeyInv, Uses, Holds, CacheAssumption
<1>6. TimeInv
  BY <1>2, <1>3, <1>4 DEF TimeInv, ValueTimes, CallTimes, WorkerTimes
<1>7. ReplyInv
  BY <1>2 DEF ReplyInv, ReplyForKey, ReplyAge
<1> QED BY <1>1, <1>5, <1>6, <1>7 DEF AnswerInv

\* Every step keeps the invariant about what the cache answers.
LEMMA NextAnswerInv == AnswerInv /\ [Next]_vars => AnswerInv'
<1> SUFFICES ASSUME AnswerInv, [Next]_vars PROVE AnswerInv'
  OBVIOUS
<1>1. OwnerInv' /\ TypeInv' /\ EntriesTracked'
  BY NextOwnerInv, NextEntriesTracked DEF AnswerInv, OwnerInv
<1>2. Moves
  BY NextMoves DEF AnswerInv, OwnerInv
<1>3. KeyInv' /\ TimeInv' /\ ReplyInv'
  BY <1>1, <1>2, NextKeyInv, NextTimeInv, NextReplyInv
<1> QED BY <1>1, <1>3 DEF AnswerInv

\* A Get is answered with data fetched for its own location and kind, however
\* many evictions, refreshes and waiting calls it races with.
THEOREM AnswersMatchRequests == Spec => []ReplyForKey
<1>1. AnswerInv => ReplyForKey
  BY DEF AnswerInv, ReplyInv
<1> QED BY <1>1, InitAnswerInv, NextAnswerInv, PTL DEF Spec

\* An answer marked fresh is younger than freshFor at the clock reading of its
\* Get, and one marked stale is older than that and younger than staleFor.
THEOREM AnswersAreYoung == Spec => []ReplyAge
<1>1. AnswerInv => ReplyAge
  BY DEF AnswerInv, ReplyInv
<1> QED BY <1>1, InitAnswerInv, NextAnswerInv, PTL DEF Spec

\* A refresh never loses the value of a cached entry, and never replaces it by
\* one fetched earlier.
THEOREM ValuesMoveForward == Spec => ValueNeverRegresses
<1>1. ASSUME AnswerInv, [Next]_vars, NEW k \in Keys, entries[k] # NoEntry,
             heap[entries[k]].hasValue
      PROVE  heap'[entries[k]].hasValue /\ heap'[entries[k]].fetchedAt >= heap[entries[k]].fetchedAt
  <2>1. TypeInv /\ TypeInv' /\ Moves
    BY <1>1, NextTypeInv, NextMoves DEF AnswerInv, OwnerInv
  <2>2. PICK e \in EntryIds : e = entries[k] /\ InUse(e)
    BY <1>1, <2>1 DEF TypeInv, TypeOK, InUse
  <2>3. heap'[e].hasValue /\ heap[e].fetchedAt <= heap'[e].fetchedAt
    BY <1>1, <2>1, <2>2, ValueKept
  <2>4. heap[e].fetchedAt \in Nat /\ heap'[e].fetchedAt \in Nat
    BY <2>1 DEF TypeInv, TypeOK, Entry
  <2> QED BY <2>2, <2>3, <2>4
<1>2. AnswerInv /\ [Next]_vars =>
        [\A k \in Keys :
            entries[k] # NoEntry /\ entries'[k] = entries[k] /\ heap[entries[k]].hasValue =>
                /\ heap'[entries[k]].hasValue
                /\ heap'[entries[k]].fetchedAt >= heap[entries[k]].fetchedAt]_vars
  BY <1>1
<1> QED BY <1>2, InitAnswerInv, NextAnswerInv, PTL DEF Spec, ValueNeverRegresses

\* Only a lookup whose clock reading is past the cooldown begins a refresh of
\* an entry in use.
LEMMA RefreshBegins ==
    ASSUME TypeInv, [Next]_vars, NEW e \in EntryIds, InUse(e),
           ~heap[e].refreshing, heap'[e].refreshing
    PROVE  \E c \in Calls : ~(call[c].t < heap[e].retryAfter)
<1>1. heap = [x \in EntryIds |-> heap[x]] /\ heap[e] \in Entry
  BY DEF TypeInv, TypeOK
<1>2. heap' # heap
  OBVIOUS
<1>3. ASSUME NEW c \in Calls, EnterCache(c), NEW y, heap' = [heap EXCEPT ![Address(c)] = y],
             ~Found(c).refreshing, ~(call[c].t < Found(c).retryAfter)
      PROVE  ~(call[c].t < heap[e].retryAfter)
  <2>1. e = Address(c)
    BY <1>1, <1>3
  <2>2. entries[call[c].key] # NoEntry
    BY <1>3, <2>1, EnterCacheKeys DEF Unused
  <2> QED BY <1>3, <2>1, <2>2, EnterCacheKeys
<1>4. ASSUME NEW c \in Calls, CallStep(c) PROVE \E d \in Calls : ~(call[d].t < heap[e].retryAfter)
  <2>1. CASE StaleHitRefresh(c)
    <3>1. /\ EnterCache(c) /\ ~Found(c).refreshing /\ ~(call[c].t < Found(c).retryAfter)
          /\ heap' = [heap EXCEPT ![Address(c)] = [heap[Address(c)] EXCEPT !.refreshing = TRUE]]
      BY <2>1 DEF StaleHitRefresh
    <3> QED BY <1>3, <3>1
  <2>2. CASE Lead(c)
    <3>1. /\ EnterCache(c) /\ ~Found(c).refreshing /\ ~(call[c].t < Found(c).retryAfter)
          /\ heap' = [heap EXCEPT ![Address(c)] = [Found(c) EXCEPT !.refreshing = TRUE]]
      BY <2>2 DEF Lead, InCooldown
    <3> QED BY <1>3, <3>1
  <2>3. CASE Finish(c)
    <3>1. call[c].entry \in EntryIds
      BY <2>3 DEF Finish, TypeInv, Shape
    <3>2. /\ ~heap'[call[c].entry].refreshing
          /\ \A x \in EntryIds \ {call[c].entry} : heap'[x] = heap[x]
      BY <2>3, <3>1, FinishClears DEF Finish
    <3> QED BY <3>2
  <2>4. CASE heap' = heap
    BY <1>2, <2>4
  <2> QED BY <1>4, <2>1, <2>2, <2>3, <2>4
          DEF CallStep, Lookup, Start, FreshHit, StaleHit, Reject, Join, FetchReturns, Reply, Wake,
              AbandonWait
<1>5. ASSUME NEW x \in EntryIds, WorkerStep(x) PROVE FALSE
  <2>1. CASE WorkerFinish(x)
    <3>1. ~heap'[x].refreshing /\ \A y \in EntryIds \ {x} : heap'[y] = heap[y]
      BY <2>1, FinishClears DEF WorkerFinish
    <3> QED BY <3>1
  <2>2. CASE \E err \in Errors \cup {Ok} : WorkerReturns(x, err)
    BY <1>2, <2>2 DEF WorkerReturns
  <2> QED BY <1>5, <2>1, <2>2 DEF WorkerStep
<1>6. CASE Tick \/ CloseService \/ CloseProvider \/ CloseTimeout \/ Stopped \/ UNCHANGED vars
  BY <1>2, <1>6 DEF Tick, CloseService, CloseProvider, CloseTimeout, Stopped, vars
<1> QED BY <1>4, <1>5, <1>6 DEF Next

\* No fetch of a cached entry begins before the cooldown set by its last
\* failure has run out, although each Get compares with a clock reading it took
\* before the mutex.
THEOREM CooldownsAreKept == Spec => CooldownRespected
<1>1. ASSUME AnswerInv, [Next]_vars, NEW k \in Keys, entries[k] # NoEntry,
             ~heap[entries[k]].refreshing, heap'[entries[k]].refreshing
      PROVE  now >= heap[entries[k]].retryAfter
  <2>1. TypeInv
    BY <1>1 DEF AnswerInv, OwnerInv
  <2>2. PICK e \in EntryIds : e = entries[k] /\ InUse(e)
    BY <1>1, <2>1 DEF TypeInv, TypeOK, InUse
  <2>3. PICK c \in Calls : ~(call[c].t < heap[e].retryAfter)
    BY <1>1, <2>1, <2>2, RefreshBegins
  <2>4. call[c].t <= now
    BY <1>1 DEF AnswerInv, TimeInv, CallTimes
  <2>5. PICK t \in Nat, r \in Nat, n \in Nat : t = call[c].t /\ r = heap[e].retryAfter /\ n = now
    BY <2>1 DEF TypeInv, TypeOK, Entry, Call
  <2>6. n >= r
    BY <2>3, <2>4, <2>5
  <2> QED BY <2>2, <2>5, <2>6
<1>2. AnswerInv /\ [Next]_vars =>
        [\A k \in Keys :
            LET e == entries[k]
            IN  e # NoEntry /\ ~heap[e].refreshing /\ heap'[e].refreshing =>
                    now >= heap[e].retryAfter]_vars
  BY <1>1
<1> QED BY <1>2, InitAnswerInv, NextAnswerInv, PTL DEF Spec, CooldownRespected
=============================================================================
