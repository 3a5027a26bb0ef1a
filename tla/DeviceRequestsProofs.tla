------------------------ MODULE DeviceRequestsProofs ------------------------
(***************************************************************************)
(* Proofs about DeviceRequests, for any number of devices, requests and    *)
(* changes and any budgets.                                                *)
(*                                                                         *)
(* BaseInv says where a request may be and for whom it runs (the read      *)
(* lock), which runtimes come and go, what a change has still to do (the   *)
(* write lock and Retain), and the slots.  BudgetInv keeps accounts: the   *)
(* events since any earlier event and the tokens that are left never       *)
(* exceed the capacity and the time that has passed.  What rests on one    *)
(* activation at a time is claimed until a change overtakes setup.         *)
(***************************************************************************)
EXTENDS DeviceRequests, FiniteSetTheorems, TLAPS

Flying == {"slot", "running", "giveback"}

Writers == {"setup", "change"}

\* Which lookup may go with which handler, and for whom it works.
RequestOK(q) ==
    /\ q.pc \in {"idle", "allow"} <=> q.lookup = "none"
    /\ q.pc # "idle" => q.device \in active /\ q.runtime = routed

SlotInv == IsFiniteSet(LookupsInFlight) /\ slots = Cardinality(LookupsInFlight)

\* A change that is still to be activated, and one that has been.
Coming(l) == l.pc \in {"prepared", "lock"}
Leaving(l) == l.pc \in {"retain", "retainLookups", "close"}

\* It brings a runtime; it has replaced one.
Installs(l) == Coming(l) /\ l.swap
Replaces(l) == Leaving(l) /\ l.swap

\* The runtime in use is not closed, will not be installed again and will not be
\* closed; nor will one that is to be installed.
RuntimeInv ==
    /\ {runtime, routed} \cup closed \subseteq 0..built
    /\ runtime \notin closed
    /\ \A w \in Writers :
          /\ Installs(writer[w]) => writer[w].target \in (0..built) \ (closed \cup {runtime})
          /\ Replaces(writer[w]) => writer[w].previous \in (0..built) \ {runtime}
          /\ Coming(writer[w]) => writer[w].target \in 0..built
          /\ writer[w].pc = "close" => writer[w].swap
    /\ \A w, x \in Writers :
          Installs(writer[w]) =>
             /\ Installs(writer[x]) /\ x # w => writer[x].target # writer[w].target
             /\ Replaces(writer[x]) => writer[x].previous # writer[w].target

\* What holds while activations do not overlap: the handler routes to the
\* runtime in use, for the saved devices or for those about to be revoked.
OrderInv ==
    /\ writer["setup"].pc \in {"pending", "idle"} \/ writer["change"].pc = "idle"
    /\ routed = runtime
    /\ \A w \in Writers :
          /\ Coming(writer[w]) \/ Leaving(writer[w]) => writer[w].tokens = saved
          /\ Coming(writer[w]) /\ ~writer[w].swap => writer[w].target = runtime
    /\ active \subseteq saved \cup revoked
    /\ (\A w \in Writers : ~Coming(writer[w])) => active = saved
    /\ DOMAIN change \cup DOMAIN localize \subseteq active \cup revoked

SavedInv ==
    /\ saved \cap revoked = {}
    /\ writer["change"].pc # "pending"
    /\ writer["setup"].pc = "pending" => saved = {} /\ active = {} /\ revoked = {} /\ writer["change"].pc = "idle"
    /\ ~overtaken => OrderInv

\* Whom the limiters remember: a device that is served, or that some change has
\* still to drop.
DomainInv ==
    /\ \A d \in DOMAIN change :
          d \in active \/ \E w \in Writers : writer[w].pc = "retain" /\ d \notin writer[w].tokens
    /\ \A d \in DOMAIN localize :
          d \in active \/ \E w \in Writers :
                            writer[w].pc \in {"retain", "retainLookups"} /\ d \notin writer[w].tokens

BaseInv ==
    /\ TypeOK
    /\ \A r \in Requests : RequestOK(request[r])
    /\ SlotInv /\ RuntimeInv /\ SavedInv /\ DomainInv

-----------------------------------------------------------------------------
(* Operators.                                                              *)

\* What Put does to a limiter's map.
LEMMA PutFacts ==
    ASSUME NEW m, NEW k, NEW v
    PROVE  /\ DOMAIN Put(m, k, v) = DOMAIN m \cup {k} /\ Put(m, k, v)[k] = v
           /\ \A j \in DOMAIN m : j # k => Put(m, k, v)[j] = m[j]
BY DEF Put

\* What remains of a limiter's map after Retain.
LEMMA RestrictFacts ==
    ASSUME NEW m, NEW S
    PROVE  /\ DOMAIN Restrict(m, DOMAIN m \cap S) = DOMAIN m \cap S
           /\ \A j \in DOMAIN m \cap S : Restrict(m, DOMAIN m \cap S)[j] = m[j]
BY DEF Restrict

\* A refilled bucket holds what it held and the time since, up to its size.
LEMMA RefillFacts ==
    ASSUME NEW b, NEW full \in Nat, now \in Nat, b.tokens \in 0..full, b.updated \in 0..now
    PROVE  /\ Refill(b, full) \in 0..full
           /\ Refill(b, full) >= b.tokens
           /\ Refill(b, full) <= b.tokens + (now - b.updated)
           /\ Refill(b, full) = full \/ Refill(b, full) = b.tokens + (now - b.updated)
BY DEF Refill

\* A full bucket pays for at least one request.
LEMMA FullFacts ==
    /\ Capacity * Interval \in Nat /\ Capacity * Interval >= Interval
    /\ LookupCapacity * LookupInterval \in Nat /\ LookupCapacity * LookupInterval >= LookupInterval
<1>1. \A c, i \in Nat \ {0} : c * i \in Nat /\ c * i >= i
  OBVIOUS
<1> QED
  BY <1>1, LimiterAssumption

ChangeBucket == [tokens : 0..(Capacity * Interval), updated : 0..now, scope : Scopes]
LocalizeBucket == [tokens : 0..(LookupCapacity * LookupInterval), updated : 0..now]

\* Retry-After is never shorter than what is missing.
LEMMA RetryAfterFacts ==
    ASSUME NEW m \in Nat PROVE RetryAfter(m) \in Nat /\ RetryAfter(m) >= m
<1> DEFINE S == SecondUnits
           q == (m + S - 1) \div S
<1>1. S \in Nat \ {0} /\ m + S - 1 \in Nat
  BY LimiterAssumption
<1>2. \A a \in Nat, b \in Nat \ {0} : a \div b \in Nat /\ b * (a \div b) <= a /\ a < b * (a \div b) + b
  OBVIOUS
<1>3. q \in Nat /\ m + S - 1 < S * q + S
  BY <1>1, <1>2
<1>4. S * q \in Nat /\ q * S = S * q
  BY <1>1, <1>3
<1>5. RetryAfter(m) = q * S
  BY DEF RetryAfter
<1> HIDE DEF q
<1> QED
  BY <1>1, <1>3, <1>4, <1>5

\* The bucket a move is decided with.
LEMMA BucketFacts ==
    ASSUME TypeOK, NEW d \in DOMAIN change
    PROVE  /\ Bucket(d) \in ChangeBucket
           /\ Bucket(d).updated = now /\ Bucket(d).scope = change[d].scope
           /\ Bucket(d).tokens = Refill(change[d], Capacity * Interval)
           /\ Bucket(d).tokens <= change[d].tokens + (now - change[d].updated)
           /\ Bucket(d).tokens = Capacity * Interval
              \/ Bucket(d).tokens = change[d].tokens + (now - change[d].updated)
<1>1. change[d] \in ChangeBucket /\ now \in Nat
  BY DEF TypeOK, ChangeBucket
<1>2. change[d].tokens \in 0..(Capacity * Interval) /\ change[d].updated \in 0..now
  BY <1>1 DEF ChangeBucket
<1>3. /\ Refill(change[d], Capacity * Interval) \in 0..(Capacity * Interval)
      /\ Refill(change[d], Capacity * Interval) <= change[d].tokens + (now - change[d].updated)
      /\ Refill(change[d], Capacity * Interval) = Capacity * Interval
         \/ Refill(change[d], Capacity * Interval) = change[d].tokens + (now - change[d].updated)
  BY <1>1, <1>2, FullFacts, RefillFacts
<1>4. now \in 0..now
  BY <1>1
<1> QED
  BY <1>1, <1>3, <1>4 DEF Bucket, ChangeBucket

\* The refilled bucket of the lookups holds what it held and the time since, up
\* to its size.
LEMMA LookupBucketFacts ==
    ASSUME TypeOK, NEW d \in Devices
    PROVE  /\ LookupBucket(d) \in LocalizeBucket /\ LookupBucket(d).updated = now
           /\ d \in DOMAIN localize =>
                 /\ LookupBucket(d).tokens >= localize[d].tokens
                 /\ LookupBucket(d).tokens <= localize[d].tokens + (now - localize[d].updated)
           /\ d \notin DOMAIN localize => LookupBucket(d).tokens = LookupCapacity * LookupInterval
<1> DEFINE full == LookupCapacity * LookupInterval
           b == IF d \in DOMAIN localize THEN localize[d] ELSE [tokens |-> full, updated |-> now]
<1>1. now \in Nat /\ full \in Nat
  BY FullFacts DEF TypeOK
<1>2. b.tokens \in 0..full /\ b.updated \in 0..now
  BY <1>1 DEF TypeOK
<1>3. LookupBucket(d) = [tokens |-> Refill(b, full), updated |-> now]
  BY DEF LookupBucket
<1>4. d \notin DOMAIN localize => b.tokens = full
  OBVIOUS
<1>5. d \in DOMAIN localize => b = localize[d]
  OBVIOUS
<1> HIDE DEF b, full
<1>6. /\ Refill(b, full) \in 0..full /\ Refill(b, full) >= b.tokens
      /\ Refill(b, full) <= b.tokens + (now - b.updated)
  BY <1>1, <1>2, RefillFacts
<1>7. now \in 0..now
  BY <1>1
<1> QED
  BY <1>1, <1>2, <1>3, <1>4, <1>5, <1>6, <1>7 DEF LocalizeBucket, full

-----------------------------------------------------------------------------
(* A step of one request.                                                  *)

\* The state between two requests is a request's state.
LEMMA IdleType == Idle \in Request /\ Idle.pc = "idle" /\ Idle.lookup = "none" /\ RequestOK(Idle)
<1>1. (CHOOSE d \in Devices : TRUE) \in Devices /\ (CHOOSE s \in Scopes : TRUE) \in Scopes /\ 0 \in Runtimes
  BY LimiterAssumption DEF Runtimes
<1> QED
  BY <1>1 DEF Idle, Request, RequestOK

\* The slots follow the lookups.
LEMMA SlotMoves ==
    ASSUME TypeOK, SlotInv, NEW r \in Requests, NEW q \in Request, request' = [request EXCEPT ![r] = q],
           \/ (q.lookup \in Flying <=> request[r].lookup \in Flying) /\ slots' = slots
           \/ q.lookup \in Flying /\ request[r].lookup \notin Flying /\ slots < Concurrency /\ slots' = slots + 1
           \/ q.lookup \notin Flying /\ request[r].lookup \in Flying /\ slots' = slots - 1
    PROVE  SlotInv' /\ slots' \in 0..Concurrency
<1>1. request \in [Requests -> Request] /\ slots \in 0..Concurrency /\ Concurrency \in Nat
  BY LimiterAssumption DEF TypeOK
<1>2. LookupsInFlight' = IF q.lookup \in Flying THEN LookupsInFlight \cup {r} ELSE LookupsInFlight \ {r}
  BY <1>1 DEF LookupsInFlight, Flying
<1>3. r \in LookupsInFlight <=> request[r].lookup \in Flying
  BY DEF LookupsInFlight, Flying
<1>4. IsFiniteSet(LookupsInFlight) /\ slots = Cardinality(LookupsInFlight)
  BY DEF SlotInv
<1>5. CASE (q.lookup \in Flying <=> request[r].lookup \in Flying) /\ slots' = slots
  <2>1. LookupsInFlight' = LookupsInFlight
    BY <1>2, <1>3, <1>5
  <2> QED
    BY <1>1, <1>4, <1>5, <2>1 DEF SlotInv
<1>6. CASE q.lookup \in Flying /\ request[r].lookup \notin Flying /\ slots < Concurrency /\ slots' = slots + 1
  <2>1. LookupsInFlight' = LookupsInFlight \cup {r} /\ r \notin LookupsInFlight
    BY <1>2, <1>3, <1>6
  <2>2. IsFiniteSet(LookupsInFlight') /\ Cardinality(LookupsInFlight') = Cardinality(LookupsInFlight) + 1
    BY <1>4, <2>1, FS_AddElement
  <2> QED
    BY <1>1, <1>4, <1>6, <2>2 DEF SlotInv
<1>7. CASE q.lookup \notin Flying /\ request[r].lookup \in Flying /\ slots' = slots - 1
  <2>1. LookupsInFlight' = LookupsInFlight \ {r} /\ r \in LookupsInFlight
    BY <1>2, <1>3, <1>7
  <2>2. IsFiniteSet(LookupsInFlight') /\ Cardinality(LookupsInFlight') = Cardinality(LookupsInFlight) - 1
    BY <1>4, <2>1, FS_RemoveElement
  <2>3. Cardinality(LookupsInFlight') \in Nat
    BY <2>2, FS_CardinalityType
  <2> QED
    BY <1>1, <1>4, <1>7, <2>2, <2>3 DEF SlotInv
<1> QED
  BY <1>5, <1>6, <1>7

\* What a request may do: move on, put its device's bucket into a limiter,
\* take or give back a slot.
LEMMA RequestAction ==
    ASSUME BaseInv, NEW r \in Requests, NEW q \in Request, request' = [request EXCEPT ![r] = q], RequestOK(q),
           UNCHANGED <<now, server, writer>>,
           change' = change \/ (request[r].pc # "idle" /\ \E b \in ChangeBucket :
                                   change' = Put(change, request[r].device, b)),
           localize' = localize \/ (request[r].pc # "idle" /\ \E b \in LocalizeBucket :
                                       localize' = Put(localize, request[r].device, b)),
           \/ (q.lookup \in Flying <=> request[r].lookup \in Flying) /\ slots' = slots
           \/ q.lookup \in Flying /\ request[r].lookup \notin Flying /\ slots < Concurrency /\ slots' = slots + 1
           \/ q.lookup \notin Flying /\ request[r].lookup \in Flying /\ slots' = slots - 1,
           moves' \in [Devices -> Seq(Nat)], lookups' \in [Devices -> Seq(Nat)], promised' \in [Devices -> Int]
    PROVE  BaseInv'
<1> DEFINE d == request[r].device
<1>1. TypeOK /\ SlotInv /\ RuntimeInv /\ SavedInv /\ DomainInv /\ request \in [Requests -> Request] /\ d \in Devices
  BY DEF BaseInv, TypeOK, Request
<1>2. SlotInv' /\ slots' \in 0..Concurrency
  BY <1>1, SlotMoves
<1>3. (\A x \in Requests : RequestOK(request[x]))' /\ request' \in [Requests -> Request]
  BY <1>1 DEF BaseInv, RequestOK, server
<1>4. request[r].pc # "idle" => d \in active
  BY DEF BaseInv, RequestOK
<1>5. /\ DOMAIN change' \subseteq DOMAIN change \cup (active \cap {d})
      /\ \A e \in DOMAIN change' : change'[e] \in ChangeBucket
  <2>1. CASE change' = change
    BY <1>1, <2>1 DEF TypeOK, ChangeBucket
  <2>2. ASSUME request[r].pc # "idle", NEW b \in ChangeBucket, change' = Put(change, d, b)
        PROVE  /\ DOMAIN change' \subseteq DOMAIN change \cup (active \cap {d})
               /\ \A e \in DOMAIN change' : change'[e] \in ChangeBucket
    <3>1. \A e \in DOMAIN change : change[e] \in ChangeBucket
      BY <1>1 DEF TypeOK, ChangeBucket
    <3>2. /\ DOMAIN change' = DOMAIN change \cup {d} /\ change'[d] = b
          /\ \A j \in DOMAIN change : j # d => change'[j] = change[j]
      BY <2>2 DEF Put
    <3>3. d \in active
      BY <1>4, <2>2
    <3> HIDE DEF d
    <3> QED
      BY <2>2, <3>1, <3>2, <3>3
  <2> QED
    BY <2>1, <2>2
<1>6. /\ DOMAIN localize' \subseteq DOMAIN localize \cup (active \cap {d})
      /\ \A e \in DOMAIN localize' : localize'[e] \in LocalizeBucket
  <2>1. CASE localize' = localize
    BY <1>1, <2>1 DEF TypeOK, LocalizeBucket
  <2>2. ASSUME request[r].pc # "idle", NEW b \in LocalizeBucket, localize' = Put(localize, d, b)
        PROVE  /\ DOMAIN localize' \subseteq DOMAIN localize \cup (active \cap {d})
               /\ \A e \in DOMAIN localize' : localize'[e] \in LocalizeBucket
    <3>1. \A e \in DOMAIN localize : localize[e] \in LocalizeBucket
      BY <1>1 DEF TypeOK, LocalizeBucket
    <3>2. /\ DOMAIN localize' = DOMAIN localize \cup {d} /\ localize'[d] = b
          /\ \A j \in DOMAIN localize : j # d => localize'[j] = localize[j]
      BY <2>2 DEF Put
    <3>3. d \in active
      BY <1>4, <2>2
    <3> HIDE DEF d
    <3> QED
      BY <2>2, <3>1, <3>2, <3>3
  <2> QED
    BY <2>1, <2>2
<1> HIDE DEF d
<1>7. TypeOK'
  BY <1>1, <1>2, <1>3, <1>5, <1>6 DEF TypeOK, ChangeBucket, LocalizeBucket, server
<1>8. RuntimeInv' /\ SavedInv'
  <2>1. RuntimeInv'
    BY <1>1 DEF RuntimeInv, server
  <2>2. OrderInv => OrderInv'
    BY <1>5, <1>6 DEF OrderInv, server
  <2> QED
    BY <1>1, <2>1, <2>2 DEF SavedInv, server
<1>9. DomainInv'
  BY <1>1, <1>5, <1>6 DEF DomainInv, server
<1> QED
  BY <1>2, <1>3, <1>7, <1>8, <1>9 DEF BaseInv

\* A request arrives, and steps of the handler that touch no limiter.
LEMMA HandlerBase ==
    ASSUME BaseInv, NEW r \in Requests,
           \/ \E d \in Devices, s \in Scopes : Begin(r, d, s)
           \/ \E d \in Devices : BeginLocation(r, d)
           \/ AllowSame(r) \/ GetReturns(r) \/ JoinLookup(r)
    PROVE  BaseInv'
<1>1. /\ request \in [Requests -> Request] /\ RequestOK(request[r]) /\ routed \in Runtimes
      /\ moves \in [Devices -> Seq(Nat)] /\ lookups \in [Devices -> Seq(Nat)] /\ promised \in [Devices -> Int]
  BY DEF BaseInv, TypeOK
<1>2. UNCHANGED <<now, server, writer, change, localize, slots, moves, lookups, promised>>
  BY DEF Begin, BeginLocation, AllowSame, GetReturns, JoinLookup, limiters, history
<1>3. \E q \in Request : /\ request' = [request EXCEPT ![r] = q] /\ RequestOK(q)
                         /\ q.lookup \in Flying <=> request[r].lookup \in Flying
  <2>1. ASSUME NEW d \in Devices, NEW s \in Scopes, Begin(r, d, s)
        PROVE  \E q \in Request : /\ request' = [request EXCEPT ![r] = q] /\ RequestOK(q)
                                  /\ q.lookup \in Flying <=> request[r].lookup \in Flying
    <3> DEFINE q == [pc |-> "allow", device |-> d, scope |-> s, runtime |-> routed, lookup |-> "none"]
    <3>1. q \in Request /\ RequestOK(q) /\ q.lookup \notin Flying /\ request[r].lookup \notin Flying
      BY <1>1, <2>1 DEF Begin, Request, RequestOK, Flying
    <3>2. request' = [request EXCEPT ![r] = q]
      BY <2>1 DEF Begin
    <3> QED
      BY <3>1, <3>2
  <2>2. ASSUME NEW d \in Devices, BeginLocation(r, d)
        PROVE  \E q \in Request : /\ request' = [request EXCEPT ![r] = q] /\ RequestOK(q)
                                  /\ q.lookup \in Flying <=> request[r].lookup \in Flying
    <3> DEFINE q == [Idle EXCEPT !.pc = "fetched", !.device = d, !.runtime = routed, !.lookup = "start"]
    <3>1. q \in Request /\ RequestOK(q) /\ q.lookup \notin Flying /\ request[r].lookup \notin Flying
      BY <1>1, <2>2, IdleType DEF BeginLocation, Request, RequestOK, Flying
    <3>2. request' = [request EXCEPT ![r] = q]
      BY <2>2 DEF BeginLocation
    <3> QED
      BY <3>1, <3>2
  <2>3. CASE AllowSame(r)
    <3> DEFINE q == [request[r] EXCEPT !.pc = "get", !.lookup = "start"]
    <3>1. q \in Request /\ RequestOK(q) /\ q.lookup \notin Flying /\ request[r].lookup \notin Flying
      BY <1>1, <2>3 DEF AllowSame, Request, RequestOK, Flying
    <3>2. request' = [request EXCEPT ![r] = q]
      BY <2>3 DEF AllowSame, Serve
    <3> QED
      BY <3>1, <3>2
  <2>4. CASE GetReturns(r)
    <3>1. PICK pc \in {"failed", "fetched"} : Goto(r, pc)
      BY <2>4 DEF GetReturns
    <3> DEFINE q == [request[r] EXCEPT !.pc = pc]
    <3>2. q \in Request /\ RequestOK(q) /\ q.lookup = request[r].lookup
      BY <1>1, <2>4 DEF GetReturns, Request, RequestOK
    <3>3. request' = [request EXCEPT ![r] = q]
      BY <3>1 DEF Goto
    <3> QED
      BY <3>2, <3>3
  <2>5. CASE JoinLookup(r)
    BY <2>5, IdleType DEF JoinLookup, Return, Flying
  <2> QED
    BY <2>1, <2>2, <2>3, <2>4, <2>5
<1> QED
  BY <1>1, <1>2, <1>3, RequestAction

\* ChangeLimiter.Allow.
LEMMA AllowFacts ==
    ASSUME BaseInv, NEW r \in Requests, AllowFirst(r) \/ AllowMove(r) \/ RefuseMove(r)
    PROVE  /\ request[r].pc = "allow" /\ request[r].device \in active
           /\ UNCHANGED <<now, server, writer, localize, slots, lookups>>
           /\ \E q \in Request : /\ request' = [request EXCEPT ![r] = q] /\ RequestOK(q)
                                 /\ q.lookup \notin Flying /\ request[r].lookup \notin Flying
<1>1. request \in [Requests -> Request] /\ RequestOK(request[r]) /\ request[r].pc = "allow"
  BY DEF BaseInv, TypeOK, AllowFirst, AllowMove, RefuseMove
<1>2. request[r].device \in active
  BY <1>1 DEF RequestOK
<1>3. UNCHANGED <<now, server, writer, localize, slots, lookups>>
  BY DEF AllowFirst, AllowMove, RefuseMove, history
<1>4. CASE AllowFirst(r) \/ AllowMove(r)
  <2> DEFINE q == [request[r] EXCEPT !.pc = "get", !.lookup = "start"]
  <2>1. q \in Request /\ RequestOK(q) /\ q.lookup \notin Flying /\ request[r].lookup \notin Flying
    BY <1>1 DEF Request, RequestOK, Flying
  <2>2. request' = [request EXCEPT ![r] = q]
    BY <1>4 DEF AllowFirst, AllowMove, Serve
  <2> HIDE DEF q
  <2> QED
    BY <1>1, <1>2, <1>3, <2>1, <2>2
<1>5. CASE RefuseMove(r)
  <2>1. request' = [request EXCEPT ![r] = Idle]
    BY <1>5 DEF RefuseMove, Return
  <2>2. request[r].lookup \notin Flying /\ Idle.lookup \notin Flying
    BY <1>1, IdleType DEF RequestOK, Flying
  <2> QED
    BY <1>1, <1>2, <1>3, <2>1, <2>2, IdleType
<1> QED
  BY <1>4, <1>5

\* What each outcome of Allow does to the bucket and to the history.
LEMMA AllowFirstFacts ==
    ASSUME BaseInv, NEW r \in Requests, AllowFirst(r)
    PROVE  LET d == request[r].device
               b == [tokens |-> Capacity * Interval, updated |-> now, scope |-> request[r].scope]
           IN  /\ d \notin DOMAIN change /\ b \in ChangeBucket /\ change' = Put(change, d, b)
               /\ UNCHANGED <<moves, promised>>
<1>1. now \in 0..now /\ Capacity * Interval \in 0..(Capacity * Interval) /\ request[r].scope \in Scopes
  BY FullFacts DEF BaseInv, TypeOK, Request
<1> QED
  BY <1>1 DEF AllowFirst, ChangeBucket, history

\* An admitted change of place pays with one interval and is recorded.
LEMMA AllowMoveFacts ==
    ASSUME BaseInv, NEW r \in Requests, AllowMove(r)
    PROVE  LET d == request[r].device
               b == [Bucket(d) EXCEPT !.tokens = @ - Interval, !.scope = request[r].scope]
           IN  /\ d \in DOMAIN change /\ b \in ChangeBucket /\ change' = Put(change, d, b)
               /\ b.tokens = Bucket(d).tokens - Interval /\ b.updated = now
               /\ moves' = [moves EXCEPT ![d] = Append(@, now)]
               /\ promised' = [promised EXCEPT ![d] = -1]
<1> DEFINE d == request[r].device
<1>1. d \in DOMAIN change /\ Bucket(d).tokens >= Interval /\ request[r].scope \in Scopes
  BY DEF AllowMove, BaseInv, TypeOK, Request
<1>2. Bucket(d) \in ChangeBucket /\ Bucket(d).updated = now
  BY <1>1, BucketFacts DEF BaseInv
<1>3. Bucket(d).tokens - Interval \in 0..(Capacity * Interval)
  BY <1>1, <1>2, LimiterAssumption, FullFacts DEF ChangeBucket
<1> HIDE DEF d
<1>4. LET b == [Bucket(d) EXCEPT !.tokens = @ - Interval, !.scope = request[r].scope]
      IN  b \in ChangeBucket /\ b.tokens = Bucket(d).tokens - Interval /\ b.updated = now
  BY <1>1, <1>2, <1>3 DEF ChangeBucket
<1> QED
  BY <1>1, <1>4 DEF AllowMove, d

\* A refused change of place pays nothing and is told when to come again.
LEMMA RefuseMoveFacts ==
    ASSUME BaseInv, NEW r \in Requests, RefuseMove(r)
    PROVE  LET d == request[r].device
           IN  /\ d \in DOMAIN change /\ change' = Put(change, d, Bucket(d)) /\ Bucket(d) \in ChangeBucket
               /\ Bucket(d).updated = now /\ Bucket(d).tokens < Interval
               /\ Interval - Bucket(d).tokens \in Nat
               /\ promised' = [promised EXCEPT ![d] = now + RetryAfter(Interval - Bucket(d).tokens)]
               /\ UNCHANGED moves
<1> DEFINE d == request[r].device
<1>1. d \in DOMAIN change /\ Bucket(d).tokens < Interval
  BY DEF RefuseMove
<1>2. Bucket(d) \in ChangeBucket /\ Bucket(d).updated = now
  BY <1>1, BucketFacts DEF BaseInv
<1>3. Bucket(d).tokens \in Nat
  BY <1>2, FullFacts DEF ChangeBucket
<1>4. Interval - Bucket(d).tokens \in Nat
  BY <1>1, <1>3, LimiterAssumption
<1> QED
  BY <1>1, <1>2, <1>4 DEF RefuseMove

\* The limiter of changes: its map grows by devices that are served, and its
\* bucket keeps its type.
LEMMA AllowBase ==
    ASSUME BaseInv, NEW r \in Requests, AllowFirst(r) \/ AllowMove(r) \/ RefuseMove(r)
    PROVE  BaseInv'
<1> DEFINE d == request[r].device
<1>1. PICK q \in Request : /\ request' = [request EXCEPT ![r] = q] /\ RequestOK(q)
                           /\ q.lookup \notin Flying /\ request[r].lookup \notin Flying
  BY AllowFacts
<1>2. /\ request[r].pc # "idle" /\ d \in Devices
      /\ UNCHANGED <<now, server, writer, localize, slots, lookups>>
  BY AllowFacts DEF BaseInv, TypeOK
<1>3. now \in Nat /\ moves \in [Devices -> Seq(Nat)] /\ lookups \in [Devices -> Seq(Nat)]
      /\ promised \in [Devices -> Int]
  BY DEF BaseInv, TypeOK
<1>4. \E b \in ChangeBucket : change' = Put(change, d, b)
  BY AllowFirstFacts, AllowMoveFacts, RefuseMoveFacts
<1>5. moves' \in [Devices -> Seq(Nat)]
  <2>1. CASE moves' = moves
    BY <1>3, <2>1
  <2>2. CASE moves' = [moves EXCEPT ![d] = Append(@, now)]
    BY <1>2, <1>3, <2>2
  <2> QED
    BY <2>1, <2>2, AllowFirstFacts, AllowMoveFacts, RefuseMoveFacts
<1>6. promised' \in [Devices -> Int]
  <2>1. CASE AllowFirst(r)
    BY <1>3, <2>1, AllowFirstFacts
  <2>2. CASE AllowMove(r)
    <3>1. promised' = [promised EXCEPT ![d] = -1]
      BY <2>2 DEF AllowMove
    <3>2. -1 \in Int
      OBVIOUS
    <3> QED
      BY <1>3, <3>1, <3>2
  <2>3. CASE RefuseMove(r)
    <3>1. now + RetryAfter(Interval - Bucket(d).tokens) \in Int
      BY <1>3, <2>3, RefuseMoveFacts, RetryAfterFacts
    <3> QED
      BY <1>3, <2>3, <3>1, RefuseMoveFacts
  <2> QED
    BY <2>1, <2>2, <2>3
<1> QED
  BY <1>1, <1>2, <1>3, <1>4, <1>5, <1>6, RequestAction

\* localizeAttempt and LocalizeLimiter.Try.
LEMMA LookupMoves ==
    ASSUME BaseInv, NEW r \in Requests, request[r].lookup # "none",
           NEW step \in {"slot", "running", "giveback", "done"}, Lookup(r, step)
    PROVE  \E q \in Request : request' = [request EXCEPT ![r] = q] /\ RequestOK(q) /\ q.lookup = step
<1> DEFINE q == [request[r] EXCEPT !.lookup = step]
<1>1. request[r] \in Request /\ RequestOK(request[r])
  BY DEF BaseInv, TypeOK
<1>2. q \in Request /\ RequestOK(q) /\ q.lookup = step
  BY <1>1 DEF Request, RequestOK
<1>3. request' = [request EXCEPT ![r] = q]
  BY DEF Lookup
<1> QED
  BY <1>2, <1>3

\* A lookup that takes its budget pays one interval, or is refused and pays
\* nothing.
LEMMA TryBudgetFacts ==
    ASSUME BaseInv, NEW r \in Requests, TryBudget(r)
    PROVE  LET d == request[r].device  full == LookupBucket(d) IN
           /\ request[r].lookup = "slot" /\ request[r].pc # "idle" /\ d \in active
           /\ full \in LocalizeBucket
           /\ UNCHANGED <<now, server, change, slots, writer, moves, promised>>
           /\ \/ /\ full.tokens >= LookupInterval
                 /\ LET b == [full EXCEPT !.tokens = @ - LookupInterval]
                    IN  /\ b \in LocalizeBucket /\ b.tokens = full.tokens - LookupInterval /\ b.updated = now
                        /\ localize' = Put(localize, d, b)
                 /\ lookups' = [lookups EXCEPT ![d] = Append(@, now)]
                 /\ Lookup(r, "running")
              \/ localize' = Put(localize, d, full) /\ lookups' = lookups /\ Lookup(r, "giveback")
<1> DEFINE d == request[r].device
           full == LookupBucket(d)
<1>1. request[r] \in Request /\ RequestOK(request[r]) /\ request[r].lookup = "slot"
  BY DEF BaseInv, TypeOK, TryBudget
<1>2. request[r].pc # "idle" /\ d \in active /\ d \in Devices
  BY <1>1 DEF RequestOK, Request
<1>3. full \in LocalizeBucket /\ full.updated = now
  BY <1>2, LookupBucketFacts DEF BaseInv
<1>4. UNCHANGED <<now, server, change, slots, writer, moves, promised>>
  BY DEF TryBudget
<1>5. \/ /\ full.tokens >= LookupInterval
         /\ localize' = Put(localize, d, [full EXCEPT !.tokens = @ - LookupInterval])
         /\ lookups' = [lookups EXCEPT ![d] = Append(@, now)]
         /\ Lookup(r, "running")
      \/ localize' = Put(localize, d, full) /\ lookups' = lookups /\ Lookup(r, "giveback")
  BY DEF TryBudget
<1>6. full.tokens >= LookupInterval =>
         LET b == [full EXCEPT !.tokens = @ - LookupInterval]
         IN  b \in LocalizeBucket /\ b.tokens = full.tokens - LookupInterval /\ b.updated = now
  <2> SUFFICES ASSUME full.tokens >= LookupInterval
               PROVE  LET b == [full EXCEPT !.tokens = @ - LookupInterval]
                      IN  b \in LocalizeBucket /\ b.tokens = full.tokens - LookupInterval /\ b.updated = now
    OBVIOUS
  <2> HIDE DEF full
  <2>1. full.tokens - LookupInterval \in 0..(LookupCapacity * LookupInterval)
    BY <1>3, LimiterAssumption, FullFacts DEF LocalizeBucket
  <2> QED
    BY <1>3, <2>1 DEF LocalizeBucket
<1> HIDE DEF d, full
<1>7. \/ /\ full.tokens >= LookupInterval
         /\ LET b == [full EXCEPT !.tokens = @ - LookupInterval]
            IN  /\ b \in LocalizeBucket /\ b.tokens = full.tokens - LookupInterval /\ b.updated = now
                /\ localize' = Put(localize, d, b)
         /\ lookups' = [lookups EXCEPT ![d] = Append(@, now)]
         /\ Lookup(r, "running")
      \/ localize' = Put(localize, d, full) /\ lookups' = lookups /\ Lookup(r, "giveback")
  BY <1>5, <1>6
<1> QED
  BY <1>1, <1>2, <1>3, <1>4, <1>7 DEF d, full

\* A lookup takes one slot and gives one back.
LEMMA LookupsBase == ASSUME BaseInv, NEW r \in Requests, Lookups(r) PROVE BaseInv'
<1>1. now \in Nat /\ moves \in [Devices -> Seq(Nat)] /\ lookups \in [Devices -> Seq(Nat)]
      /\ promised \in [Devices -> Int]
  BY DEF BaseInv, TypeOK
<1>2. CASE TrySlot(r) \/ EndLookup(r)
  <2>1. UNCHANGED <<now, server, change, localize, writer, moves, lookups, promised>>
      /\ request[r].lookup # "none"
    BY <1>2 DEF TrySlot, EndLookup, history
  <2>2. \/ Lookup(r, "slot") /\ slots < Concurrency /\ slots' = slots + 1 /\ request[r].lookup = "start"
        \/ Lookup(r, "done") /\ slots' = slots /\ request[r].lookup = "start"
        \/ Lookup(r, "done") /\ slots' = slots - 1 /\ request[r].lookup \in {"running", "giveback"}
    BY <1>2 DEF TrySlot, EndLookup
  <2>3. CASE Lookup(r, "slot") /\ slots < Concurrency /\ slots' = slots + 1 /\ request[r].lookup = "start"
    <3>1. PICK q \in Request : request' = [request EXCEPT ![r] = q] /\ RequestOK(q) /\ q.lookup = "slot"
      BY <2>1, <2>3, LookupMoves
    <3> QED
      BY <1>1, <2>1, <2>3, <3>1, RequestAction DEF Flying
  <2>4. CASE Lookup(r, "done") /\ slots' = slots /\ request[r].lookup = "start"
    <3>1. PICK q \in Request : request' = [request EXCEPT ![r] = q] /\ RequestOK(q) /\ q.lookup = "done"
      BY <2>1, <2>4, LookupMoves
    <3> QED
      BY <1>1, <2>1, <2>4, <3>1, RequestAction DEF Flying
  <2>5. CASE Lookup(r, "done") /\ slots' = slots - 1 /\ request[r].lookup \in {"running", "giveback"}
    <3>1. PICK q \in Request : request' = [request EXCEPT ![r] = q] /\ RequestOK(q) /\ q.lookup = "done"
      BY <2>1, <2>5, LookupMoves
    <3> QED
      BY <1>1, <2>1, <2>5, <3>1, RequestAction DEF Flying
  <2> QED
    BY <2>2, <2>3, <2>4, <2>5
<1>3. CASE TryBudget(r)
  <2> DEFINE d == request[r].device
  <2>1. /\ request[r].lookup = "slot" /\ request[r].pc # "idle"
        /\ UNCHANGED <<now, server, change, slots, writer, moves, promised>>
    BY <1>3, TryBudgetFacts
  <2>2. /\ \E b \in LocalizeBucket : localize' = Put(localize, d, b)
        /\ lookups' = lookups \/ lookups' = [lookups EXCEPT ![d] = Append(@, now)]
        /\ Lookup(r, "running") \/ Lookup(r, "giveback")
    BY <1>3, TryBudgetFacts
  <2>3. lookups' \in [Devices -> Seq(Nat)]
    <3>1. CASE lookups' = lookups
      BY <1>1, <3>1
    <3>2. CASE lookups' = [lookups EXCEPT ![d] = Append(@, now)]
      <4>1. d \in Devices
        BY DEF BaseInv, TypeOK, Request
      <4> HIDE DEF d
      <4> QED
        BY <1>1, <3>2, <4>1
    <3> QED
      BY <2>2, <3>1, <3>2
  <2>4. PICK q \in Request : request' = [request EXCEPT ![r] = q] /\ RequestOK(q)
                             /\ q.lookup \in {"running", "giveback"}
    BY <2>1, <2>2, LookupMoves
  <2>5. q.lookup \in Flying <=> request[r].lookup \in Flying
    BY <2>1, <2>4 DEF Flying
  <2> QED
    BY <1>1, <2>1, <2>2, <2>3, <2>4, <2>5, RequestAction
<1> QED
  BY <1>2, <1>3 DEF Lookups

-----------------------------------------------------------------------------
(* The change, and time.                                                   *)

\* The step of one writer leaves the other's state alone.
LEMMA WriterFacts ==
    ASSUME BaseInv, NEW w \in Writers, NEW l \in Writer, writer' = [writer EXCEPT ![w] = l]
    PROVE  writer' \in [Writers -> Writer] /\ writer'[w] = l /\ \A x \in Writers \ {w} : writer'[x] = writer[x]
BY DEF BaseInv, TypeOK, Writers

\* A change in a later step of its activation.
LEMMA StepFacts ==
    ASSUME BaseInv, NEW w \in Writers,
           NEW pc \in {"pending", "idle", "prepared", "lock", "retain", "retainLookups", "close"}, Step(w, pc)
    PROVE  /\ writer' \in [Writers -> Writer] /\ \A x \in Writers \ {w} : writer'[x] = writer[x]
           /\ writer'[w].pc = pc /\ writer'[w].tokens = writer[w].tokens /\ writer'[w].swap = writer[w].swap
           /\ writer'[w].target = writer[w].target /\ writer'[w].previous = writer[w].previous
<1> DEFINE l == [writer[w] EXCEPT !.pc = pc]
<1>1. writer[w] \in Writer
  BY DEF BaseInv, TypeOK, Writers
<1>2. /\ l \in Writer /\ l.pc = pc /\ l.tokens = writer[w].tokens /\ l.swap = writer[w].swap
      /\ l.target = writer[w].target /\ l.previous = writer[w].previous
  BY <1>1 DEF Writer
<1>3. writer' = [writer EXCEPT ![w] = l]
  BY DEF Step
<1> HIDE DEF l
<1> QED
  BY <1>2, <1>3, WriterFacts

\* A change that is over.
LEMMA NoChangeFacts == NoChange \in Writer /\ NoChange.pc = "idle" /\ NoChange.tokens = {} /\ NoChange.swap = FALSE
BY LimiterAssumption DEF NoChange, Writer, Runtimes

\* What the requests have and hold while the credentials stay.
LEMMA ServedSame ==
    ASSUME BaseInv, UNCHANGED <<active, routed, slots, request>>
    PROVE  SlotInv' /\ \A r \in Requests : RequestOK(request[r])'
BY DEF BaseInv, SlotInv, LookupsInFlight, RequestOK

\* The setup commits its state: nobody is served yet.
LEMMA SetupBase == ASSUME BaseInv, NEW tokens \in SUBSET Devices, PrepareSetup(tokens) PROVE BaseInv'
<1> DEFINE l == [NoChange EXCEPT !.pc = "prepared", !.tokens = tokens, !.swap = TRUE, !.target = built + 1]
<1>1. /\ TypeOK /\ RuntimeInv /\ SavedInv /\ DomainInv 
      /\ built < MaxRuntimes /\ built' = built + 1
      /\ writer["setup"].pc = "pending" /\ saved' = tokens
      /\ UNCHANGED <<now, active, routed, runtime, closed, revoked, overtaken, limiters, request, history>>
  BY DEF BaseInv, PrepareSetup
<1>0. built \in Nat /\ built' \in Runtimes
  BY <1>1, LimiterAssumption DEF TypeOK, Runtimes
<1>2. /\ l \in Writer /\ l.pc = "prepared" /\ l.tokens = tokens /\ l.swap = TRUE /\ l.target = built'
  BY <1>0, <1>1, NoChangeFacts DEF Writer
<1>3. writer' = [writer EXCEPT !["setup"] = l]
  BY DEF PrepareSetup
<1> HIDE DEF l
<1>4. writer' \in [Writers -> Writer] /\ writer'["setup"] = l /\ writer'["change"] = writer["change"]
  BY <1>2, <1>3, WriterFacts DEF Writers
<1>5. writer["change"].pc = "idle" /\ saved = {} /\ active = {} /\ revoked = {}
  BY <1>1 DEF SavedInv
<1>6. TypeOK'
  BY <1>0, <1>1, <1>4 DEF TypeOK, limiters, history, Writers
<1>7. RuntimeInv'
  BY <1>0, <1>1, <1>2, <1>4, <1>5 DEF RuntimeInv, Writers, Coming, Leaving, Installs, Replaces
<1>8. SavedInv'
  BY <1>0, <1>1, <1>2, <1>4, <1>5 DEF SavedInv, OrderInv, Writers, Coming, Leaving, limiters
<1>9. DomainInv'
  BY <1>0, <1>1, <1>2, <1>4 DEF DomainInv, Writers, limiters
<1> QED
  BY <1>0, <1>1, <1>6, <1>7, <1>8, <1>9, ServedSame DEF BaseInv, limiters

\* A change of the tokens is saved: the devices it drops are served until it
\* is activated.
LEMMA TokensBase == ASSUME BaseInv, NEW tokens \in SUBSET Devices, PrepareTokens(tokens) PROVE BaseInv'
<1> DEFINE l == [NoChange EXCEPT !.pc = "prepared", !.tokens = tokens, !.target = runtime]
<1>1. /\ TypeOK /\ RuntimeInv /\ SavedInv /\ DomainInv
      /\ writer["change"].pc = "idle" /\ writer["setup"].pc # "pending" /\ saved' = tokens
      /\ revoked' = revoked \cup (saved \ tokens) /\ tokens \cap revoked = {}
      /\ overtaken' = (overtaken \/ writer["setup"].pc # "idle")
      /\ UNCHANGED <<now, active, routed, runtime, built, closed, limiters, request, history>>
  BY DEF BaseInv, PrepareTokens, SavedInv
<1>2. /\ l \in Writer /\ l.pc = "prepared" /\ l.tokens = tokens /\ l.swap = FALSE /\ l.target = runtime
  BY <1>1, NoChangeFacts DEF Writer, TypeOK
<1>3. writer' = [writer EXCEPT !["change"] = l]
  BY DEF PrepareTokens
<1> HIDE DEF l
<1>4. writer' \in [Writers -> Writer] /\ writer'["change"] = l /\ writer'["setup"] = writer["setup"]
  BY <1>2, <1>3, WriterFacts DEF Writers
<1>5. TypeOK'
  BY <1>1, <1>4 DEF TypeOK, limiters, history, Writers
<1>6. RuntimeInv'
  BY <1>1, <1>2, <1>4 DEF RuntimeInv, Writers, Coming, Leaving, Installs, Replaces
<1>7. SavedInv'
  BY <1>1, <1>2, <1>4 DEF SavedInv, OrderInv, Writers, Coming, Leaving, limiters, TypeOK
<1>8. DomainInv'
  BY <1>1, <1>2, <1>4 DEF DomainInv, Writers, limiters
<1> QED
  BY <1>1, <1>5, <1>6, <1>7, <1>8, ServedSame DEF BaseInv, limiters

\* A runtime is built for other settings: no other has its number.
LEMMA RuntimeBase == ASSUME BaseInv, PrepareRuntime PROVE BaseInv'
<1> DEFINE l == [NoChange EXCEPT !.pc = "prepared", !.tokens = saved, !.swap = TRUE, !.target = built + 1]
<1>1. /\ TypeOK /\ RuntimeInv /\ SavedInv /\ DomainInv 
      /\ built < MaxRuntimes /\ built' = built + 1
      /\ writer["change"].pc = "idle" /\ writer["setup"].pc # "pending"
      /\ overtaken' = (overtaken \/ writer["setup"].pc # "idle")
      /\ UNCHANGED <<now, active, routed, runtime, closed, saved, revoked, limiters, request, history>>
  BY DEF BaseInv, PrepareRuntime
<1>0. built \in Nat /\ built' \in Runtimes
  BY <1>1, LimiterAssumption DEF TypeOK, Runtimes
<1>2. /\ l \in Writer /\ l.pc = "prepared" /\ l.tokens = saved /\ l.swap = TRUE /\ l.target = built'
  BY <1>0, <1>1, NoChangeFacts DEF Writer, TypeOK
<1>3. writer' = [writer EXCEPT !["change"] = l]
  BY DEF PrepareRuntime
<1> HIDE DEF l
<1>4. writer' \in [Writers -> Writer] /\ writer'["change"] = l /\ writer'["setup"] = writer["setup"]
  BY <1>2, <1>3, WriterFacts DEF Writers
<1>5. TypeOK'
  BY <1>0, <1>1, <1>4 DEF TypeOK, limiters, history, Writers
<1>6. RuntimeInv'
  BY <1>0, <1>1, <1>2, <1>4 DEF RuntimeInv, Writers, Coming, Leaving, Installs, Replaces
<1>7. SavedInv'
  BY <1>0, <1>1, <1>2, <1>4 DEF SavedInv, OrderInv, Writers, Coming, Leaving, limiters, TypeOK
<1>8. DomainInv'
  BY <1>0, <1>1, <1>2, <1>4 DEF DomainInv, Writers, limiters
<1> QED
  BY <1>0, <1>1, <1>5, <1>6, <1>7, <1>8, ServedSame DEF BaseInv, limiters

\* A writer waits for the readers.
LEMMA LockBase == ASSUME BaseInv, NEW w \in Writers, Lock(w) PROVE BaseInv'
<1>1. /\ TypeOK /\ RuntimeInv /\ SavedInv /\ DomainInv /\ writer[w].pc = "prepared" /\ Step(w, "lock")
      /\ UNCHANGED <<now, server, limiters, request, history>>
  BY DEF BaseInv, Lock
<1>2. /\ writer' \in [Writers -> Writer] /\ \A x \in Writers \ {w} : writer'[x] = writer[x]
      /\ writer'[w].pc = "lock" /\ writer'[w].tokens = writer[w].tokens /\ writer'[w].swap = writer[w].swap
      /\ writer'[w].target = writer[w].target /\ writer'[w].previous = writer[w].previous
  BY <1>1, StepFacts
<1>3. TypeOK'
  BY <1>1, <1>2 DEF TypeOK, server, limiters, history, Writers
<1>4. RuntimeInv'
  BY <1>1, <1>2 DEF RuntimeInv, Writers, Coming, Leaving, Installs, Replaces, server
<1>5. SavedInv'
  BY <1>1, <1>2 DEF SavedInv, OrderInv, Writers, Coming, Leaving, server, limiters
<1>6. DomainInv'
  BY <1>1, <1>2 DEF DomainInv, Writers, server, limiters
<1> QED
  BY <1>1, <1>3, <1>4, <1>5, <1>6, ServedSame DEF BaseInv, server, limiters

\* The handler is replaced, and with it perhaps the runtime, while nobody is
\* served.
LEMMA ActivateBase == ASSUME BaseInv, NEW w \in Writers, Activate(w) PROVE BaseInv'
<1> DEFINE l == [writer[w] EXCEPT !.pc = "retain", !.previous = runtime]
<1>1. /\ TypeOK /\ SlotInv /\ RuntimeInv /\ SavedInv /\ DomainInv
      /\ writer[w].pc = "lock" /\ \A r \in Requests : request[r].pc = "idle" /\ RequestOK(request[r])
      /\ active' = writer[w].tokens /\ routed' = writer[w].target
      /\ runtime' = IF writer[w].swap THEN writer[w].target ELSE runtime
      /\ UNCHANGED <<now, built, closed, saved, revoked, overtaken, limiters, request, history>>
  BY DEF BaseInv, Activate
<1>2. writer[w] \in Writer /\ runtime \in Runtimes
  BY <1>1 DEF TypeOK, Writers
<1>3. /\ l \in Writer /\ l.pc = "retain" /\ l.previous = runtime /\ l.tokens = writer[w].tokens
      /\ l.swap = writer[w].swap /\ l.target = writer[w].target
  BY <1>2 DEF Writer
<1>4. writer' = [writer EXCEPT ![w] = l]
  BY DEF Activate
<1> HIDE DEF l
<1>5. writer' \in [Writers -> Writer] /\ writer'[w] = l /\ \A x \in Writers \ {w} : writer'[x] = writer[x]
  BY <1>3, <1>4, WriterFacts
<1>6. TypeOK'
  BY <1>1, <1>2, <1>5 DEF TypeOK, limiters, history, Writers, Writer
<1>7. RuntimeInv'
  <2>1. writer[w].target \in 0..built /\ (writer[w].swap => writer[w].target \notin closed \cup {runtime})
    BY <1>1 DEF RuntimeInv, Coming, Installs
  <2>2. {runtime', routed'} \cup closed' \subseteq 0..built' /\ runtime' \notin closed'
    BY <1>1, <2>1 DEF RuntimeInv
  <2>3. ASSUME NEW x \in Writers
        PROVE  /\ Coming(writer[x])' => writer'[x].target \in 0..built'
               /\ (writer[x].pc = "close")' => writer'[x].swap
               /\ Installs(writer[x])' => x # w /\ writer'[x] = writer[x] /\ Installs(writer[x])
               /\ Replaces(writer[x])' => \/ x = w /\ writer'[x].previous = runtime /\ runtime' = writer[w].target
                                             /\ Installs(writer[w])
                                          \/ x # w /\ writer'[x] = writer[x] /\ Replaces(writer[x])
    BY <1>1, <1>3, <1>5 DEF RuntimeInv, Coming, Leaving, Installs, Replaces
  <2>4. ASSUME NEW x \in Writers, Installs(writer[x])'
        PROVE  writer'[x].target \in (0..built) \ (closed \cup {runtime, runtime'})
    BY <1>1, <2>3, <2>4 DEF RuntimeInv, Installs, Coming
  <2>5. ASSUME NEW x \in Writers, Replaces(writer[x])'
        PROVE  writer'[x].previous \in (0..built) \ {runtime'}
    BY <1>1, <2>1, <2>3, <2>5 DEF RuntimeInv, Installs, Coming
  <2>6. ASSUME NEW x \in Writers, NEW y \in Writers, Installs(writer[x])'
        PROVE  /\ Installs(writer[y])' /\ y # x => writer'[y].target # writer'[x].target
               /\ Replaces(writer[y])' => writer'[y].previous # writer'[x].target
    BY <1>1, <2>3, <2>4, <2>6 DEF RuntimeInv
  <2> QED
    BY <1>1, <2>2, <2>3, <2>4, <2>5, <2>6 DEF RuntimeInv
<1>8. SavedInv'
  <2>1. writer'["change"].pc # "pending" /\ writer'["setup"].pc # "pending"
    BY <1>1, <1>3, <1>5 DEF SavedInv, Writers
  <2>2. ASSUME ~overtaken PROVE OrderInv'
    <3>1. OrderInv
      BY <1>1, <2>2 DEF SavedInv
    <3>2. \A x \in Writers : ~Coming(writer[x])' /\ (Leaving(writer[x])' => x = w)
      BY <1>1, <1>3, <1>5, <3>1 DEF SavedInv, OrderInv, Writers, Coming, Leaving
    <3>3. active' = saved' /\ writer'[w].tokens = saved' /\ routed' = runtime'
      BY <1>1, <1>3, <1>5, <3>1 DEF OrderInv, Coming
    <3>4. writer'["setup"].pc \in {"pending", "idle"} \/ writer'["change"].pc = "idle"
      BY <1>1, <1>5, <3>1 DEF OrderInv, Writers, SavedInv
    <3> QED
      BY <1>1, <3>1, <3>2, <3>3, <3>4 DEF OrderInv, limiters
  <2> QED
    BY <1>1, <2>1, <2>2 DEF SavedInv
<1>9. DomainInv'
  BY <1>1, <1>3, <1>5 DEF DomainInv, limiters
<1>10. SlotInv' /\ \A r \in Requests : RequestOK(request[r])'
  BY <1>1 DEF SlotInv, LookupsInFlight, RequestOK, limiters
<1> QED
  BY <1>6, <1>7, <1>8, <1>9, <1>10 DEF BaseInv

\* ChangeLimiter.Retain drops whom its change drops.
LEMMA RetainChangeBase == ASSUME BaseInv, NEW w \in Writers, RetainChange(w) PROVE BaseInv'
<1>1. /\ TypeOK /\ RuntimeInv /\ SavedInv /\ DomainInv /\ writer[w].pc = "retain" /\ Step(w, "retainLookups")
      /\ change' = Restrict(change, DOMAIN change \cap writer[w].tokens)
      /\ UNCHANGED <<now, server, localize, slots, request, history>>
  BY DEF BaseInv, RetainChange
<1>2. /\ writer' \in [Writers -> Writer] /\ \A x \in Writers \ {w} : writer'[x] = writer[x]
      /\ writer'[w].pc = "retainLookups" /\ writer'[w].tokens = writer[w].tokens
      /\ writer'[w].swap = writer[w].swap /\ writer'[w].previous = writer[w].previous
  BY <1>1, StepFacts
<1>3. /\ DOMAIN change' = DOMAIN change \cap writer[w].tokens
      /\ \A d \in DOMAIN change' : d \in DOMAIN change /\ change'[d] = change[d]
  BY <1>1, RestrictFacts
<1>4. TypeOK'
  BY <1>1, <1>2, <1>3 DEF TypeOK, server, history, Writers
<1>5. RuntimeInv'
  BY <1>1, <1>2 DEF RuntimeInv, Writers, Coming, Leaving, Installs, Replaces, server
<1>6. SavedInv'
  BY <1>1, <1>2, <1>3 DEF SavedInv, OrderInv, Writers, Coming, Leaving, server
<1>7. DomainInv'
  BY <1>1, <1>2, <1>3 DEF DomainInv, server
<1> QED
  BY <1>1, <1>4, <1>5, <1>6, <1>7, ServedSame DEF BaseInv, server

\* LocalizeLimiter.Retain does too.
LEMMA RetainLookupsBase == ASSUME BaseInv, NEW w \in Writers, RetainLookups(w) PROVE BaseInv'
<1>1. /\ TypeOK /\ RuntimeInv /\ SavedInv /\ DomainInv /\ writer[w].pc = "retainLookups"
      /\ localize' = Restrict(localize, DOMAIN localize \cap writer[w].tokens)
      /\ UNCHANGED <<now, server, change, slots, request, history>>
  BY DEF BaseInv, RetainLookups
<1>2. /\ writer' \in [Writers -> Writer] /\ \A x \in Writers \ {w} : writer'[x] = writer[x]
      /\ \/ writer'[w].pc = "idle"
         \/ /\ writer'[w].pc = "close" /\ writer[w].swap /\ writer'[w].swap
            /\ writer'[w].tokens = writer[w].tokens /\ writer'[w].previous = writer[w].previous
  <2>1. CASE writer[w].swap /\ writer[w].previous # 0
    BY <2>1, StepFacts DEF RetainLookups
  <2>2. CASE ~(writer[w].swap /\ writer[w].previous # 0)
    <3>1. writer' = [writer EXCEPT ![w] = NoChange]
      BY <2>2 DEF RetainLookups, Finish
    <3> QED
      BY <3>1, WriterFacts, NoChangeFacts
  <2> QED
    BY <2>1, <2>2
<1>3. /\ DOMAIN localize' = DOMAIN localize \cap writer[w].tokens
      /\ \A d \in DOMAIN localize' : d \in DOMAIN localize /\ localize'[d] = localize[d]
  BY <1>1, RestrictFacts
<1>4. TypeOK'
  BY <1>1, <1>2, <1>3 DEF TypeOK, server, history, Writers
<1>5. RuntimeInv'
  BY <1>1, <1>2 DEF RuntimeInv, Writers, Coming, Leaving, Installs, Replaces, server
<1>6. SavedInv'
  BY <1>1, <1>2, <1>3 DEF SavedInv, OrderInv, Writers, Coming, Leaving, server
<1>7. DomainInv'
  BY <1>1, <1>2, <1>3 DEF DomainInv, server
<1> QED
  BY <1>1, <1>4, <1>5, <1>6, <1>7, ServedSame DEF BaseInv, server

\* The runtime that is closed is not in use, and will not be again.
LEMMA CloseBase == ASSUME BaseInv, NEW w \in Writers, ClosePrevious(w) PROVE BaseInv'
<1>1. /\ TypeOK /\ RuntimeInv /\ SavedInv /\ DomainInv /\ writer[w].pc = "close"
      /\ closed' = closed \cup {writer[w].previous} /\ writer' = [writer EXCEPT ![w] = NoChange]
      /\ UNCHANGED <<now, active, routed, runtime, built, saved, revoked, overtaken, limiters, request, history>>
  BY DEF BaseInv, ClosePrevious, Finish
<1>2. /\ writer' \in [Writers -> Writer] /\ \A x \in Writers \ {w} : writer'[x] = writer[x]
      /\ writer'[w].pc = "idle"
  BY <1>1, WriterFacts, NoChangeFacts
<1>3. writer[w].previous \in (0..built) \ {runtime} /\ writer[w].previous \in Runtimes /\ Replaces(writer[w])
  BY <1>1 DEF RuntimeInv, Replaces, Leaving, TypeOK, Writer, Writers
<1>4. TypeOK'
  BY <1>1, <1>2, <1>3 DEF TypeOK, limiters, history, Writers
<1>5. RuntimeInv'
  BY <1>1, <1>2, <1>3 DEF RuntimeInv, Writers, Coming, Leaving, Installs, Replaces
<1>6. SavedInv'
  BY <1>1, <1>2 DEF SavedInv, OrderInv, Writers, Coming, Leaving, limiters
<1>7. DomainInv'
  BY <1>1, <1>2 DEF DomainInv, limiters
<1> QED
  BY <1>1, <1>4, <1>5, <1>6, <1>7, ServedSame DEF BaseInv, limiters

\* The clock.
LEMMA TickBase == ASSUME BaseInv, Tick PROVE BaseInv'
<1>1. /\ TypeOK /\ RuntimeInv /\ SavedInv /\ DomainInv
      /\ now < MaxTime /\ now' = now + 1 /\ UNCHANGED <<server, limiters, request, writer, history>>
  BY DEF BaseInv, Tick
<1>2. now' \in 0..MaxTime /\ \A t \in 0..now : t \in 0..now'
  BY <1>1, LimiterAssumption DEF TypeOK
<1>3. /\ \A d \in DOMAIN change :
            change[d] \in [tokens : 0..(Capacity * Interval), updated : 0..now', scope : Scopes]
      /\ \A d \in DOMAIN localize :
            localize[d] \in [tokens : 0..(LookupCapacity * LookupInterval), updated : 0..now']
  BY <1>1, <1>2 DEF TypeOK
<1>4. TypeOK'
  BY <1>1, <1>2, <1>3 DEF TypeOK, server, limiters, history
<1>5. RuntimeInv' /\ SavedInv' /\ DomainInv'
  BY <1>1 DEF RuntimeInv, SavedInv, OrderInv, DomainInv, server, limiters
<1> QED
  BY <1>1, <1>4, <1>5, ServedSame DEF BaseInv, server, limiters

\* The process starts with empty limiters, and with or without credentials.
LEMMA InitBase == Init => BaseInv
<1> SUFFICES ASSUME Init PROVE BaseInv
  OBVIOUS
<1>1. /\ now \in 0..MaxTime /\ {0, 1} \subseteq Runtimes /\ slots \in 0..Concurrency
  BY LimiterAssumption DEF Init, Runtimes
<1>2. /\ writer \in [Writers -> Writer] /\ writer["change"].pc = "idle"
      /\ \/ writer["setup"].pc = "idle" /\ active = saved /\ runtime = 1 /\ routed = 1 /\ built = 1
         \/ writer["setup"].pc = "pending" /\ active = {} /\ saved = {} /\ runtime = 0 /\ routed = 0 /\ built = 0
  <2> DEFINE l == [NoChange EXCEPT !.pc = "pending"]
  <2>1. l \in Writer /\ l.pc = "pending"
    BY NoChangeFacts DEF Writer
  <2> HIDE DEF l
  <2>2. CASE writer = [w \in {"setup", "change"} |-> NoChange] /\ active = saved /\ runtime = 1 /\ routed = 1 /\ built = 1
    BY <2>2, NoChangeFacts DEF Writers
  <2>3. CASE writer = [setup |-> l, change |-> NoChange] /\ active = {} /\ saved = {} /\ runtime = 0 /\ routed = 0 /\ built = 0
    BY <2>1, <2>3, NoChangeFacts DEF Writers
  <2> QED
    BY <2>2, <2>3 DEF Init, l
<1>3. DOMAIN change = {} /\ DOMAIN localize = {} /\ closed = {} /\ revoked = {} /\ overtaken = FALSE
      /\ saved \subseteq Devices
  BY DEF Init
<1>4. request \in [Requests -> Request] /\ \A r \in Requests : request[r] = Idle
  BY IdleType DEF Init
<1>5. moves \in [Devices -> Seq(Nat)] /\ lookups \in [Devices -> Seq(Nat)] /\ promised \in [Devices -> Int]
  BY DEF Init
<1>6. TypeOK
  BY <1>1, <1>2, <1>3, <1>4, <1>5 DEF TypeOK, Writers
<1>7. SlotInv
  <2>1. LookupsInFlight = {}
    BY <1>4, IdleType DEF LookupsInFlight
  <2> QED
    BY <2>1, FS_EmptySet DEF Init, SlotInv
<1>8. RuntimeInv /\ SavedInv /\ DomainInv
  <2>1. \A w \in Writers :
           writer[w].pc \in {"idle", "pending"} /\ ~Coming(writer[w]) /\ ~Leaving(writer[w])
    BY <1>2 DEF Writers, Coming, Leaving
  <2>2. \A w \in Writers : ~Installs(writer[w]) /\ ~Replaces(writer[w])
    BY <2>1 DEF Installs, Replaces
  <2>3. RuntimeInv
    BY <1>2, <1>3, <2>1, <2>2 DEF RuntimeInv
  <2>4. OrderInv
    BY <1>2, <1>3, <2>1 DEF OrderInv, Writers
  <2>5. SavedInv
    BY <1>2, <1>3, <2>4 DEF SavedInv
  <2>6. DomainInv
    BY <1>3 DEF DomainInv
  <2> QED
    BY <2>3, <2>5, <2>6
<1>9. \A r \in Requests : RequestOK(request[r])
  BY <1>4, IdleType
<1> QED
  BY <1>6, <1>7, <1>8, <1>9 DEF BaseInv

\* Every step keeps the types, the slots and the order of an activation.
LEMMA NextBase == BaseInv /\ [Next]_vars => BaseInv'
<1> SUFFICES ASSUME BaseInv, [Next]_vars PROVE BaseInv'
  OBVIOUS
<1>1. CASE UNCHANGED vars
  <2>1. UNCHANGED <<now, server, limiters, request, writer, history>>
    BY <1>1 DEF vars
  <2>2. TypeOK'
    BY <2>1 DEF BaseInv, TypeOK, server, limiters, history
  <2>3. RuntimeInv' /\ SavedInv' /\ DomainInv'
    BY <2>1 DEF BaseInv, RuntimeInv, SavedInv, OrderInv, DomainInv, server, limiters
  <2> QED
    BY <2>1, <2>2, <2>3, ServedSame DEF BaseInv, server, limiters
<1>2. ASSUME NEW r \in Requests, Handler(r) PROVE BaseInv'
  BY <1>2, HandlerBase, AllowBase DEF Handler
<1>3. ASSUME NEW w \in Writers, Change(w) PROVE BaseInv'
  BY <1>3, LockBase, ActivateBase, RetainChangeBase, RetainLookupsBase, CloseBase DEF Change
<1> QED
  BY <1>1, <1>2, <1>3, HandlerBase, LookupsBase, SetupBase, TokensBase, RuntimeBase, TickBase DEF Next, Reject, Writers

\* The base invariant holds in every reachable state.
LEMMA BaseInvariant == Spec => []BaseInv
BY InitBase, NextBase, PTL DEF Spec

\* Every variable of the handlers, the limiters and the activation keeps its
\* type; in particular no budget goes negative or over its size.
THEOREM RequestsTypeCorrect == Spec => []TypeOK
<1>1. BaseInv => TypeOK
  BY DEF BaseInv
<1> QED
  BY <1>1, BaseInvariant, PTL

\* Every slot of the LocalizeLimiter is given back exactly once.
THEOREM SlotsReturned == Spec => []SlotsMatchLookups
<1>1. BaseInv => SlotsMatchLookups
  BY DEF BaseInv, SlotInv, SlotsMatchLookups
<1> QED
  BY <1>1, BaseInvariant, PTL

\* The handler routes to the current runtime until a change overtakes setup, and
\* as long as it does no fetch and no lookup uses a provider that is closed,
\* whichever writers activate, retain or close meanwhile.
THEOREM ProviderStaysOpen == Spec => []ProviderOpenInUse
<1>1. BaseInv => ProviderOpenInUse
  <2> SUFFICES ASSUME BaseInv PROVE ProviderOpenInUse
    OBVIOUS
  <2>1. ~overtaken => routed = runtime
    BY DEF BaseInv, SavedInv, OrderInv
  <2>2. ASSUME routed = runtime, NEW r \in Requests, request[r].pc = "get" \/ r \in LookupsInFlight
        PROVE  request[r].runtime \notin closed
    <3>1. request[r].pc # "idle"
      BY <2>2 DEF BaseInv, RequestOK, LookupsInFlight
    <3>2. request[r].runtime = runtime
      BY <2>2, <3>1 DEF RequestOK, BaseInv
    <3> QED
      BY <3>2 DEF BaseInv, RuntimeInv
  <2> QED
    BY <2>1, <2>2 DEF ProviderOpenInUse
<1> QED
  BY <1>1, BaseInvariant, PTL

\* Once nothing is being activated neither limiter remembers a revoked device,
\* and no late request brings one back.
THEOREM RevokedForgotten == Spec => []LimitersForgetRevoked
<1>1. BaseInv => LimitersForgetRevoked
  BY DEF BaseInv, DomainInv, LimitersForgetRevoked, Writers
<1> QED
  BY <1>1, BaseInvariant, PTL

-----------------------------------------------------------------------------
(* The budgets.                                                            *)

\* What happened since any of the times, and what is left, was paid for by
\* the capacity and the time since.
Account(times, tokens, updated, capacity, interval) ==
    \A i \in 1..Len(times) :
        (Len(times) - i + 1) * interval + tokens <= capacity * interval + (updated - times[i])

\* A refused device finds its move paid for when it comes back as told.
PromiseOK(d) ==
    promised[d] >= 0 /\ d \in DOMAIN change =>
        \/ change[d].tokens >= Interval
        \/ change[d].tokens + (promised[d] - change[d].updated) >= Interval

\* The moves and the lookups of a device.  One that is not remembered has none,
\* or it is revoked and served no longer.
MoveOK(d) ==
    /\ Rated(moves[d], Capacity, Interval)
    /\ moves[d] # << >> => d \in DOMAIN change \cup (revoked \ active)
    /\ d \in DOMAIN change => Account(moves[d], change[d].tokens, change[d].updated, Capacity, Interval)

LookupOK(d) ==
    /\ Rated(lookups[d], LookupCapacity, LookupInterval)
    /\ lookups[d] # << >> => d \in DOMAIN localize \cup (revoked \ active)
    /\ d \in DOMAIN localize =>
          /\ Account(lookups[d], localize[d].tokens, localize[d].updated, LookupCapacity, LookupInterval)
          /\ localize[d].tokens + Len(lookups[d]) * LookupInterval >= LookupCapacity * LookupInterval

BudgetInv == \A d \in Devices : PromiseOK(d) /\ (~overtaken => MoveOK(d) /\ LookupOK(d))

\* Arithmetic: a product with one more or with a difference.
LEMMA Products ==
    ASSUME NEW x \in Int, NEW k \in Int
    PROVE  /\ x * k \in Int /\ (x + 1) * k = x * k + k /\ 1 * k = k
           /\ \A y \in Int : (x - y) * k = x * k - y * k
OBVIOUS

\* Arithmetic: an account after waiting.
LEMMA Sums ==
    ASSUME NEW s \in Int, NEW f \in Int, NEW bt \in Int, NEW bu \in Int, NEW nt \in Int, NEW nu \in Int,
           NEW x \in Int, s + bt <= f + (bu - x)
    PROVE  /\ nt <= bt + (nu - bu) => s + nt <= f + (nu - x)
           /\ bt >= 0 => s - f <= bu - x
OBVIOUS

\* Arithmetic: an account after a payment.
LEMMA Payments ==
    ASSUME NEW s \in Int, NEW f \in Int, NEW bt \in Int, NEW bu \in Int, NEW nt \in Int, NEW t \in Int,
           NEW x \in Int, NEW k \in Int, s + bt <= f + (bu - x), nt + k <= bt + (t - bu)
    PROVE  (s + k) + nt <= f + (t - x)
OBVIOUS

\* Waiting: the bucket gains at most the time that passes.
LEMMA WaitAccount ==
    ASSUME NEW times \in Seq(Nat), NEW c \in Nat, NEW k \in Nat,
           NEW bt \in Int, NEW bu \in Int, NEW nt \in Int, NEW nu \in Int,
           Account(times, bt, bu, c, k), nt <= bt + (nu - bu)
    PROVE  Account(times, nt, nu, c, k)
<1> SUFFICES ASSUME NEW i \in 1..Len(times)
             PROVE  (Len(times) - i + 1) * k + nt <= c * k + (nu - times[i])
  BY DEF Account
<1> DEFINE spent == (Len(times) - i + 1) * k
           full == c * k
<1>1. spent \in Int /\ full \in Int /\ times[i] \in Nat
  BY Products
<1>2. spent + bt <= full + (bu - times[i])
  BY DEF Account
<1> HIDE DEF spent, full
<1>3. spent + nt <= full + (nu - times[i])
  BY <1>1, <1>2, Sums, SMTT(30)
<1> QED
  BY <1>3 DEF spent, full

\* Spending: an event takes one interval out of the refilled bucket.
LEMMA SpendAccount ==
    ASSUME NEW times \in Seq(Nat), NEW c \in Nat, NEW k \in Nat, NEW t \in Nat,
           NEW bt \in Int, NEW bu \in Int, NEW nt \in Nat,
           Account(times, bt, bu, c, k), Rated(times, c, k),
           nt + k <= bt + (t - bu), nt + k <= c * k
    PROVE  Account(Append(times, t), nt, t, c, k) /\ Rated(Append(times, t), c, k)
<1> DEFINE all == Append(times, t)
           L == Len(times)
           full == c * k
<1>1. /\ L \in Nat /\ Len(all) = L + 1 /\ all[L + 1] = t /\ all \in Seq(Nat)
      /\ \A i \in 1..L : all[i] = times[i] /\ times[i] \in Nat
      /\ full \in Int
  BY Products
<1>2. ASSUME NEW i \in 1..(L + 1)
      PROVE  ((L + 1) - i + 1) * k + nt <= full + (t - all[i])
  <2>1. CASE i = L + 1
    <3>1. ((L + 1) - i + 1) * k = k
      BY <1>1, <2>1, Products
    <3> HIDE DEF full, all
    <3> QED
      BY <1>1, <2>1, <3>1 DEF full
  <2>2. CASE i \in 1..L
    <3> DEFINE spent == (L - i + 1) * k
    <3>1. spent \in Int /\ ((L + 1) - i + 1) * k = spent + k
      <4>1. L - i + 1 \in Int /\ (L + 1) - i + 1 = (L - i + 1) + 1
        BY <1>1, <2>2
      <4> QED
        BY <4>1, Products
    <3>2. spent + bt <= full + (bu - times[i])
      BY <2>2 DEF Account
    <3>3. times[i] \in Int /\ all[i] = times[i] /\ full \in Int /\ k \in Int /\ t \in Int /\ nt \in Int
      BY <1>1, <2>2
    <3> HIDE DEF spent, full, all
    <3>4. (spent + k) + nt <= full + (t - times[i])
      BY <3>1, <3>2, <3>3, Payments
    <3> QED
      BY <3>1, <3>3, <3>4
  <2> QED
    BY <1>1, <2>1, <2>2
<1>3. Account(all, nt, t, c, k)
  BY <1>1, <1>2 DEF Account
<1>4. ASSUME NEW i \in 1..(L + 1), NEW j \in 1..(L + 1), i <= j
      PROVE  (j - i + 1 - c) * k <= all[j] - all[i]
  <2>1. CASE j = L + 1
    <3> DEFINE spent == (j - i + 1) * k
    <3>1. spent \in Int /\ (j - i + 1 - c) * k = spent - full
      <4>1. j - i + 1 \in Int
        BY <1>1
      <4> QED
        BY <4>1, Products
    <3>2. spent + nt <= full + (t - all[i])
      BY <1>2, <2>1
    <3>3. all[j] = t /\ all[i] \in Nat
      BY <1>1, <2>1
    <3> HIDE DEF spent, full, all
    <3>4. spent - full <= t - all[i]
      BY <1>1, <3>1, <3>2, <3>3, Sums, SMTT(30)
    <3> QED
      BY <3>1, <3>3, <3>4
  <2>2. CASE j \in 1..L
    <3>1. i \in 1..L
      BY <1>1, <1>4, <2>2
    <3> QED
      BY <1>1, <1>4, <2>2, <3>1 DEF Rated
  <2> QED
    BY <1>1, <2>1, <2>2
<1>5. Rated(all, c, k)
  BY <1>1, <1>4 DEF Rated
<1> QED
  BY <1>3, <1>5

\* Nothing has happened yet.
LEMMA EmptyAccount == ASSUME NEW t, NEW u, NEW c, NEW k PROVE Account(<< >>, t, u, c, k) /\ Rated(<< >>, c, k)
BY DEF Account, Rated

-----------------------------------------------------------------------------
(* The steps keep the accounts.                                            *)

\* The device's bucket and history are untouched.
LEMMA MoveSame ==
    ASSUME NEW d \in Devices, MoveOK(d), moves'[d] = moves[d],
           d \in DOMAIN change' <=> d \in DOMAIN change, change'[d] = change[d],
           d \in revoked \ active => d \in revoked' \ active'
    PROVE  MoveOK(d)'
BY DEF MoveOK

\* The same for its promise.
LEMMA PromiseSame ==
    ASSUME NEW d \in Devices, PromiseOK(d), promised'[d] = promised[d],
           d \in DOMAIN change' => d \in DOMAIN change /\ change'[d] = change[d]
    PROVE  PromiseOK(d)'
BY DEF PromiseOK

\* The account of a device's lookups stands when no step touched it.
LEMMA LookupSame ==
    ASSUME NEW d \in Devices, LookupOK(d), lookups'[d] = lookups[d],
           d \in DOMAIN localize' <=> d \in DOMAIN localize, localize'[d] = localize[d],
           d \in revoked \ active => d \in revoked' \ active'
    PROVE  LookupOK(d)'
BY DEF LookupOK

\* A device that is served and not remembered has no history.
LEMMA NewDevice ==
    ASSUME NEW d \in Devices, d \in active
    PROVE  /\ MoveOK(d) /\ d \notin DOMAIN change => moves[d] = << >>
           /\ LookupOK(d) /\ d \notin DOMAIN localize => lookups[d] = << >>
BY DEF MoveOK, LookupOK

\* Types of the bucket of a device and of its history.
LEMMA AccountTypes ==
    ASSUME BaseInv, NEW d \in Devices
    PROVE  /\ now \in Nat /\ moves[d] \in Seq(Nat) /\ lookups[d] \in Seq(Nat) /\ promised[d] \in Int
           /\ d \in DOMAIN change => change[d].tokens \in Int /\ change[d].updated \in Int
           /\ d \in DOMAIN localize => localize[d].tokens \in Int /\ localize[d].updated \in Int
<1>1. TypeOK
  BY DEF BaseInv
<1>2. now \in Nat /\ moves[d] \in Seq(Nat) /\ lookups[d] \in Seq(Nat) /\ promised[d] \in Int
  BY <1>1 DEF TypeOK
<1>3. d \in DOMAIN change => change[d].tokens \in Int /\ change[d].updated \in Int
  BY <1>1, FullFacts DEF TypeOK
<1>4. d \in DOMAIN localize => localize[d].tokens \in Int /\ localize[d].updated \in Int
  BY <1>1, FullFacts DEF TypeOK
<1> QED
  BY <1>2, <1>3, <1>4

\* The limiter of changes keeps every account.
LEMMA AllowBudget ==
    ASSUME BaseInv, BudgetInv, NEW r \in Requests, AllowFirst(r) \/ AllowMove(r) \/ RefuseMove(r)
    PROVE  BudgetInv'
<1>0. PICK d \in Devices : d = request[r].device
  BY DEF BaseInv, TypeOK, Request
<1>1. d \in active /\ d \in Devices /\ UNCHANGED <<active, revoked, overtaken, localize, lookups, now>>
  BY <1>0, AllowFacts DEF BaseInv, TypeOK, server
<1>2. ~overtaken => \A e \in Devices : LookupOK(e)'
  BY <1>1, LookupSame DEF BudgetInv
<1>3. \E b : change' = Put(change, d, b)
  BY <1>0, AllowFirstFacts, AllowMoveFacts, RefuseMoveFacts
<1>4. moves \in [Devices -> Seq(Nat)] /\ promised \in [Devices -> Int]
  BY DEF BaseInv, TypeOK
<1>5. \A e \in Devices : e # d => moves'[e] = moves[e] /\ promised'[e] = promised[e]
  BY <1>0, <1>4 DEF AllowFirst, AllowMove, RefuseMove, history
<1>6. DOMAIN change' = DOMAIN change \cup {d} /\ \A e \in DOMAIN change : e # d => change'[e] = change[e]
  BY <1>3 DEF Put
<1>7. ASSUME NEW e \in Devices, e # d PROVE PromiseOK(e)' /\ (~overtaken => MoveOK(e)')
  <2>1. PromiseOK(e) /\ (~overtaken => MoveOK(e))
    BY DEF BudgetInv
  <2>2. CASE e \in DOMAIN change
    BY <1>1, <1>5, <1>6, <1>7, <2>1, <2>2, MoveSame, PromiseSame
  <2>3. CASE e \notin DOMAIN change
    BY <1>1, <1>5, <1>6, <1>7, <2>1, <2>3 DEF MoveOK, PromiseOK
  <2> QED
    BY <2>2, <2>3
<1>8. PromiseOK(d)' /\ (~overtaken => MoveOK(d)')
  <2>1. PromiseOK(d) /\ (~overtaken => MoveOK(d))
    BY <1>1 DEF BudgetInv
  <2>2. CASE AllowFirst(r)
    <3> DEFINE b == [tokens |-> Capacity * Interval, updated |-> now, scope |-> request[r].scope]
    <3>1. /\ d \notin DOMAIN change /\ change' = Put(change, d, b) /\ UNCHANGED <<moves, promised>>
      BY <1>0, <2>2, AllowFirstFacts
    <3>2. change'[d] = b
      BY <3>1 DEF Put
    <3>3. b.tokens >= Interval
      BY FullFacts
    <3>4. PromiseOK(d)'
      BY <1>6, <3>2, <3>3 DEF PromiseOK
    <3>5. ~overtaken => moves[d] = << >> /\ MoveOK(d)
      BY <1>1, <2>1, <3>1, NewDevice
    <3> QED
      BY <1>6, <3>1, <3>4, <3>5, EmptyAccount DEF MoveOK
  <2>3. CASE AllowMove(r)
    <3> DEFINE b == [Bucket(d) EXCEPT !.tokens = @ - Interval, !.scope = request[r].scope]
    <3>1. /\ d \in DOMAIN change /\ b \in ChangeBucket /\ change' = Put(change, d, b)
          /\ b.tokens = Bucket(d).tokens - Interval /\ b.updated = now
          /\ moves' = [moves EXCEPT ![d] = Append(@, now)]
      BY <1>0, <2>3, AllowMoveFacts
    <3>2. promised' = [promised EXCEPT ![d] = -1]
      BY <1>0, <2>3 DEF AllowMove
    <3>3. /\ Bucket(d).tokens \in Int /\ Bucket(d).tokens <= Capacity * Interval
          /\ Bucket(d).tokens <= change[d].tokens + (now - change[d].updated)
      BY <3>1, BucketFacts, FullFacts DEF BaseInv, ChangeBucket
    <3> HIDE DEF b
    <3>4. b.tokens \in Nat
      BY <3>1, FullFacts DEF ChangeBucket
    <3>5. change'[d] = b
      BY <3>1 DEF Put
    <3>6. moves'[d] = Append(moves[d], now) /\ promised'[d] = -1
      BY <1>1, <1>4, <3>1, <3>2
    <3>7. /\ now \in Nat /\ moves[d] \in Seq(Nat) /\ change[d].tokens \in Int /\ change[d].updated \in Int
          /\ Capacity \in Nat /\ Interval \in Nat
          /\ ~overtaken => /\ Account(moves[d], change[d].tokens, change[d].updated, Capacity, Interval)
                           /\ Rated(moves[d], Capacity, Interval)
      BY <1>1, <2>1, <3>1, AccountTypes, LimiterAssumption DEF MoveOK
    <3>8. b.tokens + Interval = Bucket(d).tokens
      BY <3>1, <3>3, <3>7
    <3>9. b.tokens + Interval <= change[d].tokens + (now - change[d].updated) /\ b.tokens + Interval <= Capacity * Interval
      BY <3>3, <3>8
    <3>10. ~overtaken => /\ Account(moves'[d], b.tokens, now, Capacity, Interval)
                         /\ Rated(moves'[d], Capacity, Interval)
      BY <3>4, <3>6, <3>7, <3>9, SpendAccount
    <3>11. ~(promised'[d] >= 0)
      BY <3>6
    <3> QED
      BY <1>6, <3>1, <3>5, <3>10, <3>11 DEF MoveOK, PromiseOK
  <2>4. CASE RefuseMove(r)
    <3>1. /\ d \in DOMAIN change /\ change' = Put(change, d, Bucket(d)) /\ Bucket(d) \in ChangeBucket
          /\ Bucket(d).updated = now /\ Interval - Bucket(d).tokens \in Nat
          /\ promised' = [promised EXCEPT ![d] = now + RetryAfter(Interval - Bucket(d).tokens)]
          /\ UNCHANGED moves
      BY <1>0, <2>4, RefuseMoveFacts
    <3>2. /\ Bucket(d).tokens \in Int
          /\ Bucket(d).tokens <= change[d].tokens + (now - change[d].updated)
      BY <3>1, BucketFacts, FullFacts DEF BaseInv, ChangeBucket
    <3>3. change'[d] = Bucket(d)
      BY <3>1 DEF Put
    <3>4. promised'[d] = now + RetryAfter(Interval - Bucket(d).tokens)
      BY <1>1, <1>4, <3>1
    <3>5. /\ now \in Nat /\ moves[d] \in Seq(Nat) /\ change[d].tokens \in Int /\ change[d].updated \in Int
          /\ Capacity \in Nat /\ Interval \in Nat
          /\ ~overtaken => /\ Account(moves[d], change[d].tokens, change[d].updated, Capacity, Interval)
                           /\ Rated(moves[d], Capacity, Interval)
      BY <1>1, <2>1, <3>1, AccountTypes, LimiterAssumption DEF MoveOK
    <3>6. ~overtaken => Account(moves[d], Bucket(d).tokens, now, Capacity, Interval)
      BY <3>2, <3>5, WaitAccount, SMTT(30)
    <3>7. /\ RetryAfter(Interval - Bucket(d).tokens) \in Nat
          /\ RetryAfter(Interval - Bucket(d).tokens) >= Interval - Bucket(d).tokens
      BY <3>1, RetryAfterFacts
    <3>8. Bucket(d).tokens + (promised'[d] - now) >= Interval
      BY <3>2, <3>4, <3>5, <3>7
    <3> QED
      BY <1>6, <3>1, <3>3, <3>5, <3>6, <3>8 DEF MoveOK, PromiseOK
  <2> QED
    BY <2>2, <2>3, <2>4
<1> QED
  BY <1>1, <1>2, <1>7, <1>8 DEF BudgetInv

\* The limiter of lookups keeps every account.
LEMMA TryBudgetBudget == ASSUME BaseInv, BudgetInv, NEW r \in Requests, TryBudget(r) PROVE BudgetInv'
<1>0. PICK d \in Devices : d = request[r].device
  BY DEF BaseInv, TypeOK, Request
<1> DEFINE full == LookupBucket(d)
<1>1. /\ d \in active /\ d \in Devices /\ full \in LocalizeBucket
      /\ UNCHANGED <<active, revoked, overtaken, change, moves, promised, now>>
  BY <1>0, TryBudgetFacts DEF BaseInv, TypeOK, server
<1>2. \A e \in Devices : PromiseOK(e)' /\ (~overtaken => MoveOK(e)')
  BY <1>1, MoveSame, PromiseSame DEF BudgetInv
<1> SUFFICES ASSUME ~overtaken PROVE \A e \in Devices : LookupOK(e)'
  BY <1>1, <1>2 DEF BudgetInv
<1>3. \E b : localize' = Put(localize, d, b)
  BY <1>0, TryBudgetFacts
<1>4. lookups \in [Devices -> Seq(Nat)]
  BY DEF BaseInv, TypeOK
<1>5. \A e \in Devices : e # d => lookups'[e] = lookups[e]
  BY <1>0, <1>4 DEF TryBudget
<1>6. DOMAIN localize' = DOMAIN localize \cup {d} /\ \A e \in DOMAIN localize : e # d => localize'[e] = localize[e]
  BY <1>3 DEF Put
<1>7. ASSUME NEW e \in Devices, e # d PROVE LookupOK(e)'
  <2>1. LookupOK(e)
    BY DEF BudgetInv
  <2>2. CASE e \in DOMAIN localize
    BY <1>1, <1>5, <1>6, <1>7, <2>1, <2>2, LookupSame
  <2>3. CASE e \notin DOMAIN localize
    BY <1>1, <1>5, <1>6, <1>7, <2>1, <2>3 DEF LookupOK
  <2> QED
    BY <2>2, <2>3
<1>8. LookupOK(d)'
  \* The bucket before, as the refill sees it: a full one for a new device.
  <2> DEFINE t == IF d \in DOMAIN localize THEN localize[d].tokens ELSE LookupCapacity * LookupInterval
             u == IF d \in DOMAIN localize THEN localize[d].updated ELSE now
             F == LookupCapacity * LookupInterval
             spent == Len(lookups[d]) * LookupInterval
  <2>1. /\ now \in Nat /\ lookups[d] \in Seq(Nat) /\ t \in Int /\ u \in Int /\ F \in Nat
        /\ LookupCapacity \in Nat /\ LookupInterval \in Nat
    BY <1>1, AccountTypes, FullFacts, LimiterAssumption
  <2>2. LookupOK(d) /\ (d \notin DOMAIN localize => lookups[d] = << >>)
    BY <1>1, NewDevice DEF BudgetInv
  <2>3. Account(lookups[d], t, u, LookupCapacity, LookupInterval) /\ Rated(lookups[d], LookupCapacity, LookupInterval)
    BY <2>2, EmptyAccount DEF LookupOK
  <2>4. spent \in Nat
    <3>1. \A x, y \in Nat : x * y \in Nat
      OBVIOUS
    <3>2. Len(lookups[d]) \in Nat
      BY <2>1
    <3> QED
      BY <2>1, <3>1, <3>2
  <2>5. t + spent >= F
    <3>1. CASE d \in DOMAIN localize
      BY <2>2, <3>1 DEF LookupOK
    <3>2. CASE d \notin DOMAIN localize
      <4>1. t = F
        BY <3>2
      <4> HIDE DEF t, spent, F
      <4> QED
        BY <2>1, <2>4, <4>1
    <3> QED
      BY <3>1, <3>2
  <2>6. /\ full.tokens \in Nat /\ full.tokens <= F /\ full.updated = now
        /\ full.tokens >= t /\ full.tokens <= t + (now - u)
    <3>1. full.tokens \in 0..F /\ full.updated = now
      BY <1>1, LookupBucketFacts DEF LocalizeBucket, BaseInv
    <3>2. /\ d \in DOMAIN localize => /\ full.tokens >= localize[d].tokens
                                      /\ full.tokens <= localize[d].tokens + (now - localize[d].updated)
          /\ d \notin DOMAIN localize => full.tokens = F
      BY <1>1, LookupBucketFacts DEF BaseInv
    <3> HIDE DEF full, F
    <3>3. CASE d \in DOMAIN localize
      BY <2>1, <3>1, <3>2, <3>3
    <3>4. CASE d \notin DOMAIN localize
      <4>1. t = F /\ u = now
        BY <3>4 DEF F
      <4> HIDE DEF t, u
      <4> QED
        BY <2>1, <3>1, <3>2, <3>4, <4>1
    <3> QED
      BY <3>3, <3>4
  <2> DEFINE b == [full EXCEPT !.tokens = @ - LookupInterval]
  <2>7. \/ /\ full.tokens >= LookupInterval
           /\ b \in LocalizeBucket /\ b.tokens = full.tokens - LookupInterval /\ b.updated = now
           /\ localize' = Put(localize, d, b)
           /\ lookups' = [lookups EXCEPT ![d] = Append(@, now)]
        \/ localize' = Put(localize, d, full) /\ lookups' = lookups
    BY <1>0, TryBudgetFacts
  <2> HIDE DEF b, full, t, u, F, spent
  <2>8. CASE /\ full.tokens >= LookupInterval
             /\ b \in LocalizeBucket /\ b.tokens = full.tokens - LookupInterval /\ b.updated = now
             /\ localize' = Put(localize, d, b)
             /\ lookups' = [lookups EXCEPT ![d] = Append(@, now)]
    <3>1. localize'[d] = b
      BY <2>8 DEF Put
    <3>2. lookups'[d] = Append(lookups[d], now) /\ Len(lookups'[d]) = Len(lookups[d]) + 1
      BY <1>1, <1>4, <2>1, <2>8
    <3>3. b.tokens \in Nat /\ b.tokens + LookupInterval = full.tokens
      BY <2>1, <2>6, <2>8
    <3>4. b.tokens + LookupInterval <= t + (now - u) /\ b.tokens + LookupInterval <= LookupCapacity * LookupInterval
      BY <2>6, <3>3 DEF F
    <3>5. /\ Account(lookups'[d], b.tokens, now, LookupCapacity, LookupInterval)
          /\ Rated(lookups'[d], LookupCapacity, LookupInterval)
      BY <2>1, <2>3, <3>2, <3>3, <3>4, SpendAccount, SMTT(30)
    <3>6. Len(lookups'[d]) * LookupInterval = spent + LookupInterval
      <4>1. Len(lookups[d]) \in Int /\ LookupInterval \in Int
        BY <2>1
      <4> QED
        BY <3>2, <4>1, Products DEF spent
    <3>7. b.tokens + Len(lookups'[d]) * LookupInterval >= F
      BY <2>1, <2>4, <2>5, <2>6, <3>3, <3>6
    <3> QED
      BY <1>6, <2>8, <3>1, <3>5, <3>7 DEF LookupOK, F
  <2>9. CASE localize' = Put(localize, d, full) /\ lookups' = lookups
    <3>1. localize'[d] = full
      BY <2>9 DEF Put
    <3>2. Account(lookups[d], full.tokens, now, LookupCapacity, LookupInterval)
      BY <2>1, <2>3, <2>6, WaitAccount
    <3>3. full.tokens + spent >= F
      BY <2>1, <2>4, <2>5, <2>6
    <3> QED
      BY <1>6, <2>3, <2>6, <2>9, <3>1, <3>2, <3>3 DEF LookupOK, F, spent
  <2> QED
    BY <2>7, <2>8, <2>9
<1> QED
  BY <1>7, <1>8

\* Steps that touch no budget; a device the limiters forget is revoked.
LEMMA RetainBudget ==
    ASSUME BaseInv, BudgetInv, UNCHANGED <<moves, lookups, promised>>, overtaken => overtaken',
           NEW kept, ~overtaken => active \subseteq kept,
           ~overtaken' => revoked \ active \subseteq revoked' \ active',
           change' = change \/ change' = Restrict(change, DOMAIN change \cap kept),
           localize' = localize \/ localize' = Restrict(localize, DOMAIN localize \cap kept)
    PROVE  BudgetInv'
<1> SUFFICES ASSUME NEW d \in Devices PROVE PromiseOK(d)' /\ (~overtaken' => MoveOK(d)' /\ LookupOK(d)')
  BY DEF BudgetInv
<1>1. PromiseOK(d) /\ (~overtaken => MoveOK(d) /\ LookupOK(d))
  BY DEF BudgetInv
<1>2. /\ DOMAIN change' \subseteq DOMAIN change /\ \A e \in DOMAIN change' : change'[e] = change[e]
      /\ DOMAIN localize' \subseteq DOMAIN localize /\ \A e \in DOMAIN localize' : localize'[e] = localize[e]
      /\ change' = change \/ DOMAIN change' = DOMAIN change \cap kept
      /\ localize' = localize \/ DOMAIN localize' = DOMAIN localize \cap kept
  BY DEF Restrict
<1>3. PromiseOK(d)'
  BY <1>1, <1>2, PromiseSame
<1> SUFFICES ASSUME ~overtaken' PROVE MoveOK(d)' /\ LookupOK(d)'
  BY <1>3
<1>4. /\ d \in DOMAIN change \cup DOMAIN localize => d \in active \cup revoked
      /\ d \in DOMAIN change \cup DOMAIN localize => d \in kept \/ d \in revoked \ active
      /\ d \in revoked \ active => d \in revoked' \ active'
  BY DEF BaseInv, SavedInv, OrderInv
<1>5. MoveOK(d)'
  <2>1. CASE d \in DOMAIN change => d \in DOMAIN change'
    BY <1>1, <1>2, <1>4, <2>1 DEF MoveOK
  <2>2. CASE d \in DOMAIN change /\ d \notin DOMAIN change'
    BY <1>1, <1>2, <1>4, <2>2 DEF MoveOK
  <2> QED
    BY <2>1, <2>2
<1>6. LookupOK(d)'
  <2>1. CASE d \in DOMAIN localize => d \in DOMAIN localize'
    BY <1>1, <1>2, <1>4, <2>1 DEF LookupOK
  <2>2. CASE d \in DOMAIN localize /\ d \notin DOMAIN localize'
    BY <1>1, <1>2, <1>4, <2>2 DEF LookupOK
  <2> QED
    BY <2>1, <2>2
<1> QED
  BY <1>5, <1>6

\* Every step keeps every account.
LEMMA NextBudget == BaseInv /\ BudgetInv /\ [Next]_vars => BudgetInv'
<1> SUFFICES ASSUME BaseInv, BudgetInv, [Next]_vars PROVE BudgetInv'
  OBVIOUS
<1>0. ASSUME UNCHANGED <<moves, lookups, promised, change, localize>>, overtaken => overtaken',
             ~overtaken' => revoked \ active \subseteq revoked' \ active'
      PROVE  BudgetInv'
  BY <1>0, RetainBudget
<1>1. CASE UNCHANGED vars \/ \E r \in Requests : Reject(r)
  BY <1>0, <1>1 DEF vars, server, limiters, history, Reject
<1>2. ASSUME NEW r \in Requests,
             \/ \E d \in Devices, s \in Scopes : Begin(r, d, s)
             \/ \E d \in Devices : BeginLocation(r, d)
             \/ AllowSame(r) \/ GetReturns(r) \/ JoinLookup(r) \/ TrySlot(r) \/ EndLookup(r)
      PROVE  BudgetInv'
  <2>1. UNCHANGED <<moves, lookups, promised, active, revoked, overtaken, change, localize>>
    BY <1>2 DEF Begin, BeginLocation, AllowSame, GetReturns, JoinLookup, TrySlot, EndLookup, server, limiters, history
  <2> QED
    BY <1>0, <2>1
<1>3. ASSUME NEW r \in Requests, AllowFirst(r) \/ AllowMove(r) \/ RefuseMove(r) \/ TryBudget(r) PROVE BudgetInv'
  BY <1>3, AllowBudget, TryBudgetBudget
<1>4. CASE \/ \E tokens \in SUBSET Devices : PrepareSetup(tokens) \/ PrepareTokens(tokens)
           \/ PrepareRuntime \/ Tick \/ \E w \in Writers : Lock(w) \/ ClosePrevious(w)
  <2>1. UNCHANGED <<moves, lookups, promised, active, change, localize>> /\ revoked \subseteq revoked'
    BY <1>4 DEF PrepareSetup, PrepareTokens, PrepareRuntime, Lock, ClosePrevious, Tick, server, limiters, history
  <2>2. overtaken' = overtaken \/ \E b : overtaken' = (overtaken \/ b)
    BY <1>4 DEF PrepareSetup, PrepareTokens, PrepareRuntime, Lock, ClosePrevious, Tick, server
  <2>3. overtaken => overtaken'
    BY <2>2
  <2> QED
    BY <1>0, <2>1, <2>3
<1>5. ASSUME NEW w \in Writers, Activate(w) PROVE BudgetInv'
  <2>1. UNCHANGED <<moves, lookups, promised, revoked, overtaken, change, localize>> /\ active' = writer[w].tokens
    BY <1>5 DEF Activate, limiters, history
  <2>2. ~overtaken => active' \cap revoked = {}
    BY <1>5, <2>1 DEF Activate, BaseInv, SavedInv, OrderInv, Coming
  <2> QED
    BY <1>0, <2>1, <2>2
<1>6. ASSUME NEW w \in Writers, RetainChange(w) \/ RetainLookups(w) PROVE BudgetInv'
  <2>1. UNCHANGED <<moves, lookups, promised, active, revoked, overtaken>>
    BY <1>6 DEF RetainChange, RetainLookups, server, history
  <2>2. ~overtaken => writer[w].tokens = active
    BY <1>6 DEF RetainChange, RetainLookups, BaseInv, SavedInv, OrderInv, Writers, Coming, Leaving
  <2>3. \/ change' = Restrict(change, DOMAIN change \cap writer[w].tokens) /\ localize' = localize
        \/ localize' = Restrict(localize, DOMAIN localize \cap writer[w].tokens) /\ change' = change
    BY <1>6 DEF RetainChange, RetainLookups
  <2> DEFINE kept == writer[w].tokens
  <2>4. ~overtaken => active \subseteq kept
    BY <2>2
  <2>5. /\ change' = change \/ change' = Restrict(change, DOMAIN change \cap kept)
        /\ localize' = localize \/ localize' = Restrict(localize, DOMAIN localize \cap kept)
    BY <2>3
  <2> HIDE DEF kept
  <2> QED
    BY <2>1, <2>4, <2>5, RetainBudget
<1> QED
  BY <1>1, <1>2, <1>3, <1>4, <1>5, <1>6 DEF Next, Handler, Lookups, Change, Writers

\* The accounts hold in every reachable state.
LEMMA BudgetInvariant == Spec => [](BaseInv /\ BudgetInv)
<1>1. Init => BudgetInv
  <2> SUFFICES ASSUME Init, NEW d \in Devices PROVE PromiseOK(d) /\ MoveOK(d) /\ LookupOK(d)
    BY DEF BudgetInv
  <2>1. moves[d] = << >> /\ lookups[d] = << >> /\ promised[d] = -1 /\ DOMAIN change = {} /\ DOMAIN localize = {}
    BY DEF Init
  <2>2. ~(promised[d] >= 0)
    BY <2>1
  <2> QED
    BY <2>1, <2>2, EmptyAccount DEF PromiseOK, MoveOK, LookupOK
<1> QED
  BY <1>1, InitBase, NextBase, NextBudget, PTL DEF Spec

\* However the requests of a device interleave, and whatever changes of
\* credentials and runtimes run meanwhile, the ChangeLimiter lets it move at
\* most Capacity times at once and once per Interval over any period, until a
\* change overtakes setup.
THEOREM MovesStayRated == Spec => []MovesAreRated
<1>1. BudgetInv => MovesAreRated
  BY DEF BudgetInv, MoveOK, MovesAreRated
<1> QED
  BY <1>1, BudgetInvariant, PTL

\* The LocalizeLimiter lets a device cause no more lookups than its budget
\* over any period, and charges it for nothing but lookups that ran, until a
\* change overtakes setup.
THEOREM LookupsStayRated == Spec => []LookupsAreRated
<1>1. BaseInv /\ BudgetInv => LookupsAreRated
  BY DEF BaseInv, TypeOK, BudgetInv, LookupOK, LookupsAreRated
<1> QED
  BY <1>1, BudgetInvariant, PTL

\* A step of a request changes no other request.
LEMMA OneRequest ==
    ASSUME NEW r \in Requests,
           Handler(r) \/ Lookups(r) \/ (\E e \in Devices, s \in Scopes : Begin(r, e, s))
           \/ (\E e \in Devices : BeginLocation(r, e))
    PROVE  \E v : request' = [request EXCEPT ![r] = v]
<1>1. CASE Handler(r)
  BY <1>1 DEF Handler, AllowFirst, AllowSame, AllowMove, RefuseMove, GetReturns, JoinLookup, Goto, Return, Serve
<1>2. CASE Lookups(r)
  BY <1>2 DEF Lookups, TrySlot, TryBudget, EndLookup, Lookup
<1> QED
  BY <1>1, <1>2 DEF Begin, BeginLocation

\* A device that waits as long as Retry-After told it is not refused again.
THEOREM RetryAfterHonest == Spec => HonestRetryAfter
<1>1. BaseInv /\ BudgetInv /\ [Next]_vars =>
        [\A r \in Requests : LET until == promised[request[r].device] IN
            Refused(r) => until < 0 \/ now < until]_vars
  <2> SUFFICES ASSUME BaseInv, BudgetInv, Next, NEW r \in Requests, Refused(r)
               PROVE  promised[request[r].device] < 0 \/ now < promised[request[r].device]
    OBVIOUS
  <2> DEFINE d == request[r].device
  <2>1. request \in [Requests -> Request] /\ request[r].pc = "allow" /\ request'[r].pc = "idle" /\ d \in Devices
    BY DEF BaseInv, TypeOK, Request, Refused
  <2>0. now \in Int /\ promised[d] \in Int
    BY <2>1, AccountTypes
  <2> SUFFICES ASSUME promised[d] >= 0, now >= promised[d] PROVE FALSE
    BY <2>0
  <2>2. RefuseMove(r)
    <3>1. request'[r] # request[r]
      BY <2>1
    <3>2. ASSUME NEW q \in Requests, q # r, NEW v, request' = [request EXCEPT ![q] = v] PROVE FALSE
      BY <2>1, <3>1, <3>2
    <3>3. \E q \in Requests : Handler(q) \/ Lookups(q) \/ (\E e \in Devices, s \in Scopes : Begin(q, e, s))
                                \/ (\E e \in Devices : BeginLocation(q, e))
      BY <3>1 DEF Next, Reject, Change, PrepareSetup, PrepareTokens, PrepareRuntime, Lock, Activate, RetainChange,
                  RetainLookups, ClosePrevious, Tick, vars
    <3>4. Handler(r) \/ Lookups(r)
      BY <2>1, <3>2, <3>3, OneRequest DEF Begin, BeginLocation
    <3>5. ~Lookups(r)
      <4>1. RequestOK(request[r]) /\ request[r].lookup = "none"
        BY <2>1 DEF BaseInv, RequestOK
      <4> QED
        BY <4>1 DEF Lookups, TrySlot, TryBudget, EndLookup
    <3>6. ~GetReturns(r) /\ ~JoinLookup(r)
      BY <2>1 DEF GetReturns, JoinLookup
    <3>7. Serve(r) => request'[r].pc = "get"
      BY <2>1 DEF Serve, Request
    <3> QED
      BY <2>1, <3>4, <3>5, <3>6, <3>7 DEF Handler, AllowFirst, AllowSame, AllowMove
  <2>3. d \in DOMAIN change /\ Bucket(d).tokens < Interval
    BY <2>2, RefuseMoveFacts
  <2>4. \/ change[d].tokens >= Interval
        \/ change[d].tokens + (promised[d] - change[d].updated) >= Interval
    BY <2>1, <2>3 DEF BudgetInv, PromiseOK
  <2>5. /\ Bucket(d).tokens = Capacity * Interval \/ Bucket(d).tokens = change[d].tokens + (now - change[d].updated)
        /\ change[d].updated <= now
    BY <2>1, <2>3, BucketFacts DEF BaseInv, TypeOK
  <2>6. /\ now \in Int /\ promised[d] \in Int /\ change[d].tokens \in Int /\ change[d].updated \in Int
        /\ Interval \in Int /\ Capacity * Interval \in Int /\ Capacity * Interval >= Interval
    BY <2>1, <2>3, AccountTypes, FullFacts, LimiterAssumption
  <2> HIDE DEF d
  <2>7. Bucket(d).tokens \in Int
    BY <2>5, <2>6
  <2>8. now >= promised[d]
    OBVIOUS
  <2>9. change[d].tokens + (now - change[d].updated) >= Interval
    BY <2>4, <2>5, <2>6, <2>8
  <2> QED
    BY <2>3, <2>5, <2>6, <2>7, <2>9
<1> QED
  BY <1>1, BudgetInvariant, PTL DEF Spec, HonestRetryAfter
=============================================================================
