------------------------ MODULE QWeatherClientProofs ------------------------
(***************************************************************************)
(* Proofs about QWeatherClient: the slots, what may still reach the        *)
(* account once the circuit is open, and how the circuit moves, for any    *)
(* number of calls, slots and delays.                                      *)
(***************************************************************************)
EXTENDS QWeatherClient, FiniteSetTheorems, TLAPS

\* Calls that may send once more, and those that may send twice.
Owed == {r \in Requests : \/ request[r].pc \in {"send", "sleep"}
                          \/ request[r].pc = "wait" /\ request[r].attempt = 0}
Twice == {r \in Requests : request[r].pc = "send" /\ request[r].attempt = 0}

\* The requests sent since the circuit opened and those that may follow.
Traffic == late + Cardinality(Owed) + Cardinality(Twice)

SlotsInv == IsFiniteSet(InFlight) /\ SlotsMatchCalls

TrafficInv ==
    /\ CircuitOpen /\ ~closed => Traffic <= 2 * (MaxConcurrency - 1)
    /\ closed => Traffic <= 2 * MaxConcurrency

Inv == TypeOK /\ SlotsInv /\ TrafficInv

-----------------------------------------------------------------------------
(* Counting.                                                               *)

\* One element more or less, of a finite set.
LEMMA Count ==
    ASSUME NEW S, IsFiniteSet(S), NEW x
    PROVE  /\ Cardinality(S) \in Nat
           /\ IsFiniteSet(S \cup {x}) /\ IsFiniteSet(S \ {x})
           /\ x \notin S => Cardinality(S \cup {x}) = Cardinality(S) + 1
           /\ x \in S => Cardinality(S \ {x}) = Cardinality(S) - 1
           /\ x \in S => Cardinality(S) >= 1
<1>1. Cardinality(S) \in Nat
  BY FS_CardinalityType
<1>2. IsFiniteSet(S \cup {x}) /\ Cardinality(S \cup {x}) = IF x \in S THEN Cardinality(S) ELSE Cardinality(S) + 1
  BY FS_AddElement
<1>3. IsFiniteSet(S \ {x}) /\ Cardinality(S \ {x}) = IF x \in S THEN Cardinality(S) - 1 ELSE Cardinality(S)
  BY FS_RemoveElement
<1>4. Cardinality(S \ {x}) \in Nat
  BY <1>3, FS_CardinalityType
<1> QED
  BY <1>1, <1>2, <1>3, <1>4

\* A part is no larger than the whole.
LEMMA Part ==
    ASSUME NEW S, IsFiniteSet(S), NEW T, T \subseteq S
    PROVE  /\ IsFiniteSet(T) /\ Cardinality(T) \in Nat /\ Cardinality(S) \in Nat
           /\ Cardinality(T) <= Cardinality(S)
BY FS_Subset, FS_CardinalityType

\* The calls that may send are in flight.
LEMMA OwedInFlight ==
    ASSUME Inv
    PROVE  /\ Owed \subseteq InFlight /\ Twice \subseteq InFlight /\ Twice \subseteq Owed
           /\ IsFiniteSet(Owed) /\ IsFiniteSet(Twice)
           /\ Cardinality(InFlight) \in Nat /\ Cardinality(Owed) \in Nat /\ Cardinality(Twice) \in Nat
           /\ Cardinality(Owed) <= slots /\ Cardinality(Twice) <= slots
<1>1. Owed \subseteq InFlight /\ Twice \subseteq InFlight /\ Twice \subseteq Owed
  BY DEF Owed, Twice, InFlight
<1>2. IsFiniteSet(InFlight) /\ slots = Cardinality(InFlight)
  BY DEF Inv, SlotsInv, SlotsMatchCalls
<1> QED
  BY <1>1, <1>2, Part

-----------------------------------------------------------------------------
(* Delays.                                                                 *)

\* No delay exceeds the cap, and each is a number.
LEMMA DelayBounded ==
    ASSUME NEW h \in Headers
    PROVE  RetryAfter(h) \in Int /\ RetryAfter(h) <= MaxBlock
<1>1. h.n \in Int /\ h.form \in {"seconds", "date", "none"}
  BY ClientAssumption
<1>2. 2^(Width - 1) \in Int
  BY ClientAssumption
<1>3. \A x \in Int : AtMost(x) \in Int /\ AtMost(x) <= MaxBlock
  BY ClientAssumption DEF AtMost
<1>4. CASE h.form = "seconds" /\ h.n > 0
  <2>1. h.n * SecondUnits \in Int
    BY <1>1, ClientAssumption
  <2>2. \A x \in Int : Duration(x) \in Int
    <3> DEFINE half == 2^(Width - 1)
    <3>1. half \in Int /\ half > 0
      BY <1>2, ClientAssumption
    <3> HIDE DEF half
    <3>2. \A x \in Int : ((x + half) % (2 * half)) - half \in Int
      BY <3>1
    <3> QED
      BY <3>2 DEF Duration, half
  <2>3. RetryAfter(h) = AtMost(Duration(h.n * SecondUnits))
    BY <1>4 DEF RetryAfter
  <2> QED
    BY <1>3, <2>1, <2>2, <2>3
<1>5. CASE h.form = "date" /\ h.n > 0
  BY <1>1, <1>3, <1>5 DEF RetryAfter
<1>6. CASE ~(h.form = "seconds" /\ h.n > 0) /\ ~(h.form = "date" /\ h.n > 0)
  BY <1>6, ClientAssumption DEF RetryAfter
<1> QED
  BY <1>4, <1>5, <1>6

\* The delay an account failure asks for.
Delay(a, h) == IF a = "credentials" THEN CircuitCooldown ELSE RetryAfter(h)

\* The longest it may ask for.
Longest(a) == IF a = "credentials" THEN CircuitCooldown ELSE MaxBlock

\* blockFor leaves the deadline or moves it forward, by at most that.
LEMMA Blocks ==
    ASSUME TypeOK, NEW a, NEW h \in Headers
    PROVE  /\ Delay(a, h) \in Int /\ Delay(a, h) <= Longest(a)
           /\ BlockFor(Delay(a, h)) \in Nat
           /\ BlockFor(Delay(a, h)) >= blockedUntil /\ BlockFor(Delay(a, h)) >= now + Delay(a, h)
           /\ BlockFor(Delay(a, h)) # blockedUntil => BlockFor(Delay(a, h)) <= now + Longest(a)
<1>1. Delay(a, h) \in Int /\ Longest(a) \in Nat /\ Delay(a, h) <= Longest(a)
  BY DelayBounded, ClientAssumption DEF Delay, Longest
<1>2. now \in Nat /\ blockedUntil \in Nat
  BY DEF TypeOK
<1> DEFINE d == Delay(a, h)
           m == Longest(a)
<1> HIDE DEF d, m
<1>3. d \in Int /\ m \in Nat /\ d <= m
  BY <1>1 DEF d, m
<1> QED
  BY <1>2, <1>3 DEF BlockFor, d, m

-----------------------------------------------------------------------------
(* The invariant.                                                          *)

\* The client starts with free slots and a closed circuit.
LEMMA InitInv == Init => Inv
<1> SUFFICES ASSUME Init PROVE Inv
  OBVIOUS
<1>1. TypeOK
  <2>1. [pc |-> "idle", kind |-> "weather", attempt |-> 0, out |-> "none"] \in Request
    BY DEF Request, PCs, Kinds, Outcomes
  <2> QED
    BY <2>1 DEF Init, TypeOK
<1>2. InFlight = {}
  BY DEF Init, InFlight
<1>3. IsFiniteSet({}) /\ Cardinality({}) = 0
  BY FS_EmptySet
<1>4. SlotsInv
  BY <1>2, <1>3, ClientAssumption DEF Init, SlotsInv, SlotsMatchCalls
<1>5. TrafficInv
  BY DEF Init, TrafficInv, CircuitOpen
<1> QED
  BY <1>1, <1>4, <1>5 DEF Inv

\* The call of r went on to q, and no other.
Moves(r, q) == q \in Request /\ r \in Requests /\ request' = [request EXCEPT ![r] = q]

\* What a step of r does to the three sets.
LEMMA MoveSets ==
    ASSUME TypeOK, NEW r \in Requests, NEW q, Moves(r, q)
    PROVE  /\ request' \in [Requests -> Request] /\ request'[r] = q
           /\ \A s \in Requests \ {r} : request'[s] = request[s]
           /\ InFlight' = IF q.pc \in {"ready", "send", "wait", "sleep"}
                          THEN InFlight \cup {r} ELSE InFlight \ {r}
           /\ Owed' = IF q.pc \in {"send", "sleep"} \/ (q.pc = "wait" /\ q.attempt = 0)
                      THEN Owed \cup {r} ELSE Owed \ {r}
           /\ Twice' = IF q.pc = "send" /\ q.attempt = 0 THEN Twice \cup {r} ELSE Twice \ {r}
<1>1. /\ request' \in [Requests -> Request] /\ request'[r] = q
      /\ \A s \in Requests \ {r} : request'[s] = request[s]
  BY DEF Moves, TypeOK
<1>2. InFlight' = IF q.pc \in {"ready", "send", "wait", "sleep"} THEN InFlight \cup {r} ELSE InFlight \ {r}
  BY <1>1 DEF InFlight
<1>3. Owed' = IF q.pc \in {"send", "sleep"} \/ (q.pc = "wait" /\ q.attempt = 0)
              THEN Owed \cup {r} ELSE Owed \ {r}
  BY <1>1 DEF Owed
<1>4. Twice' = IF q.pc = "send" /\ q.attempt = 0 THEN Twice \cup {r} ELSE Twice \ {r}
  BY <1>1 DEF Twice
<1> QED
  BY <1>1, <1>2, <1>3, <1>4

\* An attempt is a move of its call.
LEMMA AttemptMoves ==
    ASSUME TypeOK, NEW r \in Requests, NEW n \in {0, 1}, Attempt(r, n), NEW q,
           q = [request[r] EXCEPT !.pc = "send", !.attempt = n]
    PROVE  Moves(r, q) /\ q.pc = "send" /\ q.attempt = n
<1>1. request \in [Requests -> Request]
  BY DEF TypeOK
<1>2. n \in 0..1
  OBVIOUS
<1>3. q \in Request /\ q.pc = "send" /\ q.attempt = n
  BY <1>1, <1>2 DEF Request, PCs
<1>4. request' = [request EXCEPT ![r] = q]
  BY DEF Attempt
<1> QED
  BY <1>3, <1>4 DEF Moves

\* The slot of a call is taken, given back, or kept.
LEMMA SlotsStep ==
    ASSUME Inv, NEW r \in Requests,
           \/ /\ slots < MaxConcurrency /\ slots' = slots + 1
              /\ r \notin InFlight /\ InFlight' = InFlight \cup {r}
           \/ slots' = slots - 1 /\ r \in InFlight /\ InFlight' = InFlight \ {r}
           \/ slots' = slots /\ InFlight' = InFlight
    PROVE  SlotsInv' /\ slots' \in Nat
<1>1. /\ IsFiniteSet(InFlight) /\ slots = Cardinality(InFlight) /\ slots <= MaxConcurrency
      /\ slots \in Nat /\ MaxConcurrency \in Nat
  BY ClientAssumption DEF Inv, SlotsInv, SlotsMatchCalls, TypeOK
<1>2. /\ IsFiniteSet(InFlight \cup {r}) /\ IsFiniteSet(InFlight \ {r})
      /\ r \notin InFlight => Cardinality(InFlight \cup {r}) = slots + 1
      /\ r \in InFlight => Cardinality(InFlight \ {r}) = slots - 1 /\ slots >= 1
  BY <1>1, Count
<1>3. IsFiniteSet(InFlight') /\ slots' = Cardinality(InFlight') /\ slots' <= MaxConcurrency /\ slots' \in Nat
  <2>1. CASE /\ slots < MaxConcurrency /\ slots' = slots + 1
             /\ r \notin InFlight /\ InFlight' = InFlight \cup {r}
    BY <1>1, <1>2, <2>1
  <2>2. CASE slots' = slots - 1 /\ r \in InFlight /\ InFlight' = InFlight \ {r}
    BY <1>1, <1>2, <2>2
  <2>3. CASE slots' = slots /\ InFlight' = InFlight
    BY <1>1, <2>3
  <2> QED
    BY <2>1, <2>2, <2>3
<1> QED
  BY <1>3 DEF SlotsInv, SlotsMatchCalls

\* While the circuit stays as it is and no call may send more, the bound holds.
LEMMA QuietStep ==
    ASSUME Inv, UNCHANGED <<now, blockedUntil, closed, late>>, Owed' \subseteq Owed, Twice' \subseteq Twice
    PROVE  TrafficInv'
<1>1. /\ Cardinality(Owed) \in Nat /\ Cardinality(Twice) \in Nat
      /\ Cardinality(Owed') \in Nat /\ Cardinality(Twice') \in Nat
      /\ Cardinality(Owed') <= Cardinality(Owed) /\ Cardinality(Twice') <= Cardinality(Twice)
  BY OwedInFlight, Part
<1>2. late \in Nat /\ late' = late
  BY DEF Inv, TypeOK
<1>3. Traffic' <= Traffic /\ Traffic \in Nat /\ Traffic' \in Nat
  BY <1>1, <1>2 DEF Traffic
<1>4. (CircuitOpen <=> CircuitOpen') /\ closed' = closed
  BY DEF CircuitOpen
<1>5. MaxConcurrency \in Nat
  BY ClientAssumption
<1> QED
  BY <1>3, <1>4, <1>5 DEF Inv, TrafficInv

\* A request is sent: what may follow is one less.
LEMMA SendTraffic ==
    ASSUME Inv, NEW r \in Requests, request[r].pc = "send",
           UNCHANGED <<now, blockedUntil, closed>>,
           late' = IF CircuitOpen \/ closed THEN late + 1 ELSE late,
           \/ request[r].attempt = 0 /\ Owed' = Owed /\ Twice' = Twice \ {r}
           \/ request[r].attempt # 0 /\ Owed' = Owed \ {r} /\ Twice' = Twice
    PROVE  TrafficInv'
<1>1. /\ IsFiniteSet(Owed) /\ IsFiniteSet(Twice)
      /\ Cardinality(Owed) \in Nat /\ Cardinality(Twice) \in Nat
  BY OwedInFlight
<1>2. r \in Owed /\ (request[r].attempt = 0 => r \in Twice)
  BY DEF Owed, Twice
<1>3. late \in Nat /\ MaxConcurrency \in Nat
  BY ClientAssumption DEF Inv, TypeOK
<1>4. Cardinality(Owed') + Cardinality(Twice') = Cardinality(Owed) + Cardinality(Twice) - 1
  <2>1. r \in Owed => Cardinality(Owed \ {r}) = Cardinality(Owed) - 1
    BY <1>1, Count
  <2>2. r \in Twice => Cardinality(Twice \ {r}) = Cardinality(Twice) - 1
    BY <1>1, Count
  <2>3. CASE request[r].attempt = 0 /\ Owed' = Owed /\ Twice' = Twice \ {r}
    BY <1>1, <1>2, <2>2, <2>3
  <2>4. CASE request[r].attempt # 0 /\ Owed' = Owed \ {r} /\ Twice' = Twice
    BY <1>1, <1>2, <2>1, <2>4
  <2> QED
    BY <2>3, <2>4
<1>5. Cardinality(Owed') \in Nat /\ Cardinality(Twice') \in Nat
  BY <1>1, Count, FS_CardinalityType
<1>6. (CircuitOpen <=> CircuitOpen') /\ closed' = closed
  BY DEF CircuitOpen
<1>7. CircuitOpen \/ closed => Traffic' = Traffic
  BY <1>1, <1>3, <1>4, <1>5 DEF Traffic
<1> QED
  BY <1>6, <1>7 DEF Inv, TrafficInv

\* An answer opens the circuit, or leaves it: the call that got it is no
\* longer among those that may send.
LEMMA AnswerTraffic ==
    ASSUME Inv, NEW r \in Requests, r \in InFlight, UNCHANGED <<now, closed>>, blockedUntil' \in Nat,
           late' = IF now < blockedUntil' /\ ~CircuitOpen /\ ~closed THEN 0 ELSE late,
           Owed' \subseteq Owed, Twice' \subseteq Twice,
           ~CircuitOpen /\ CircuitOpen' => r \notin Owed' /\ r \notin Twice'
    PROVE  TrafficInv'
<1>1. /\ Owed \subseteq InFlight /\ Twice \subseteq InFlight /\ IsFiniteSet(InFlight)
      /\ IsFiniteSet(Owed) /\ IsFiniteSet(Twice)
      /\ slots = Cardinality(InFlight) /\ slots <= MaxConcurrency
  BY OwedInFlight DEF Inv, SlotsInv, SlotsMatchCalls
<1>2. /\ slots \in Nat /\ late \in Nat /\ MaxConcurrency \in Nat /\ now \in Nat
      /\ blockedUntil \in Nat /\ closed \in BOOLEAN
  BY ClientAssumption DEF Inv, TypeOK
<1>3. /\ Cardinality(Owed) \in Nat /\ Cardinality(Twice) \in Nat
      /\ Cardinality(Owed') \in Nat /\ Cardinality(Twice') \in Nat
      /\ Cardinality(Owed') <= Cardinality(Owed) /\ Cardinality(Twice') <= Cardinality(Twice)
  BY <1>1, Part
<1>4. CASE closed \/ CircuitOpen
  <2>1. late' = late
    BY <1>4
  <2>2. Traffic' <= Traffic /\ Traffic \in Nat /\ Traffic' \in Nat
    BY <1>2, <1>3, <2>1 DEF Traffic
  <2> QED
    BY <1>2, <1>4, <2>2 DEF Inv, TrafficInv
<1>5. CASE ~closed /\ ~CircuitOpen /\ CircuitOpen'
  <2>1. Owed' \subseteq InFlight \ {r} /\ Twice' \subseteq InFlight \ {r}
    BY <1>1, <1>5
  <2>2. /\ IsFiniteSet(InFlight \ {r}) /\ Cardinality(InFlight \ {r}) = slots - 1
    BY <1>1, Count
  <2>3. Cardinality(Owed') <= slots - 1 /\ Cardinality(Twice') <= slots - 1
    BY <2>1, <2>2, Part
  <2>4. late' = 0
    BY <1>5 DEF CircuitOpen
  <2>5. Traffic' <= 2 * (MaxConcurrency - 1)
    BY <1>1, <1>2, <1>3, <2>3, <2>4 DEF Traffic
  <2> QED
    BY <1>5, <2>5 DEF TrafficInv
<1>6. CASE ~closed /\ ~CircuitOpen /\ ~CircuitOpen'
  BY <1>6 DEF TrafficInv
<1> QED
  BY <1>4, <1>5, <1>6

\* Every action keeps the invariant.
LEMMA NextInv == Inv /\ [Next]_vars => Inv'
<1> SUFFICES ASSUME Inv, [Next]_vars PROVE Inv'
  OBVIOUS
<1>1. /\ TypeOK /\ request \in [Requests -> Request] /\ now \in Nat /\ slots \in Nat
      /\ blockedUntil \in Nat /\ closed \in BOOLEAN /\ late \in Nat
  BY DEF Inv, TypeOK
<1>2. ASSUME NEW r \in Requests, NEW k \in Kinds, Begin(r, k) PROVE Inv'
  <2> DEFINE q == [request[r] EXCEPT !.pc = "acquire", !.kind = k]
  <2>1. Moves(r, q) /\ q.pc = "acquire"
    BY <1>1, <1>2 DEF Begin, Moves, Request, PCs
  <2> HIDE DEF q
  <2>2. InFlight' = InFlight /\ Owed' \subseteq Owed /\ Twice' \subseteq Twice
    BY <1>1, <1>2, <2>1, MoveSets DEF Begin, InFlight
  <2>3. TypeOK'
    BY <1>1, <1>2, <2>1, MoveSets DEF Begin, TypeOK
  <2>4. SlotsInv' /\ TrafficInv'
    BY <1>2, <2>2, SlotsStep, QuietStep DEF Begin
  <2> QED
    BY <2>3, <2>4 DEF Inv
<1>3. ASSUME NEW r \in Requests, Acquire(r) PROVE Inv'
  <2> DEFINE q == [request[r] EXCEPT !.pc = "ready"]
  <2>1. Moves(r, q) /\ q.pc = "ready"
    BY <1>1, <1>3 DEF Acquire, Moves, Request, PCs
  <2> HIDE DEF q
  <2>2. /\ InFlight' = InFlight \cup {r} /\ r \notin InFlight
        /\ Owed' \subseteq Owed /\ Twice' \subseteq Twice
    BY <1>1, <1>3, <2>1, MoveSets DEF Acquire, InFlight
  <2>3. SlotsInv' /\ TrafficInv' /\ slots' \in Nat
    BY <1>3, <2>2, SlotsStep, QuietStep DEF Acquire
  <2>4. TypeOK'
    BY <1>1, <1>3, <2>1, <2>3, MoveSets DEF Acquire, TypeOK
  <2> QED
    BY <2>3, <2>4 DEF Inv
<1>4. ASSUME NEW r \in Requests, AbandonAcquire(r) PROVE Inv'
  <2> DEFINE q == [request[r] EXCEPT !.pc = "done", !.out = "cancelled"]
  <2>1. Moves(r, q) /\ q.pc = "done"
    BY <1>1, <1>4 DEF AbandonAcquire, Moves, Request, PCs, Outcomes, Answers
  <2> HIDE DEF q
  <2>2. InFlight' = InFlight /\ Owed' \subseteq Owed /\ Twice' \subseteq Twice
    BY <1>1, <1>4, <2>1, MoveSets DEF AbandonAcquire, InFlight
  <2>3. TypeOK'
    BY <1>1, <1>4, <2>1, MoveSets DEF AbandonAcquire, TypeOK
  <2>4. SlotsInv' /\ TrafficInv'
    BY <1>4, <2>2, SlotsStep, QuietStep DEF AbandonAcquire
  <2> QED
    BY <2>3, <2>4 DEF Inv
<1>5. ASSUME NEW r \in Requests, NEW out \in Outcomes, r \in InFlight, Return(r, out),
             UNCHANGED <<now, blockedUntil, closed, late>>
      PROVE  Inv'
  <2> DEFINE q == [request[r] EXCEPT !.pc = "done", !.out = out]
  <2>1. Moves(r, q) /\ q.pc = "done"
    BY <1>1, <1>5 DEF Return, Moves, Request, PCs
  <2> HIDE DEF q
  <2>2. InFlight' = InFlight \ {r} /\ Owed' \subseteq Owed /\ Twice' \subseteq Twice
    BY <1>1, <2>1, MoveSets
  <2>3. SlotsInv' /\ TrafficInv' /\ slots' \in Nat
    BY <1>5, <2>2, SlotsStep, QuietStep DEF Return
  <2>4. TypeOK'
    BY <1>1, <1>5, <2>1, <2>3, MoveSets DEF TypeOK
  <2> QED
    BY <2>3, <2>4 DEF Inv
<1>6. ASSUME NEW r \in Requests, CheckReady(r) PROVE Inv'
  <2>1. r \in InFlight
    BY <1>6 DEF CheckReady, InFlight
  <2>2. CASE Return(r, "closed") \/ Return(r, "circuit_open")
    BY <1>5, <1>6, <2>1, <2>2 DEF CheckReady, Outcomes
  <2>3. CASE ~closed /\ ~CircuitOpen /\ Attempt(r, 0) /\ UNCHANGED slots
    <3> DEFINE q == [request[r] EXCEPT !.pc = "send", !.attempt = 0]
    <3>1. Moves(r, q) /\ q.pc = "send"
      BY <1>1, <2>3, AttemptMoves
    <3> HIDE DEF q
    <3>2. InFlight' = InFlight
      BY <1>1, <2>1, <3>1, MoveSets, SMTT(30)
    <3>3. SlotsInv'
      BY <2>3, <3>2, SlotsStep
    <3>4. TypeOK'
      BY <1>1, <1>6, <2>3, <3>1, MoveSets DEF CheckReady, TypeOK
    <3>5. TrafficInv'
      BY <1>6, <2>3 DEF CheckReady, TrafficInv, CircuitOpen
    <3> QED
      BY <3>3, <3>4, <3>5 DEF Inv
  <2> QED
    BY <1>6, <2>2, <2>3 DEF CheckReady
<1>7. ASSUME NEW r \in Requests, Send(r) PROVE Inv'
  <2> DEFINE q == [request[r] EXCEPT !.pc = "wait"]
  <2>1. Moves(r, q) /\ q.pc = "wait" /\ q.attempt = request[r].attempt
    BY <1>1, <1>7 DEF Send, Moves, Request, PCs
  <2> HIDE DEF q
  <2>2. r \in InFlight /\ r \in Owed /\ (r \in Twice <=> request[r].attempt = 0)
    BY <1>7 DEF Send, InFlight, Owed, Twice
  <2>3. /\ InFlight' = InFlight
        /\ \/ request[r].attempt = 0 /\ Owed' = Owed /\ Twice' = Twice \ {r}
           \/ request[r].attempt # 0 /\ Owed' = Owed \ {r} /\ Twice' = Twice
    BY <1>1, <2>1, <2>2, MoveSets
  <2>4. SlotsInv' /\ TrafficInv'
    BY <1>7, <2>3, SlotsStep, SendTraffic DEF Send
  <2>5. TypeOK'
    BY <1>1, <1>7, <2>1, MoveSets DEF Send, TypeOK
  <2> QED
    BY <2>4, <2>5 DEF Inv
<1>8. ASSUME NEW r \in Requests, NEW a \in Answers, NEW h \in Headers, Answer(r, a, h) PROVE Inv'
  <2>1. r \in InFlight /\ request[r].pc = "wait"
    BY <1>8 DEF Answer, InFlight
  <2>2. blockedUntil' \in Nat /\ (~OpensCircuit(r, a) => blockedUntil' = blockedUntil)
    BY <1>1, <1>8, Blocks DEF Answer, Delay
  <2>3. late' = (IF now < blockedUntil' /\ ~CircuitOpen /\ ~closed THEN 0 ELSE late) /\ late' \in Nat
    BY <1>1, <1>8 DEF Answer
  <2>4. CASE a \in Transient /\ request[r].attempt = 0
    <3> DEFINE q == [request[r] EXCEPT !.pc = "sleep"]
    <3>1. Moves(r, q) /\ q.pc = "sleep" /\ slots' = slots
      BY <1>1, <1>8, <2>4 DEF Answer, Moves, Request, PCs
    <3> HIDE DEF q
    <3>2. r \in Owed
      BY <2>1, <2>4 DEF Owed
    <3>3. InFlight' = InFlight /\ Owed' \subseteq Owed /\ Twice' \subseteq Twice
      BY <1>1, <2>1, <3>1, <3>2, MoveSets
    <3>4. blockedUntil' = blockedUntil
      BY <2>2, <2>4 DEF OpensCircuit, Transient, AccountFailures
    <3>5. ~CircuitOpen => ~CircuitOpen'
      BY <1>8, <3>4 DEF Answer, CircuitOpen
    <3>6. SlotsInv' /\ TrafficInv'
      BY <1>8, <2>1, <2>2, <2>3, <3>1, <3>3, <3>5, SlotsStep, AnswerTraffic DEF Answer
    <3>7. TypeOK'
      BY <1>1, <1>8, <2>2, <2>3, <3>1, MoveSets DEF Answer, TypeOK
    <3> QED
      BY <3>6, <3>7 DEF Inv
  <2>5. CASE ~(a \in Transient /\ request[r].attempt = 0)
    <3> DEFINE q == [request[r] EXCEPT !.pc = "done", !.out = a]
    <3>1. Moves(r, q) /\ q.pc = "done" /\ slots' = slots - 1
      BY <1>1, <1>8, <2>5 DEF Answer, Return, Moves, Request, PCs, Outcomes
    <3> HIDE DEF q
    <3>2. /\ InFlight' = InFlight \ {r} /\ Owed' \subseteq Owed /\ Twice' \subseteq Twice
          /\ r \notin Owed' /\ r \notin Twice'
      BY <1>1, <3>1, MoveSets
    <3>3. SlotsInv' /\ TrafficInv' /\ slots' \in Nat
      BY <1>8, <2>1, <2>2, <2>3, <3>1, <3>2, SlotsStep, AnswerTraffic DEF Answer
    <3>4. TypeOK'
      BY <1>1, <1>8, <2>2, <2>3, <3>1, <3>3, MoveSets DEF Answer, TypeOK
    <3> QED
      BY <3>3, <3>4 DEF Inv
  <2> QED
    BY <2>4, <2>5
<1>9. ASSUME NEW r \in Requests, Retry(r) PROVE Inv'
  <2> DEFINE q == [request[r] EXCEPT !.pc = "send", !.attempt = 1]
  <2>1. Moves(r, q) /\ q.pc = "send" /\ q.attempt = 1
    BY <1>1, <1>9, AttemptMoves DEF Retry
  <2> HIDE DEF q
  <2>2. r \in InFlight /\ r \in Owed
    BY <1>9 DEF Retry, InFlight, Owed
  <2>3. InFlight' = InFlight /\ Owed' \subseteq Owed /\ Twice' \subseteq Twice
    BY <1>1, <2>1, <2>2, MoveSets
  <2>4. SlotsInv' /\ TrafficInv'
    BY <1>9, <2>3, SlotsStep, QuietStep DEF Retry
  <2>5. TypeOK'
    BY <1>1, <1>9, <2>1, MoveSets DEF Retry, TypeOK
  <2> QED
    BY <2>4, <2>5 DEF Inv
<1>10. ASSUME NEW r \in Requests, AbandonRetry(r) PROVE Inv'
  <2>1. r \in InFlight
    BY <1>10 DEF AbandonRetry, InFlight
  <2> QED
    BY <1>5, <1>10, <2>1 DEF AbandonRetry, Outcomes, Answers
<1>11. CASE Close
  <2>1. InFlight' = InFlight /\ Owed' = Owed /\ Twice' = Twice
    BY <1>11 DEF Close, InFlight, Owed, Twice
  <2>2. TypeOK'
    BY <1>1, <1>11 DEF Close, TypeOK
  <2>3. SlotsInv'
    BY <1>11, <2>1 DEF Inv, SlotsInv, SlotsMatchCalls, Close
  <2>4. /\ Cardinality(Owed) \in Nat /\ Cardinality(Twice) \in Nat
        /\ Cardinality(Owed) <= MaxConcurrency /\ Cardinality(Twice) <= MaxConcurrency
    BY <1>1, ClientAssumption, OwedInFlight DEF Inv, SlotsInv, SlotsMatchCalls
  <2>5. TrafficInv'
    <3>1. CASE CircuitOpen
      <4>1. Traffic' = Traffic /\ Traffic \in Nat /\ Traffic <= 2 * (MaxConcurrency - 1)
        BY <1>1, <1>11, <2>1, <2>4, <3>1 DEF Close, Inv, TrafficInv, Traffic
      <4> QED
        BY <1>11, <4>1, ClientAssumption DEF Close, TrafficInv
    <3>2. CASE ~CircuitOpen
      BY <1>1, <1>11, <2>1, <2>4, <3>2, ClientAssumption DEF Close, TrafficInv, Traffic
    <3> QED
      BY <3>1, <3>2
  <2> QED
    BY <2>2, <2>3, <2>5 DEF Inv
<1>12. CASE Tick
  <2>1. InFlight' = InFlight /\ Owed' = Owed /\ Twice' = Twice /\ (CircuitOpen' => CircuitOpen)
    BY <1>1, <1>12 DEF Tick, InFlight, Owed, Twice, CircuitOpen
  <2>2. TypeOK'
    BY <1>1, <1>12 DEF Tick, TypeOK
  <2>3. SlotsInv' /\ TrafficInv'
    BY <1>12, <2>1 DEF Tick, Inv, SlotsInv, SlotsMatchCalls, TrafficInv, Traffic
  <2> QED
    BY <2>2, <2>3 DEF Inv
<1>13. CASE UNCHANGED vars
  BY <1>13 DEF vars, Inv, TypeOK, SlotsInv, SlotsMatchCalls, InFlight, TrafficInv, Traffic, Owed,
               Twice, CircuitOpen
<1> QED
  BY <1>2, <1>3, <1>4, <1>6, <1>7, <1>8, <1>9, <1>10, <1>11, <1>12, <1>13 DEF Next, Progress, Finished

\* The invariant holds in every reachable state.
LEMMA Invariant == Spec => []Inv
BY InitInv, NextInv, PTL DEF Spec

-----------------------------------------------------------------------------
(* The properties.                                                         *)

\* Every variable of the client keeps its type.
THEOREM ClientTypeCorrect == Spec => []TypeOK
<1>1. Inv => TypeOK
  BY DEF Inv
<1> QED
  BY <1>1, Invariant, PTL

\* The slots in use are those of the calls between acquire and their return,
\* never more than there are.
THEOREM SlotsNeverLeak == Spec => []SlotsMatchCalls
<1>1. Inv => SlotsMatchCalls
  BY DEF Inv, SlotsInv
<1> QED
  BY <1>1, Invariant, PTL

\* An open circuit, or a closed client, ends the traffic: what was admitted
\* before sends at most its two attempts.
THEOREM TrafficEnds == Spec => []OpenCircuitStopsTraffic
<1>1. ASSUME Inv PROVE OpenCircuitStopsTraffic
  <2>1. late \in Nat /\ Cardinality(Owed) \in Nat /\ Cardinality(Twice) \in Nat /\ MaxConcurrency \in Nat
    BY <1>1, OwedInFlight, ClientAssumption DEF Inv, TypeOK
  <2>2. late <= Traffic /\ Traffic \in Nat
    BY <2>1 DEF Traffic
  <2> QED
    BY <1>1, <2>1, <2>2 DEF Inv, TrafficInv, OpenCircuitStopsTraffic
<1> QED
  BY <1>1, Invariant, PTL

\* Only a step that reports an account failure of a weather call moves the
\* deadline, and it leaves it where blockFor put it.
LEMMA DeadlineStep ==
    ASSUME Inv, [Next]_vars, blockedUntil' # blockedUntil
    PROVE  \E r \in Requests, a \in AccountFailures, h \in Headers :
              /\ request[r].kind = "weather" /\ Answer(r, a, h)
              /\ blockedUntil' = BlockFor(Delay(a, h))
<1>1. \E r \in Requests, a \in Answers, h \in Headers : Answer(r, a, h)
  BY DEF Next, Progress, Finished, vars, Begin, Acquire, AbandonAcquire, CheckReady, Send, Retry,
         AbandonRetry, Close, Tick
<1>2. PICK r \in Requests, a \in Answers, h \in Headers : Answer(r, a, h)
  BY <1>1
<1>3. OpensCircuit(r, a)
  BY <1>2 DEF Answer
<1> QED
  BY <1>2, <1>3 DEF Answer, OpensCircuit, Delay

\* The answer that carries an account failure ends its call with it.
LEMMA FailureReports ==
    ASSUME Inv, NEW r \in Requests, NEW a \in AccountFailures, NEW h \in Headers, Answer(r, a, h)
    PROVE  Reports(r) /\ request'[r].out = a
<1>1. ~(a \in Transient /\ request[r].attempt = 0)
  BY DEF Transient, AccountFailures
<1>2. request' = [request EXCEPT ![r] = [@ EXCEPT !.pc = "done", !.out = a]] /\ request[r].pc = "wait"
  BY <1>1 DEF Answer, Return
<1>3. request \in [Requests -> Request]
  BY DEF Inv, TypeOK
<1>4. request'[r].pc = "done" /\ request'[r].out = a
  BY <1>2, <1>3 DEF Request
<1> QED
  BY <1>2, <1>4 DEF Reports

\* The block of the account moves forward only, no further than the failure that
\* moves it may ask for, and only when a weather call reports that failure,
\* whatever the headers say and in whatever order the answers arrive.
THEOREM CircuitDiscipline == Spec => CircuitMoves
<1> DEFINE Moved == blockedUntil' # blockedUntil =>
                      /\ blockedUntil < blockedUntil'
                      /\ \E r \in Requests :
                            /\ Reports(r) /\ request[r].kind = "weather"
                            /\ blockedUntil' <= now + IF request'[r].out = "credentials"
                                                      THEN CircuitCooldown ELSE MaxBlock
<1>1. ASSUME Inv, [Next]_vars PROVE Moved
  <2> SUFFICES ASSUME blockedUntil' # blockedUntil
               PROVE  /\ blockedUntil < blockedUntil'
                      /\ \E r \in Requests :
                            /\ Reports(r) /\ request[r].kind = "weather"
                            /\ blockedUntil' <= now + IF request'[r].out = "credentials"
                                                      THEN CircuitCooldown ELSE MaxBlock
    OBVIOUS
  <2>1. PICK r \in Requests, a \in AccountFailures, h \in Headers :
              /\ request[r].kind = "weather" /\ Answer(r, a, h)
              /\ blockedUntil' = BlockFor(Delay(a, h))
    BY <1>1, DeadlineStep
  <2>2. Reports(r) /\ request'[r].out = a
    BY <1>1, <2>1, FailureReports
  <2>3. TypeOK /\ blockedUntil \in Nat
    BY <1>1 DEF Inv, TypeOK
  <2>4. blockedUntil' \in Nat /\ blockedUntil' >= blockedUntil /\ blockedUntil' <= now + Longest(a)
    BY <2>1, <2>3, Blocks
  <2>5. blockedUntil < blockedUntil'
    BY <2>3, <2>4
  <2> QED
    BY <2>1, <2>2, <2>4, <2>5 DEF Longest
<1>2. Inv /\ [Next]_vars => [Moved]_vars
  BY <1>1
<1>3. Spec => [][Moved]_vars
  BY <1>2, Invariant, PTL DEF Spec
<1> QED
  BY <1>3 DEF CircuitMoves

-----------------------------------------------------------------------------
(* Delays that can be represented.                                         *)

\* Then the delay is positive.
LEMMA DelayPositive ==
    ASSUME NEW h \in Headers, Fits(h)
    PROVE  RetryAfter(h) \in Int /\ RetryAfter(h) > 0
<1> DEFINE half == 2^(Width - 1)
<1>1. half \in Int /\ MaxBlock < half /\ MaxBlock \in Nat /\ half > 0 /\ SecondUnits \in Nat \ {0}
  BY ClientAssumption
<1>2. h.n \in Int
  BY ClientAssumption
<1>3. MaxBlock >= 1 /\ DefaultDelay \in Int /\ DefaultDelay > 0
  BY ClientAssumption
<1>4. h.form = "seconds" => h.n * SecondUnits < half
  BY DEF Fits
<1>5. \A x \in Int : Duration(x) = ((x + half) % (2 * half)) - half
  BY DEF Duration
<1> HIDE DEF half
<1>6. CASE h.form = "seconds" /\ h.n > 0
  <2> DEFINE x == h.n * SecondUnits
  <2>1. x \in Int /\ x > 0 /\ x < half
    BY <1>1, <1>2, <1>4, <1>6
  <2>2. RetryAfter(h) = AtMost(Duration(x))
    BY <1>6 DEF RetryAfter
  <2> HIDE DEF x
  <2>3. (x + half) % (2 * half) = x + half
    BY <1>1, <2>1
  <2>4. Duration(x) = x
    BY <1>1, <1>5, <2>1, <2>3
  <2> QED
    BY <1>1, <1>3, <2>1, <2>2, <2>4 DEF AtMost
<1>7. CASE h.form = "date" /\ h.n > 0
  BY <1>1, <1>2, <1>3, <1>7 DEF RetryAfter, AtMost
<1>8. CASE ~(h.form = "seconds" /\ h.n > 0) /\ ~(h.form = "date" /\ h.n > 0)
  BY <1>3, <1>8 DEF RetryAfter
<1> QED
  BY <1>6, <1>7, <1>8

\* The circuit is open after every account failure of a weather call, but one
\* whose number of seconds wraps around before retryAfter caps it.
THEOREM FailureOpensCircuit == Spec => FittingFailureBlocks
<1> DEFINE Opens == \A r \in Requests, a \in AccountFailures, h \in Headers :
                       Answer(r, a, h) /\ OpensCircuit(r, a) /\ (a = "credentials" \/ Fits(h)) =>
                          now < blockedUntil'
<1>1. ASSUME Inv PROVE Opens
  <2> SUFFICES ASSUME NEW r \in Requests, NEW a \in AccountFailures, NEW h \in Headers,
                      Answer(r, a, h), OpensCircuit(r, a), a = "credentials" \/ Fits(h)
               PROVE  now < blockedUntil'
    OBVIOUS
  <2>1. TypeOK /\ now \in Nat
    BY <1>1 DEF Inv, TypeOK
  <2>2. blockedUntil' = BlockFor(Delay(a, h))
    BY DEF Answer, Delay
  <2>3. Delay(a, h) \in Int /\ Delay(a, h) > 0
    BY DelayPositive, ClientAssumption DEF Delay
  <2>4. BlockFor(Delay(a, h)) \in Nat /\ BlockFor(Delay(a, h)) >= now + Delay(a, h)
    BY <2>1, Blocks
  <2> QED
    BY <2>1, <2>2, <2>3, <2>4
<1>2. Inv /\ [Next]_vars => [Opens]_vars
  BY <1>1
<1>3. Spec => [][Opens]_vars
  BY <1>2, Invariant, PTL DEF Spec
<1> QED
  BY <1>3 DEF FittingFailureBlocks
=============================================================================
