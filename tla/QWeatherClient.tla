--------------------------- MODULE QWeatherClient ---------------------------
(***************************************************************************)
(* The client of internal/providers/qweather (type Client): a bounded      *)
(* number of upstream requests, one retry, and a circuit that credential   *)
(* and rate-limit failures open for the whole account.                     *)
(*                                                                         *)
(* An element of Requests is a call of Fetch (kind "weather") or of        *)
(* Localize (kind "geo").  An upstream answer is reduced to its class: the *)
(* HTTP status and the code in the body lead to the same handling.  Time   *)
(* is counted in units of time.Duration, SecondUnits of them per second; a *)
(* Duration is a signed integer of Width bits and wraps around.            *)
(***************************************************************************)
EXTENDS Integers, FiniteSets

CONSTANTS
    Requests,
    Headers,            \* Retry-After headers upstream may send
    MaxConcurrency,     \* maximumConcurrency
    CircuitCooldown,    \* circuitCooldown, a setting: 1 minute to 1 day
    MaxBlock,           \* the cap of retryAfter, 15 minutes
    DefaultDelay,       \* retryAfter without a usable header, 1 minute
    SecondUnits, Width,
    MaxTime             \* bound on the clock

ASSUME ClientAssumption ==
    /\ Headers \subseteq [form : {"seconds", "date", "none"}, n : Int]
    /\ MaxConcurrency \in Nat \ {0}
    /\ MaxBlock \in Nat /\ CircuitCooldown \in Nat \ {0} /\ DefaultDelay \in 1..MaxBlock
    /\ SecondUnits \in Nat \ {0} /\ Width \in Nat \ {0} /\ MaxBlock < 2^(Width - 1)
    /\ MaxTime \in Nat

VARIABLES
    now,            \* c.now()
    slots,          \* len(c.slots)
    blockedUntil, closed,
    request,        \* local state of each call
    late            \* history: requests sent upstream since the circuit opened or the
                    \* client was closed

vars == <<now, slots, blockedUntil, closed, request, late>>

Kinds == {"weather", "geo"}

\* What requestOnce makes of an answer: transient ones are retried.
Transient == {"network", "server"}
AccountFailures == {"credentials", "rate_limit"}
Answers == {"ok", "bad_request", "response", "cancelled"} \cup Transient \cup AccountFailures

PCs == {"idle", "acquire", "ready", "send", "wait", "sleep", "done"}
Outcomes == Answers \cup {"none", "closed", "circuit_open"}

Request == [pc : PCs, kind : Kinds, attempt : 0..1, out : Outcomes]

Init ==
    /\ now = 0
    /\ slots = 0
    /\ blockedUntil = 0
    /\ closed = FALSE
    /\ request = [r \in Requests |-> [pc |-> "idle", kind |-> "weather", attempt |-> 0,
                                      out |-> "none"]]
    /\ late = 0

CircuitOpen == now < blockedUntil

-----------------------------------------------------------------------------
(* The circuit.                                                            *)

\* The value of an integer as a time.Duration.
Duration(x) ==
    LET half == 2^(Width - 1) IN ((x + half) % (2 * half)) - half

AtMost(d) == IF d > MaxBlock THEN MaxBlock ELSE d

\* retryAfter: seconds, or a date h.n units from now.
RetryAfter(h) ==
    CASE h.form = "seconds" /\ h.n > 0 -> AtMost(Duration(h.n * SecondUnits))
      [] h.form = "date" /\ h.n > 0    -> AtMost(h.n)
      [] OTHER                         -> DefaultDelay

\* Mutant: a later failure overwrites the deadline of an earlier one.
BlockForAlways(delay) == now + delay

\* Mutant: only the first failure opens the circuit.
BlockForOnce(delay) == IF blockedUntil = 0 THEN now + delay ELSE blockedUntil

\* blockFor: the deadline it leaves.
BlockFor(delay) == IF now + delay > blockedUntil THEN now + delay ELSE blockedUntil

\* circuitOnFailure: place name lookups never open the circuit.
OpensCircuit(r, a) == a \in AccountFailures /\ request[r].kind = "weather"

-----------------------------------------------------------------------------
(* A call.                                                                 *)

Begin(r, k) ==
    /\ request[r].pc = "idle"
    /\ request' = [request EXCEPT ![r] = [@ EXCEPT !.pc = "acquire", !.kind = k]]
    /\ UNCHANGED <<now, slots, blockedUntil, closed, late>>

\* acquire: a slot is free.
Acquire(r) ==
    /\ request[r].pc = "acquire"
    /\ slots < MaxConcurrency
    /\ slots' = slots + 1
    /\ request' = [request EXCEPT ![r] = [@ EXCEPT !.pc = "ready"]]
    /\ UNCHANGED <<now, blockedUntil, closed, late>>

\* acquire: the context ended first; no slot was taken.
AbandonAcquire(r) ==
    /\ request[r].pc = "acquire"
    /\ request' = [request EXCEPT ![r] = [@ EXCEPT !.pc = "done", !.out = "cancelled"]]
    /\ UNCHANGED <<now, slots, blockedUntil, closed, late>>

\* The call returns; the deferred function frees its slot.
Return(r, outcome) ==
    /\ slots' = slots - 1
    /\ request' = [request EXCEPT ![r] = [@ EXCEPT !.pc = "done", !.out = outcome]]

\* The next attempt is to be made.
Attempt(r, n) == request' = [request EXCEPT ![r] = [@ EXCEPT !.pc = "send", !.attempt = n]]

\* Mutant: the circuit is not checked.
CheckReadyClosedOnly(r) ==
    /\ request[r].pc = "ready"
    /\ \/ closed /\ Return(r, "closed")
       \/ ~closed /\ Attempt(r, 0) /\ UNCHANGED slots
    /\ UNCHANGED <<now, blockedUntil, closed, late>>

\* Mutant: the slot is kept when the circuit is open.
CheckReadyLeaking(r) ==
    /\ request[r].pc = "ready"
    /\ \/ closed /\ Return(r, "closed")
       \/ /\ ~closed /\ CircuitOpen /\ UNCHANGED slots
          /\ request' = [request EXCEPT ![r] = [@ EXCEPT !.pc = "done", !.out = "circuit_open"]]
       \/ ~closed /\ ~CircuitOpen /\ Attempt(r, 0) /\ UNCHANGED slots
    /\ UNCHANGED <<now, blockedUntil, closed, late>>

\* requestWithQuery: Ready, once per call.
CheckReady(r) ==
    /\ request[r].pc = "ready"
    /\ \/ closed /\ Return(r, "closed")
       \/ ~closed /\ CircuitOpen /\ Return(r, "circuit_open")
       \/ ~closed /\ ~CircuitOpen /\ Attempt(r, 0) /\ UNCHANGED slots
    /\ UNCHANGED <<now, blockedUntil, closed, late>>

\* requestOnce sends; the circuit may have opened since Ready was asked.
Send(r) ==
    /\ request[r].pc = "send"
    /\ request' = [request EXCEPT ![r] = [@ EXCEPT !.pc = "wait"]]
    /\ late' = IF CircuitOpen \/ closed THEN late + 1 ELSE late
    /\ UNCHANGED <<now, slots, blockedUntil, closed>>

\* requestOnce returns: the circuit is opened, and a first transient failure
\* is retried after a pause.
Answer(r, a, h) ==
    /\ request[r].pc = "wait"
    /\ blockedUntil' = IF ~OpensCircuit(r, a) THEN blockedUntil
                       ELSE BlockFor(IF a = "credentials" THEN CircuitCooldown ELSE RetryAfter(h))
    /\ late' = IF now < blockedUntil' /\ ~CircuitOpen /\ ~closed THEN 0 ELSE late
    /\ IF a \in Transient /\ request[r].attempt = 0
       THEN request' = [request EXCEPT ![r] = [@ EXCEPT !.pc = "sleep"]] /\ UNCHANGED slots
       ELSE Return(r, a)
    /\ UNCHANGED <<now, closed>>

\* The pause ends: the second attempt is made without another look at the
\* circuit.
Retry(r) ==
    /\ request[r].pc = "sleep"
    /\ Attempt(r, 1)
    /\ UNCHANGED <<now, slots, blockedUntil, closed, late>>

\* The context ends during the pause.
AbandonRetry(r) ==
    /\ request[r].pc = "sleep"
    /\ Return(r, "cancelled")
    /\ UNCHANGED <<now, blockedUntil, closed, late>>

\* Close, once.
Close ==
    /\ ~closed
    /\ closed' = TRUE
    /\ late' = IF CircuitOpen THEN late ELSE 0
    /\ UNCHANGED <<now, slots, blockedUntil, request>>

Tick ==
    /\ now < MaxTime
    /\ now' = now + 1
    /\ UNCHANGED <<slots, blockedUntil, closed, request, late>>

\* Every call has returned.
Finished ==
    /\ \A r \in Requests : request[r].pc = "done"
    /\ UNCHANGED vars

Progress(r) ==
    \/ Acquire(r) \/ CheckReady(r) \/ Send(r) \/ Retry(r)
    \/ \E a \in Answers, h \in Headers : Answer(r, a, h)

Next ==
    \/ \E r \in Requests : \/ \E k \in Kinds : Begin(r, k)
                           \/ Progress(r) \/ AbandonAcquire(r) \/ AbandonRetry(r)
    \/ Close \/ Tick \/ Finished

Spec == Init /\ [][Next]_vars

-----------------------------------------------------------------------------
(* Properties.                                                             *)

\* Every variable keeps its type.
TypeOK ==
    /\ now \in Nat
    /\ slots \in Nat
    /\ blockedUntil \in Nat
    /\ closed \in BOOLEAN
    /\ request \in [Requests -> Request]
    /\ late \in Nat

InFlight == {r \in Requests : request[r].pc \in {"ready", "send", "wait", "sleep"}}

\* docs/architecture.md: at most 8 upstream requests at a time.  The slots in
\* use are exactly the calls between acquire and their return, on every early
\* return, so that at most MaxConcurrency calls are at the account.
SlotsMatchCalls == slots = Cardinality(InFlight) /\ slots <= MaxConcurrency

\* Once the circuit is open, or the client closed, the load on the account
\* ends: until the circuit closes, only the calls that had passed the check
\* before send, and each at most its two attempts.
OpenCircuitStopsTraffic ==
    /\ CircuitOpen /\ ~closed => late <= 2 * (MaxConcurrency - 1)
    /\ closed => late <= 2 * MaxConcurrency

\* An account failure r reports in this step.
Reports(r) == request[r].pc = "wait" /\ request'[r].pc = "done"
              /\ request'[r].out \in AccountFailures

\* docs/architecture.md: 401/403 open the circuit, 429 blocks the account as
\* Retry-After says.  So such an answer to a weather request leaves it open,
\* whatever the header.
AccountFailureBlocks ==
    [][\A r \in Requests : Reports(r) /\ request[r].kind = "weather" => now < blockedUntil']_vars

\* The product of retryAfter does not wrap around.
Fits(h) == h.form = "seconds" => h.n * SecondUnits < 2^(Width - 1)

\* What the code does of it: the circuit is open after every account failure of
\* a weather request but a 429 whose seconds do not fit in a time.Duration,
\* however the other answers are ordered.
FittingFailureBlocks ==
    [][\A r \in Requests, a \in AccountFailures, h \in Headers :
          Answer(r, a, h) /\ OpensCircuit(r, a) /\ (a = "credentials" \/ Fits(h)) =>
             now < blockedUntil']_vars

\* The block moves forward only, and no further than the failure that moves it
\* asks for: the cooldown, or 15 minutes whatever Retry-After says, although
\* answers with shorter delays arrive later.  Only a weather answer moves it:
\* docs/architecture.md says that failures of the place name lookup never make
\* the weather unavailable.
CircuitMoves ==
    [][blockedUntil' # blockedUntil =>
          /\ blockedUntil < blockedUntil'
          /\ \E r \in Requests :
                /\ Reports(r) /\ request[r].kind = "weather"
                /\ blockedUntil' <= now + IF request'[r].out = "credentials" THEN CircuitCooldown
                                          ELSE MaxBlock]_vars
=============================================================================
