--------------------------- MODULE AdminAuthProofs ---------------------------
(***************************************************************************)
(* Proofs about AdminAuth, for any number of calls, tokens and attempts    *)
(* and any limits.                                                         *)
(*                                                                         *)
(* Inv has three parts: the calls and the password slots; the table of     *)
(* sessions, where a token that was ever issued cannot be issued again;    *)
(* and the limiter, where the attempts of finished windows are paid for by *)
(* the time the current window starts at.                                  *)
(***************************************************************************)
EXTENDS AdminAuth, FiniteSetTheorems, TLAPS

Verifying == {c \in Calls : call[c].pc = "verify"}

\* A call never knows a time that has not come, nor a token nobody issued.
CallOK(q) == q.time <= now /\ (q.pc \in {"validate", "commit"} => q.token \in Tokens /\ born[q.token] # -1)

CallInv ==
    /\ \A c \in Calls : CallOK(call[c])
    /\ IsFiniteSet(Verifying) /\ slots = Cardinality(Verifying)

TableInv ==
    /\ IsFiniteSet(DOMAIN sessions) /\ Cardinality(DOMAIN sessions) <= MaxSessions
    /\ DOMAIN sessions \cap ended = {}
    /\ \A t \in DOMAIN sessions \cup ended : born[t] # -1
    /\ \A t \in DOMAIN sessions : sessions[t].createdAt <= born[t]

\* The attempts of the current window came after its start, and those before
\* fill at most the windows that fit before it.
LimitInv ==
    /\ windowStart = -1 => attempts = 0 /\ admitted = << >>
    /\ windowStart # -1 => Len(admitted) <= attempts + Maximum * (windowStart \div Window)
    /\ attempts <= Len(admitted)
    /\ \A i \in 1..Len(admitted) : i > Len(admitted) - attempts => admitted[i] >= windowStart

Inv == TypeOK /\ CallInv /\ TableInv /\ LimitInv

-----------------------------------------------------------------------------
(* Calls.                                                                  *)

\* The state between two requests is a call's state.
LEMMA IdleType == Idle \in Call /\ Idle.pc = "idle" /\ Idle.time = 0
BY AuthAssumption DEF Idle, Call, PCs

\* The steps of one call.
LEMMA CallMoves ==
    ASSUME TypeOK, CallInv, NEW c \in Calls, NEW q \in Call, call' = [call EXCEPT ![c] = q], now' = now,
           q.time <= now, q.pc \in {"validate", "commit"} => q.token \in Tokens /\ born'[q.token] # -1,
           \A t \in Tokens : born[t] # -1 => born'[t] # -1,
           \/ (q.pc = "verify" <=> call[c].pc = "verify") /\ slots' = slots
           \/ q.pc = "verify" /\ call[c].pc # "verify" /\ slots < PasswordSlots /\ slots' = slots + 1
           \/ q.pc # "verify" /\ call[c].pc = "verify" /\ slots' = slots - 1
    PROVE  CallInv' /\ call' \in [Calls -> Call] /\ slots' \in 0..PasswordSlots
<1>1. call \in [Calls -> Call] /\ slots \in 0..PasswordSlots /\ PasswordSlots \in Nat
  BY AuthAssumption DEF TypeOK
<1>2. call' \in [Calls -> Call] /\ (\A x \in Calls : CallOK(call[x]))'
  BY <1>1 DEF CallInv, CallOK
<1>3. Verifying' = IF q.pc = "verify" THEN Verifying \cup {c} ELSE Verifying \ {c}
  BY <1>1 DEF Verifying
<1>4. c \in Verifying <=> call[c].pc = "verify"
  BY DEF Verifying
<1>5. IsFiniteSet(Verifying) /\ slots = Cardinality(Verifying)
  BY DEF CallInv
<1>6. CASE (q.pc = "verify" <=> call[c].pc = "verify") /\ slots' = slots
  <2>1. Verifying' = Verifying
    BY <1>3, <1>4, <1>6
  <2> QED
    BY <1>1, <1>2, <1>5, <1>6, <2>1 DEF CallInv
<1>7. CASE q.pc = "verify" /\ call[c].pc # "verify" /\ slots < PasswordSlots /\ slots' = slots + 1
  <2>1. Verifying' = Verifying \cup {c} /\ c \notin Verifying
    BY <1>3, <1>4, <1>7
  <2>2. IsFiniteSet(Verifying') /\ Cardinality(Verifying') = Cardinality(Verifying) + 1
    BY <1>5, <2>1, FS_AddElement
  <2> QED
    BY <1>1, <1>2, <1>5, <1>7, <2>2 DEF CallInv
<1>8. CASE q.pc # "verify" /\ call[c].pc = "verify" /\ slots' = slots - 1
  <2>1. Verifying' = Verifying \ {c} /\ c \in Verifying
    BY <1>3, <1>4, <1>8
  <2>2. IsFiniteSet(Verifying') /\ Cardinality(Verifying') = Cardinality(Verifying) - 1
    BY <1>5, <2>1, FS_RemoveElement
  <2>3. Cardinality(Verifying') \in Nat
    BY <2>2, FS_CardinalityType
  <2> QED
    BY <1>1, <1>2, <1>5, <1>8, <2>2, <2>3 DEF CallInv
<1> QED
  BY <1>6, <1>7, <1>8

\* Going on, reading the clock and answering change one call, which has the
\* time it last read.
LEMMA GotoFacts ==
    ASSUME TypeOK, CallInv, NEW c \in Calls
    PROVE  /\ \A pc : Goto(c, pc) /\ pc \in {"slot", "verify", "reset", "clear", "clock"} =>
                 \E q \in Call : call' = [call EXCEPT ![c] = q] /\ q.pc = pc /\ q.time <= now
           /\ \A pc : ReadClock(c, pc) /\ pc \in {"allow", "create"} =>
                 \E q \in Call : call' = [call EXCEPT ![c] = q] /\ q.pc = pc /\ q.time <= now
           /\ Answer(c) => \E q \in Call : call' = [call EXCEPT ![c] = q] /\ q.pc = "idle" /\ q.time <= now
<1>1. call[c] \in Call /\ now \in 0..MaxTime /\ call[c].time <= now /\ MaxTime \in Nat
  BY AuthAssumption DEF TypeOK, CallInv, CallOK
<1>2. ASSUME NEW pc, Goto(c, pc), pc \in {"slot", "verify", "reset", "clear", "clock"}
      PROVE  \E q \in Call : call' = [call EXCEPT ![c] = q] /\ q.pc = pc /\ q.time <= now
  <2> DEFINE q == [call[c] EXCEPT !.pc = pc]
  <2>1. q \in Call /\ q.pc = pc /\ q.time <= now
    BY <1>1, <1>2 DEF Call, PCs
  <2>2. call' = [call EXCEPT ![c] = q]
    BY <1>2 DEF Goto
  <2> HIDE DEF q
  <2> QED
    BY <2>1, <2>2
<1>3. ASSUME NEW pc, ReadClock(c, pc), pc \in {"allow", "create"}
      PROVE  \E q \in Call : call' = [call EXCEPT ![c] = q] /\ q.pc = pc /\ q.time <= now
  <2> DEFINE q == [call[c] EXCEPT !.pc = pc, !.time = now]
  <2>0. now <= now
    BY <1>1
  <2>1. q \in Call /\ q.pc = pc /\ q.time = now
    BY <1>1, <1>3 DEF Call, PCs
  <2>2. call' = [call EXCEPT ![c] = q]
    BY <1>3 DEF ReadClock
  <2> HIDE DEF q
  <2> QED
    BY <2>0, <2>1, <2>2
<1>4. Idle.time <= now
  BY <1>1, IdleType
<1> QED
  BY <1>2, <1>3, <1>4, IdleType DEF Answer

\* A setup or a change of the password starts at the password slot.
LEMMA StartFacts ==
    ASSUME TypeOK, NEW c \in Calls, Setup(c) \/ ChangePassword(c)
    PROVE  \E q \in Call : call' = [call EXCEPT ![c] = q] /\ q.pc = "slot" /\ q.time <= now
<1>1. Idle \in Call /\ Idle.time <= now
  BY IdleType, AuthAssumption DEF TypeOK
<1>2. ASSUME NEW op \in {"setup", "password"}, call' = [call EXCEPT ![c] = [Idle EXCEPT !.op = op, !.pc = "slot"]]
      PROVE  \E q \in Call : call' = [call EXCEPT ![c] = q] /\ q.pc = "slot" /\ q.time <= now
  <2> DEFINE q == [Idle EXCEPT !.op = op, !.pc = "slot"]
  <2>1. q \in Call /\ q.pc = "slot" /\ q.time <= now
    BY <1>1 DEF Call, PCs
  <2> HIDE DEF q
  <2> QED
    BY <1>2, <2>1 DEF q
<1> QED
  BY <1>2 DEF Setup, ChangePassword

\* Where a call goes on with its password.
LEMMA VerifiedFacts == ASSUME NEW c \in Calls PROVE Verified(c) \in {"reset", "clock", "clear"}
BY DEF Verified

-----------------------------------------------------------------------------
(* The limiter.                                                            *)

\* A window that starts at least a Window later is a later one.
LEMMA WindowCount ==
    ASSUME NEW a \in Nat, NEW b \in Nat, NEW w \in Nat \ {0}
    PROVE  /\ a \div w \in Nat
           /\ a >= b => a \div w >= b \div w
           /\ a >= b + w => a \div w >= b \div w + 1
<1> DEFINE p == a \div w
           q == b \div w
<1>1. \A x \in Nat, y \in Nat \ {0} : x \div y \in Nat /\ y * (x \div y) <= x /\ x < y * (x \div y) + y
  OBVIOUS
<1>2. p \in Nat /\ q \in Nat /\ w * q <= b /\ a < w * p + w
  BY <1>1
<1> HIDE DEF p, q
<1>3. \A x \in Nat, y \in Nat : w * x \in Nat /\ (x <= y => w * x <= w * y)
  OBVIOUS
<1>4. \A x \in Nat : w * (x + 1) = w * x + w
  OBVIOUS
<1>5. a >= b + w => p >= q + 1
  <2> SUFFICES ASSUME a >= b + w, p <= q PROVE FALSE
    BY <1>2
  <2>1. w * p \in Nat /\ w * q \in Nat /\ w * p <= w * q
    BY <1>2, <1>3
  <2> QED
    BY <1>2, <2>1
<1>6. a >= b => p >= q
  <2> SUFFICES ASSUME a >= b, p + 1 <= q PROVE FALSE
    BY <1>2
  <2>1. w * (p + 1) = w * p + w
    BY <1>2, <1>4
  <2>2. w * (p + 1) <= w * q /\ w * p \in Nat /\ w * q \in Nat
    BY <1>2, <1>3
  <2> QED
    BY <1>2, <2>1, <2>2
<1> QED
  BY <1>2, <1>5, <1>6 DEF p, q

\* Arithmetic: windows filled with the maximum of attempts.
LEMMA Full ==
    ASSUME NEW m \in Nat, NEW x \in Nat, NEW y \in Nat
    PROVE  /\ m * x \in Nat /\ m * (x + 1) = m * x + m /\ m * (1 + x) = m * x + m
           /\ x <= y => m * x <= m * y
OBVIOUS

\* The window an attempt finds itself in.
LEMMA WindowFacts ==
    ASSUME TypeOK, CallInv, LimitInv, NEW c \in Calls
    PROVE  /\ WindowNow(c) \in 0..now /\ AttemptsNow(c) \in 0..Maximum
           /\ Len(admitted) <= AttemptsNow(c) + Maximum * (WindowNow(c) \div Window)
           /\ AttemptsNow(c) <= Len(admitted)
           /\ \A i \in 1..Len(admitted) : i > Len(admitted) - AttemptsNow(c) => admitted[i] >= WindowNow(c)
           /\ AttemptsNow(c) # 0 => WindowNow(c) = windowStart /\ AttemptsNow(c) = attempts /\ ~WindowOver(c)
<1> DEFINE L == Len(admitted)
           ws == windowStart
           time == call[c].time
<1>1. /\ now \in Nat /\ ws \in -1..now /\ attempts \in 0..Maximum /\ time \in 0..now /\ L \in Nat
      /\ Maximum \in Nat /\ Window \in Nat \ {0} /\ admitted \in Seq(0..now)
  BY AuthAssumption DEF TypeOK, CallInv, CallOK, Call
<1>2. CASE ws = -1
  <2>1. WindowNow(c) = time /\ AttemptsNow(c) = 0 /\ L = 0 /\ admitted = << >>
    BY <1>2 DEF WindowNow, AttemptsNow, WindowOver, LimitInv
  <2>2. Maximum * (time \div Window) \in Nat
    BY <1>1, WindowCount, Full
  <2> HIDE DEF L, ws, time
  <2>3. L <= 0 + Maximum * (time \div Window)
    BY <2>1, <2>2
  <2> QED
    BY <1>1, <2>1, <2>3 DEF L
<1>3. CASE ws # -1 /\ time - ws >= Window
  <2>1. WindowNow(c) = time /\ AttemptsNow(c) = 0 /\ ws \in Nat
    BY <1>1, <1>3 DEF WindowNow, AttemptsNow, WindowOver
  <2>2. /\ ws \div Window \in Nat /\ time \div Window \in Nat
        /\ time \div Window >= ws \div Window + 1
    <3>1. time \in Nat /\ time >= ws + Window
      BY <1>1, <1>3, <2>1
    <3> HIDE DEF time, ws
    <3> QED
      BY <1>1, <2>1, <3>1, WindowCount
  <2>3. L <= attempts + Maximum * (ws \div Window)
    BY <1>3 DEF LimitInv
  <2>4. /\ Maximum * (ws \div Window) \in Nat /\ Maximum * (time \div Window) \in Nat
        /\ Maximum * (ws \div Window + 1) = Maximum * (ws \div Window) + Maximum
        /\ Maximum * (ws \div Window + 1) <= Maximum * (time \div Window)
    <3>1. ws \div Window + 1 \in Nat
      BY <2>2
    <3> HIDE DEF time, ws
    <3> QED
      BY <1>1, <2>2, <3>1, Full
  <2> DEFINE x == Maximum * (ws \div Window)
             y == Maximum * (time \div Window)
  <2>5. x \in Nat /\ y \in Nat /\ x + Maximum <= y /\ L <= attempts + x
    BY <2>3, <2>4
  <2> HIDE DEF x, y
  <2>6. L <= 0 + y
    BY <1>1, <2>5
  <2> QED
    BY <1>1, <2>1, <2>6 DEF y
<1>4. CASE ws # -1 /\ ~(time - ws >= Window)
  <2>1. WindowNow(c) = ws /\ AttemptsNow(c) = attempts /\ ~WindowOver(c)
    BY <1>4 DEF WindowNow, AttemptsNow, WindowOver
  <2>2. ws \in 0..now
    BY <1>1, <1>4
  <2> QED
    BY <1>1, <1>4, <2>1, <2>2 DEF LimitInv
<1> QED
  BY <1>2, <1>3, <1>4

\* limiter.Allow keeps the account of the windows, and the call goes on or is
\* refused.
LEMMA AllowFacts ==
    ASSUME TypeOK, CallInv, LimitInv, NEW c \in Calls, Allow(c)
    PROVE  /\ LimitInv' /\ windowStart' \in -1..now /\ attempts' \in 0..Maximum /\ admitted' \in Seq(0..now)
           /\ Goto(c, "slot") \/ Answer(c)
<1> DEFINE L == Len(admitted)
           n == AttemptsNow(c)
           ws == WindowNow(c)
           before == Maximum * (ws \div Window)
<1>1. /\ now \in Nat /\ L \in Nat /\ Maximum \in Nat /\ admitted \in Seq(0..now)
      /\ ws \in 0..now /\ n \in 0..Maximum /\ windowStart' = ws
  BY WindowFacts, AuthAssumption DEF TypeOK, Allow
<1>2. /\ L <= n + before /\ n <= L
      /\ \A i \in 1..L : i > L - n => admitted[i] >= ws
  BY WindowFacts
<1>3. before \in Nat
  BY <1>1, WindowCount, Full, AuthAssumption
<1>4. windowStart' # -1 /\ windowStart' \in -1..now
  BY <1>1
<1>5. CASE n < Maximum /\ attempts' = n + 1 /\ admitted' = Append(admitted, now) /\ Goto(c, "slot")
  <2>1. /\ Len(admitted') = L + 1 /\ admitted'[L + 1] = now /\ \A i \in 1..L : admitted'[i] = admitted[i]
        /\ admitted' \in Seq(0..now)
    BY <1>1, <1>5
  <2> HIDE DEF n, ws, before, L
  <2>2. L + 1 <= (n + 1) + before /\ n + 1 <= L + 1 /\ n + 1 \in 0..Maximum
    BY <1>1, <1>2, <1>3, <1>5
  <2>3. ASSUME NEW i \in 1..(L + 1), i > (L + 1) - (n + 1) PROVE admitted'[i] >= ws
    <3>1. CASE i = L + 1
      BY <1>1, <2>1, <3>1
    <3>2. CASE i # L + 1
      <4>1. i \in 1..L /\ i > L - n
        BY <1>1, <2>3, <3>2
      <4> QED
        BY <1>2, <2>1, <4>1
    <3> QED
      BY <3>1, <3>2
  <2>4. Len(admitted') <= attempts' + Maximum * (windowStart' \div Window)
    BY <1>1, <1>5, <2>1, <2>2 DEF before
  <2>5. attempts' <= Len(admitted')
    BY <1>5, <2>1, <2>2
  <2>6. \A i \in 1..Len(admitted') : i > Len(admitted') - attempts' => admitted'[i] >= windowStart'
    BY <1>1, <1>5, <2>1, <2>3
  <2> QED
    BY <1>4, <1>5, <2>1, <2>2, <2>4, <2>5, <2>6 DEF LimitInv
<1>6. CASE attempts' = n /\ Answer(c) /\ UNCHANGED admitted
  <2> HIDE DEF n, ws
  <2>1. Len(admitted') <= attempts' + Maximum * (windowStart' \div Window)
    BY <1>1, <1>2, <1>6
  <2> QED
    BY <1>1, <1>2, <1>4, <1>6, <2>1 DEF LimitInv
<1> QED
  BY <1>5, <1>6 DEF Allow

-----------------------------------------------------------------------------
(* The table of sessions.                                                  *)

Session == [createdAt : 0..now, lastSeen : 0..now]

\* What Create leaves of the table makes room for one more.
LEMMA RemoveOldestFacts ==
    ASSUME IsFiniteSet(DOMAIN sessions), Cardinality(DOMAIN sessions) <= MaxSessions,
           NEW purged \in SUBSET DOMAIN sessions, NEW kept \in RemoveOldest(purged)
    PROVE  kept \subseteq DOMAIN sessions /\ IsFiniteSet(kept) /\ Cardinality(kept) < MaxSessions
<1>1. /\ IsFiniteSet(purged) /\ Cardinality(purged) \in Nat /\ Cardinality(purged) <= MaxSessions
      /\ MaxSessions \in Nat /\ Cardinality(DOMAIN sessions) \in Nat
  BY FS_Subset, FS_CardinalityType, AuthAssumption
<1>2. CASE Cardinality(purged) < MaxSessions
  BY <1>1, <1>2 DEF RemoveOldest
<1>3. CASE ~(Cardinality(purged) < MaxSessions)
  <2>1. PICK t \in purged : kept = purged \ {t}
    BY <1>3 DEF RemoveOldest
  <2>2. IsFiniteSet(kept) /\ Cardinality(kept) = Cardinality(purged) - 1
    BY <1>1, <2>1, FS_RemoveElement
  <2> QED
    BY <1>1, <2>1, <2>2
<1> QED
  BY <1>2, <1>3

\* Create: the new session takes the place of an old one at most.
LEMMA CreateTable ==
    ASSUME Inv, NEW c \in Calls, NEW token \in Tokens, Create(c, token)
    PROVE  /\ TableInv' /\ DOMAIN sessions' \subseteq Tokens /\ \A t \in DOMAIN sessions' : sessions'[t] \in Session
           /\ ended' \subseteq Tokens /\ born' \in [Tokens -> -1..now]
           /\ \A t \in Tokens : born[t] # -1 => born'[t] # -1
<1>1. /\ TypeOK /\ TableInv /\ now \in Nat /\ call[c].time \in 0..now /\ born \in [Tokens -> -1..now]
      /\ DOMAIN sessions \subseteq Tokens /\ ended \subseteq Tokens
      /\ \A t \in DOMAIN sessions : sessions[t] \in Session
  BY AuthAssumption, SMTT(30) DEF Inv, TypeOK, CallInv, CallOK, Call, Session
<1>2. born[token] = -1 /\ born' = [born EXCEPT ![token] = now]
  BY DEF Create
<1> DEFINE new == [createdAt |-> call[c].time, lastSeen |-> call[c].time]
<1>3. PICK kept \in RemoveOldest(Purged(call[c].time)) :
      /\ sessions' = [t \in kept \cup {token} |-> IF t = token THEN new ELSE sessions[t]]
      /\ ended' = ended \cup (DOMAIN sessions \ kept)
  BY DEF Create
<1>4. new \in Session /\ new.createdAt = call[c].time
  BY <1>1 DEF Session
<1> HIDE DEF new
<1>5. kept \subseteq DOMAIN sessions /\ IsFiniteSet(kept) /\ Cardinality(kept) < MaxSessions
  <2>1. Purged(call[c].time) \in SUBSET DOMAIN sessions
    BY DEF Purged
  <2> QED
    BY <1>1, <2>1, RemoveOldestFacts DEF TableInv
<1>6. token \notin DOMAIN sessions /\ token \notin ended
  BY <1>1, <1>2 DEF TableInv
<1>7. DOMAIN sessions' = kept \cup {token} /\ sessions'[token] = new /\ \A t \in kept : sessions'[t] = sessions[t]
  BY <1>3, <1>5, <1>6
<1>8. /\ born' \in [Tokens -> -1..now] /\ born'[token] = now /\ \A t \in Tokens \ {token} : born'[t] = born[t]
      /\ now # -1 /\ now \in -1..now
  BY <1>1, <1>2
<1>9. IsFiniteSet(DOMAIN sessions') /\ Cardinality(DOMAIN sessions') <= MaxSessions
  <2>1. IsFiniteSet(kept \cup {token}) /\ Cardinality(kept \cup {token}) = Cardinality(kept) + 1
    BY <1>5, <1>6, FS_AddElement
  <2>2. Cardinality(kept) \in Nat /\ MaxSessions \in Nat
    BY <1>5, FS_CardinalityType, AuthAssumption
  <2> QED
    BY <1>5, <1>7, <2>1, <2>2
<1>10. DOMAIN sessions' \cap ended' = {}
  BY <1>1, <1>3, <1>5, <1>6, <1>7 DEF TableInv
<1>11. \A t \in DOMAIN sessions' \cup ended' : born'[t] # -1
  BY <1>1, <1>3, <1>5, <1>7, <1>8 DEF TableInv
<1>12. ASSUME NEW t \in DOMAIN sessions' PROVE sessions'[t].createdAt <= born'[t]
  <2>1. CASE t = token
    BY <1>1, <1>4, <1>7, <1>8, <2>1
  <2>2. CASE t # token
    BY <1>1, <1>5, <1>7, <1>8, <2>2 DEF TableInv
  <2> QED
    BY <2>1, <2>2
<1>13. TableInv'
  BY <1>9, <1>10, <1>11, <1>12 DEF TableInv
<1>14. \A t \in DOMAIN sessions' : t \in Tokens /\ sessions'[t] \in Session
  BY <1>1, <1>4, <1>5, <1>7
<1> QED
  BY <1>1, <1>3, <1>8, <1>13, <1>14

\* Sessions end.
LEMMA EndTable ==
    ASSUME Inv, NEW gone \in SUBSET Tokens, \A t \in gone : born[t] # -1,
           sessions' = Restrict(sessions, DOMAIN sessions \ gone), ended' = ended \cup gone, UNCHANGED <<now, born>>
    PROVE  /\ TableInv' /\ DOMAIN sessions' \subseteq Tokens /\ \A t \in DOMAIN sessions' : sessions'[t] \in Session
           /\ ended' \subseteq Tokens
<1>1. /\ TableInv /\ DOMAIN sessions \subseteq Tokens /\ ended \subseteq Tokens
      /\ \A t \in DOMAIN sessions : sessions[t] \in Session
  BY DEF Inv, TypeOK, Session
<1>2. DOMAIN sessions' = DOMAIN sessions \ gone /\ \A t \in DOMAIN sessions' : sessions'[t] = sessions[t]
  BY DEF Restrict
<1>3. IsFiniteSet(DOMAIN sessions') /\ Cardinality(DOMAIN sessions') <= MaxSessions
  <2>1. DOMAIN sessions' \subseteq DOMAIN sessions /\ IsFiniteSet(DOMAIN sessions)
    BY <1>1, <1>2 DEF TableInv
  <2>2. /\ IsFiniteSet(DOMAIN sessions') /\ Cardinality(DOMAIN sessions') <= Cardinality(DOMAIN sessions)
        /\ Cardinality(DOMAIN sessions') \in Nat /\ Cardinality(DOMAIN sessions) \in Nat
    BY <2>1, FS_Subset, FS_CardinalityType
  <2> QED
    BY <1>1, <2>2, AuthAssumption DEF TableInv
<1> QED
  BY <1>1, <1>2, <1>3 DEF TableInv

\* Clearing is ending every session there is.
LEMMA ClearedTable ==
    ASSUME Cleared
    PROVE  sessions' = Restrict(sessions, DOMAIN sessions \ DOMAIN sessions)
BY DEF Cleared, Restrict

\* A session is used.
LEMMA RefreshTable ==
    ASSUME Inv, NEW c \in Calls, UNCHANGED <<now, born, ended>>, call[c].token \in DOMAIN sessions,
           sessions' = [sessions EXCEPT ![call[c].token] = Refreshed(@, call[c].time)]
    PROVE  TableInv' /\ DOMAIN sessions' \subseteq Tokens /\ \A t \in DOMAIN sessions' : sessions'[t] \in Session
<1> DEFINE token == call[c].token
           new == [sessions[token] EXCEPT !.lastSeen = call[c].time]
<1>1. /\ TableInv /\ DOMAIN sessions \subseteq Tokens /\ call[c].time \in 0..now
      /\ \A t \in DOMAIN sessions : sessions[t] \in Session
  BY AuthAssumption DEF Inv, TypeOK, CallInv, CallOK, Call, Session
<1>2. new \in Session /\ new.createdAt = sessions[token].createdAt
  BY <1>1 DEF Session
<1>3. sessions' = [sessions EXCEPT ![token] = new]
  BY DEF Refreshed
<1> HIDE DEF new, token
<1>4. /\ DOMAIN sessions' = DOMAIN sessions /\ sessions'[token] = new
      /\ \A t \in DOMAIN sessions : t # token => sessions'[t] = sessions[t]
  BY <1>3 DEF token
<1> QED
  BY <1>1, <1>2, <1>4 DEF TableInv

-----------------------------------------------------------------------------
(* The steps.                                                              *)

\* The session table is sound at a later time when no step touched it.
LEMMA SameTable ==
    ASSUME TypeOK, TableInv, now' \in Int, now' >= now, UNCHANGED table
    PROVE  /\ TableInv' /\ DOMAIN sessions' \subseteq Tokens /\ ended' \subseteq Tokens /\ born' \in [Tokens -> -1..now']
           /\ \A t \in DOMAIN sessions' : sessions'[t] \in [createdAt : 0..now', lastSeen : 0..now']
<1>1. /\ sessions' = sessions /\ born' = born /\ ended' = ended /\ now \in Nat
      /\ \A x \in 0..now : x \in 0..now' /\ \A y \in -1..now : y \in -1..now'
  BY DEF table, TypeOK
<1>2. \A t \in DOMAIN sessions : sessions[t] \in [createdAt : 0..now', lastSeen : 0..now']
  BY <1>1 DEF TypeOK
<1>3. born \in [Tokens -> -1..now']
  BY <1>1 DEF TypeOK
<1> QED
  BY <1>1, <1>2, <1>3 DEF TypeOK, TableInv

\* The account of the windows stands at a later time when no step touched it.
LEMMA SameLimit ==
    ASSUME TypeOK, LimitInv, now' \in Int, now' >= now, UNCHANGED limiter
    PROVE  LimitInv' /\ windowStart' \in -1..now' /\ attempts' \in 0..Maximum /\ admitted' \in Seq(0..now')
<1>1. /\ windowStart' = windowStart /\ attempts' = attempts /\ admitted' = admitted /\ now \in Nat
      /\ \A x \in 0..now : x \in 0..now'
  BY DEF limiter, TypeOK
<1>2. windowStart \in -1..now' /\ attempts \in 0..Maximum
  BY <1>1 DEF TypeOK
<1>3. admitted \in Seq(0..now')
  BY <1>1 DEF TypeOK
<1> QED
  BY <1>1, <1>2, <1>3 DEF LimitInv

\* Steps that leave the sessions alone.
LEMMA LoginSteps ==
    ASSUME Inv, NEW c \in Calls,
           \/ Login(c) \/ Allow(c) \/ Setup(c) \/ ChangePassword(c) \/ AcquirePasswordSlot(c)
           \/ VerifyPassword(c) \/ Reset(c) \/ Abandon(c) \/ CreateClock(c)
    PROVE  Inv'
<1>1. TypeOK /\ CallInv /\ TableInv /\ LimitInv /\ now \in Int /\ now >= now
  BY DEF Inv, TypeOK
<1>2. UNCHANGED <<now, configured, table>>
  BY DEF Login, Allow, Setup, ChangePassword, AcquirePasswordSlot, VerifyPassword, Reset, Abandon, CreateClock
<1>3. /\ TableInv' /\ DOMAIN sessions' \subseteq Tokens /\ ended' \subseteq Tokens /\ born' \in [Tokens -> -1..now']
      /\ \A t \in DOMAIN sessions' : sessions'[t] \in [createdAt : 0..now', lastSeen : 0..now']
  BY <1>1, <1>2, SameTable
<1>4. LimitInv' /\ windowStart' \in -1..now' /\ attempts' \in 0..Maximum /\ admitted' \in Seq(0..now')
  <2>1. CASE Allow(c)
    BY <1>1, <1>2, <2>1, AllowFacts
  <2>2. CASE Reset(c)
    <3>1. windowStart' = -1 /\ attempts' = 0 /\ admitted' = << >>
      BY <2>2 DEF Reset
    <3>2. -1 \in -1..now' /\ 0 \in 0..Maximum
      BY <1>2, AuthAssumption DEF Inv, TypeOK
    <3>3. Len(admitted') = 0 /\ admitted' \in Seq(0..now')
      BY <3>1
    <3>4. attempts' <= Len(admitted') /\ \A i \in 1..Len(admitted') : FALSE
      BY <3>1, <3>3
    <3> QED
      BY <3>1, <3>2, <3>3, <3>4 DEF LimitInv
  <2>3. CASE \/ Login(c) \/ Setup(c) \/ ChangePassword(c) \/ AcquirePasswordSlot(c) \/ VerifyPassword(c)
             \/ Abandon(c) \/ CreateClock(c)
    <3>1. UNCHANGED limiter
      BY <2>3 DEF Login, Setup, ChangePassword, AcquirePasswordSlot, VerifyPassword, Abandon, CreateClock
    <3> QED
      BY <1>1, <1>2, <3>1, SameLimit
  <2> QED
    BY <2>1, <2>2, <2>3
<1>5. \E q \in Call :
         /\ call' = [call EXCEPT ![c] = q] /\ q.time <= now /\ q.pc \notin {"validate", "commit"}
         /\ \/ (q.pc = "verify" <=> call[c].pc = "verify") /\ slots' = slots
            \/ q.pc = "verify" /\ call[c].pc # "verify" /\ slots < PasswordSlots /\ slots' = slots + 1
            \/ q.pc # "verify" /\ call[c].pc = "verify" /\ slots' = slots - 1
  <2>1. CASE Login(c)
    BY <1>1, <2>1, GotoFacts DEF Login
  <2>2. CASE Allow(c)
    <3>1. call[c].pc = "allow" /\ slots' = slots /\ (Goto(c, "slot") \/ Answer(c))
      BY <1>1, <2>2, AllowFacts DEF Allow
    <3> QED
      BY <1>1, <3>1, GotoFacts
  <2>3. CASE AcquirePasswordSlot(c)
    BY <1>1, <2>3, GotoFacts DEF AcquirePasswordSlot
  <2>4. CASE VerifyPassword(c)
    BY <1>1, <2>4, GotoFacts, VerifiedFacts DEF VerifyPassword
  <2>5. CASE Reset(c)
    BY <1>1, <2>5, GotoFacts DEF Reset
  <2>6. CASE CreateClock(c)
    BY <1>1, <2>6, GotoFacts DEF CreateClock
  <2>7. CASE Setup(c) \/ ChangePassword(c)
    <3>1. call[c].pc = "idle" /\ slots' = slots
      BY <2>7 DEF Setup, ChangePassword
    <3> QED
      BY <1>1, <2>7, <3>1, StartFacts
  <2>8. CASE Abandon(c)
    <3>1. call[c].pc # "verify" /\ slots' = slots /\ Answer(c)
      BY <2>8 DEF Abandon
    <3> QED
      BY <1>1, <3>1, GotoFacts
  <2> QED
    BY <2>1, <2>2, <2>3, <2>4, <2>5, <2>6, <2>7, <2>8
<1>6. CallInv' /\ call' \in [Calls -> Call] /\ slots' \in 0..PasswordSlots
  BY <1>1, <1>2, <1>5, CallMoves DEF table
<1>7. TypeOK'
  BY <1>1, <1>2, <1>3, <1>4, <1>6 DEF TypeOK
<1> QED
  BY <1>3, <1>4, <1>6, <1>7 DEF Inv

\* Steps on the sessions.
LEMMA SessionSteps ==
    ASSUME Inv, NEW c \in Calls,
           \/ ValidateLocked(c) \/ Commit(c) \/ PasswordChanged(c)
           \/ \E t \in Tokens : Create(c, t) \/ Validate(c, t)
    PROVE  Inv'
<1>1. TypeOK /\ CallInv /\ TableInv /\ LimitInv /\ now \in 0..MaxTime /\ now >= now /\ born \in [Tokens -> -1..now]
      /\ ended \subseteq Tokens /\ call[c] \in Call
  BY DEF Inv, TypeOK
<1>2. UNCHANGED <<now, limiter, slots>> /\ configured' \in BOOLEAN
  BY <1>1 DEF ValidateLocked, Commit, PasswordChanged, Create, Validate, TypeOK
<1>3. LimitInv' /\ windowStart' \in -1..now' /\ attempts' \in 0..Maximum /\ admitted' \in Seq(0..now')
  BY <1>1, <1>2, SameLimit
<1>4. /\ TableInv' /\ DOMAIN sessions' \subseteq Tokens /\ ended' \subseteq Tokens /\ born' \in [Tokens -> -1..now]
      /\ \A t \in DOMAIN sessions' : sessions'[t] \in Session
      /\ \A t \in Tokens : born[t] # -1 => born'[t] # -1
  <2>1. ASSUME NEW t \in Tokens, Create(c, t)
        PROVE  /\ TableInv' /\ DOMAIN sessions' \subseteq Tokens /\ ended' \subseteq Tokens /\ born' \in [Tokens -> -1..now]
               /\ \A u \in DOMAIN sessions' : sessions'[u] \in Session
               /\ \A u \in Tokens : born[u] # -1 => born'[u] # -1
    BY <2>1, CreateTable
  <2>2. ASSUME NEW t \in Tokens, Validate(c, t)
        PROVE  /\ TableInv' /\ DOMAIN sessions' \subseteq Tokens /\ ended' \subseteq Tokens /\ born' \in [Tokens -> -1..now]
               /\ \A u \in DOMAIN sessions' : sessions'[u] \in Session
               /\ \A u \in Tokens : born[u] # -1 => born'[u] # -1
    <3>1. UNCHANGED table
      BY <2>2 DEF Validate
    <3> QED
      BY <1>1, <1>2, <3>1, SameTable DEF Session, table
  <2>3. CASE ValidateLocked(c)
    <3>1. call[c].pc = "validate" /\ call[c].token \in Tokens /\ born[call[c].token] # -1 /\ born' = born
      BY <1>1, <2>3 DEF ValidateLocked, CallInv, CallOK
    <3>2. \/ /\ call[c].token \in DOMAIN sessions
             /\ sessions' = [sessions EXCEPT ![call[c].token] = Refreshed(@, call[c].time)] /\ ended' = ended
          \/ /\ sessions' = Restrict(sessions, DOMAIN sessions \ {call[c].token})
             /\ ended' = ended \cup {call[c].token}
      BY <2>3 DEF ValidateLocked, Valid
    <3>3. CASE /\ call[c].token \in DOMAIN sessions
               /\ sessions' = [sessions EXCEPT ![call[c].token] = Refreshed(@, call[c].time)] /\ ended' = ended
      BY <1>1, <1>2, <3>1, <3>3, RefreshTable
    <3>4. CASE /\ sessions' = Restrict(sessions, DOMAIN sessions \ {call[c].token})
               /\ ended' = ended \cup {call[c].token}
      <4>1. {call[c].token} \in SUBSET Tokens /\ \A t \in {call[c].token} : born[t] # -1
        BY <3>1
      <4> QED
        BY <1>1, <1>2, <3>1, <3>4, <4>1, EndTable
    <3> QED
      BY <3>2, <3>3, <3>4
  <2>4. CASE Commit(c)
    <3>1. call[c].token \in Tokens /\ born[call[c].token] # -1 /\ born' = born
      BY <1>1, <2>4 DEF Commit, CallInv, CallOK
    <3>2. CASE UNCHANGED <<sessions, ended>>
      BY <1>1, <1>2, <3>1, <3>2, SameTable DEF Session, table
    <3>3. CASE Deleted(call[c].token)
      <4>1. {call[c].token} \in SUBSET Tokens /\ \A t \in {call[c].token} : born[t] # -1
        BY <3>1
      <4> QED
        BY <1>1, <1>2, <3>1, <3>3, <4>1, EndTable DEF Deleted
    <3> QED
      BY <2>4, <3>2, <3>3 DEF Commit
  <2>5. CASE PasswordChanged(c)
    <3>1. DOMAIN sessions \in SUBSET Tokens /\ \A t \in DOMAIN sessions : born[t] # -1
      BY <1>1 DEF TypeOK, TableInv
    <3>2. Cleared /\ born' = born
      BY <2>5 DEF PasswordChanged
    <3> QED
      BY <1>1, <1>2, <3>1, <3>2, ClearedTable, EndTable DEF Cleared
  <2> QED
    BY <2>1, <2>2, <2>3, <2>4, <2>5
<1>5. \E q \in Call :
         /\ call' = [call EXCEPT ![c] = q] /\ q.time <= now
         /\ q.pc \in {"validate", "commit"} => q.token \in Tokens /\ born'[q.token] # -1
         /\ q.pc # "verify" /\ call[c].pc # "verify"
  <2>1. CASE Answer(c) /\ call[c].pc # "verify"
    BY <1>1, <2>1, GotoFacts
  <2>2. ASSUME NEW t \in Tokens, Validate(c, t)
        PROVE  \E q \in Call :
                  /\ call' = [call EXCEPT ![c] = q] /\ q.time <= now
                  /\ q.pc \in {"validate", "commit"} => q.token \in Tokens /\ born'[q.token] # -1
                  /\ q.pc # "verify" /\ call[c].pc # "verify"
    <3> DEFINE q == [Idle EXCEPT !.pc = "validate", !.time = now, !.token = t]
    <3>1. q \in Call /\ q.time = now /\ q.token = t /\ q.pc = "validate"
      BY <1>1, IdleType DEF Call, PCs
    <3>2. call' = [call EXCEPT ![c] = q] /\ born' = born /\ born[t] # -1 /\ call[c].pc = "idle"
      BY <2>2 DEF Validate, table
    <3> HIDE DEF q
    <3> QED
      BY <1>1, <3>1, <3>2
  <2>3. ASSUME NEW t \in Tokens, Create(c, t), call[c].op = "setup"
        PROVE  \E q \in Call :
                  /\ call' = [call EXCEPT ![c] = q] /\ q.time <= now
                  /\ q.pc \in {"validate", "commit"} => q.token \in Tokens /\ born'[q.token] # -1
                  /\ q.pc # "verify" /\ call[c].pc # "verify"
    <3> DEFINE q == [call[c] EXCEPT !.pc = "commit", !.token = t]
    <3>1. q \in Call /\ q.time = call[c].time /\ q.token = t /\ q.pc = "commit"
      BY <1>1 DEF Call, PCs
    <3>2. call' = [call EXCEPT ![c] = q] /\ call[c].pc = "create" /\ born' = [born EXCEPT ![t] = now]
      BY <2>3 DEF Create
    <3>3. call[c].time <= now /\ now # -1
      BY <1>1, AuthAssumption DEF CallInv, CallOK
    <3>4. born'[t] = now
      BY <1>1, <3>2
    <3> HIDE DEF q
    <3> QED
      BY <3>1, <3>2, <3>3, <3>4
  <2> QED
    BY <2>1, <2>2, <2>3 DEF Create, ValidateLocked, Commit, PasswordChanged
<1>6. CallInv' /\ call' \in [Calls -> Call] /\ slots' \in 0..PasswordSlots
  BY <1>1, <1>2, <1>4, <1>5, CallMoves
<1>7. TypeOK'
  BY <1>1, <1>2, <1>3, <1>4, <1>6 DEF TypeOK, Session
<1> QED
  BY <1>3, <1>4, <1>6, <1>7 DEF Inv

\* Steps of no call.
LEMMA OtherSteps == ASSUME Inv, (\E t \in Tokens : Delete(t)) \/ Clear \/ Tick \/ UNCHANGED vars PROVE Inv'
<1>1. TypeOK /\ CallInv /\ TableInv /\ LimitInv /\ now \in 0..MaxTime /\ born \in [Tokens -> -1..now] /\ MaxTime \in Nat
  BY AuthAssumption DEF Inv, TypeOK
<1>2. UNCHANGED <<configured, limiter, slots, born, call>> /\ now' \in 0..MaxTime /\ now' >= now
  <2>1. UNCHANGED <<configured, limiter, slots, born, call>>
    BY DEF Delete, Clear, Tick, table, vars
  <2>2. now' = now \/ (now < MaxTime /\ now' = now + 1)
    BY DEF Delete, Clear, Tick, vars
  <2> QED
    BY <1>1, <2>1, <2>2
<1>3. LimitInv' /\ windowStart' \in -1..now' /\ attempts' \in 0..Maximum /\ admitted' \in Seq(0..now')
  BY <1>1, <1>2, SameLimit
<1>4. CallInv' /\ call' \in [Calls -> Call] /\ slots' \in 0..PasswordSlots
  <2>1. \A c \in Calls : call[c].time \in Int
    BY <1>1 DEF TypeOK, Call
  <2>2. (\A c \in Calls : CallOK(call[c]))'
    BY <1>1, <1>2, <2>1 DEF CallInv, CallOK
  <2> QED
    BY <1>1, <1>2, <2>2 DEF CallInv, Verifying, TypeOK
<1>5. CASE (\E t \in Tokens : Delete(t)) \/ Clear
  <2>1. \E gone \in SUBSET Tokens :
           /\ \A t \in gone : born[t] # -1
           /\ sessions' = Restrict(sessions, DOMAIN sessions \ gone) /\ ended' = ended \cup gone
    <3>1. ASSUME NEW t \in Tokens, Delete(t)
          PROVE  \E gone \in SUBSET Tokens :
                    /\ \A u \in gone : born[u] # -1
                    /\ sessions' = Restrict(sessions, DOMAIN sessions \ gone) /\ ended' = ended \cup gone
      <4>1. {t} \in SUBSET Tokens /\ \A u \in {t} : born[u] # -1
        BY <1>1, <3>1 DEF Delete, TableInv
      <4> QED
        BY <3>1, <4>1 DEF Delete, Deleted
    <3>2. CASE Clear
      <4>1. DOMAIN sessions \in SUBSET Tokens /\ \A u \in DOMAIN sessions : born[u] # -1
        BY <1>1 DEF TypeOK, TableInv
      <4>2. sessions' = Restrict(sessions, DOMAIN sessions \ DOMAIN sessions)
        BY <3>2, ClearedTable DEF Clear
      <4> QED
        BY <3>2, <4>1, <4>2 DEF Clear, Cleared
    <3> QED
      BY <1>5, <3>1, <3>2
  <2>2. now' = now
    BY <1>5 DEF Delete, Clear
  <2>3. /\ TableInv' /\ DOMAIN sessions' \subseteq Tokens /\ \A t \in DOMAIN sessions' : sessions'[t] \in Session
        /\ ended' \subseteq Tokens
    BY <1>2, <2>1, <2>2, EndTable
  <2>4. TypeOK'
    BY <1>1, <1>2, <1>3, <1>4, <2>2, <2>3 DEF TypeOK, Session
  <2> QED
    BY <1>3, <1>4, <2>3, <2>4 DEF Inv
<1>6. CASE Tick \/ UNCHANGED vars
  <2>1. UNCHANGED table
    BY <1>6 DEF Tick, vars, table
  <2>2. /\ TableInv' /\ DOMAIN sessions' \subseteq Tokens /\ ended' \subseteq Tokens /\ born' \in [Tokens -> -1..now']
        /\ \A t \in DOMAIN sessions' : sessions'[t] \in [createdAt : 0..now', lastSeen : 0..now']
    BY <1>1, <1>2, <2>1, SameTable
  <2>3. TypeOK'
    BY <1>1, <1>2, <1>3, <1>4, <2>2 DEF TypeOK
  <2> QED
    BY <1>3, <1>4, <2>2, <2>3 DEF Inv
<1> QED
  BY <1>5, <1>6

\* The process starts without sessions and attempts.
LEMMA InitInv == Init => Inv
<1> SUFFICES ASSUME Init PROVE Inv
  OBVIOUS
<1>1. /\ now \in 0..MaxTime /\ windowStart \in -1..now /\ attempts \in 0..Maximum /\ slots \in 0..PasswordSlots
      /\ -1 \in -1..now /\ configured \in BOOLEAN
  BY AuthAssumption DEF Init
<1>2. DOMAIN sessions = {} /\ ended = {} /\ born \in [Tokens -> -1..now]
  BY <1>1 DEF Init
<1>3. call \in [Calls -> Call] /\ \A c \in Calls : call[c] = Idle
  BY IdleType DEF Init
<1>4. admitted \in Seq(0..now) /\ admitted = << >> /\ Len(admitted) = 0
  BY DEF Init
<1>5. TypeOK
  BY <1>1, <1>2, <1>3, <1>4 DEF TypeOK
<1>6. CallInv
  <2>1. Verifying = {} /\ \A c \in Calls : CallOK(call[c])
    BY <1>1, <1>3, IdleType DEF Verifying, CallOK, Init
  <2> QED
    BY <2>1, FS_EmptySet DEF Init, CallInv
<1>7. TableInv
  <2>1. Cardinality({}) = 0 /\ IsFiniteSet({}) /\ 0 <= MaxSessions
    BY FS_EmptySet, AuthAssumption
  <2> QED
    BY <1>2, <2>1 DEF TableInv
<1>8. LimitInv
  BY <1>4 DEF Init, LimitInv
<1> QED
  BY <1>5, <1>6, <1>7, <1>8 DEF Inv

\* The invariant holds in every reachable state.
LEMMA AuthInvariant == Spec => []Inv
<1>1. Inv /\ [Next]_vars => Inv'
  BY LoginSteps, SessionSteps, OtherSteps DEF Next, Finished
<1> QED
  BY <1>1, InitInv, PTL DEF Spec

-----------------------------------------------------------------------------

\* Every variable of the limiter, the password slots and the session table
\* keeps its type: the counters stay within their limits.
THEOREM AuthTypeCorrect == Spec => []TypeOK
<1>1. Inv => TypeOK
  BY DEF Inv
<1> QED
  BY <1>1, AuthInvariant, PTL

\* The limiter bounds guessing for ever: a call that takes its mutex late,
\* with an old time, opens no window early.
THEOREM GuessingBounded == Spec => []AttemptsBounded
<1>1. Inv => AttemptsBounded
  <2> SUFFICES ASSUME Inv PROVE Len(admitted) <= Maximum * (1 + now \div Window)
    BY DEF AttemptsBounded
  <2>1. /\ now \in Nat /\ windowStart \in -1..now /\ attempts \in 0..Maximum /\ Len(admitted) \in Nat
        /\ Maximum \in Nat /\ Window \in Nat \ {0} /\ LimitInv
    BY AuthAssumption DEF Inv, TypeOK
  <2> DEFINE y == Maximum * (now \div Window)
  <2>2. now \div Window \in Nat /\ y \in Nat /\ Maximum * (1 + now \div Window) = y + Maximum
    BY <2>1, WindowCount, Full
  <2>3. CASE windowStart = -1
    <3>1. Len(admitted) = 0
      BY <2>3 DEF Inv, LimitInv
    <3> HIDE DEF y
    <3> QED
      BY <2>1, <2>2, <3>1
  <2>4. CASE windowStart # -1
    <3> DEFINE x == Maximum * (windowStart \div Window)
    <3>1. windowStart \in Nat /\ now >= windowStart
      BY <2>1, <2>4
    <3>2. windowStart \div Window \in Nat /\ windowStart \div Window <= now \div Window
      BY <2>1, <3>1, WindowCount
    <3>3. x \in Nat /\ x <= y
      BY <2>1, <2>2, <3>2, Full
    <3>4. Len(admitted) <= attempts + x
      BY <2>1, <2>4 DEF LimitInv
    <3> HIDE DEF x, y
    <3> QED
      BY <2>1, <2>2, <3>3, <3>4
  <2> QED
    BY <2>3, <2>4
<1> QED
  BY <1>1, AuthInvariant, PTL

\* The password slots in use are those of the verifications that run, and the
\* table is never over its limit.
THEOREM LoginsStayBounded == Spec => []LoginsBounded
<1>1. Inv => LoginsBounded
  BY DEF Inv, CallInv, TableInv, Verifying, LoginsBounded
<1> QED
  BY <1>1, AuthInvariant, PTL

\* A session that has ended never comes back.
THEOREM NoSessionReturns == Spec => []EndedStaysEnded
<1>1. Inv => EndedStaysEnded
  BY DEF Inv, TableInv, EndedStaysEnded
<1> QED
  BY <1>1, AuthInvariant, PTL

\* A step changes the local state of one call at most.
LEMMA OneCall ==
    ASSUME Inv, Next, NEW c \in Calls, call'[c].pc # call[c].pc
    PROVE  \/ Login(c) \/ Allow(c) \/ Setup(c) \/ ChangePassword(c) \/ AcquirePasswordSlot(c)
           \/ VerifyPassword(c) \/ Reset(c) \/ Abandon(c) \/ CreateClock(c) \/ Commit(c)
           \/ PasswordChanged(c) \/ ValidateLocked(c)
           \/ \E t \in Tokens : Create(c, t) \/ Validate(c, t)
<1>1. call \in [Calls -> Call]
  BY DEF Inv, TypeOK
<1>2. ASSUME NEW b \in Calls, NEW q, call' = [call EXCEPT ![b] = q] PROVE b = c
  BY <1>1, <1>2
<1>3. PICK b \in Calls :
           \/ Login(b) \/ Allow(b) \/ Setup(b) \/ ChangePassword(b) \/ AcquirePasswordSlot(b)
           \/ VerifyPassword(b) \/ Reset(b) \/ Abandon(b) \/ CreateClock(b) \/ Commit(b)
           \/ PasswordChanged(b) \/ ValidateLocked(b)
           \/ \E t \in Tokens : Create(b, t) \/ Validate(b, t)
  BY DEF Next, Delete, Clear, Tick, Finished, vars
<1>4. \E q : call' = [call EXCEPT ![b] = q]
  BY <1>3 DEF Login, Allow, Setup, ChangePassword, AcquirePasswordSlot, VerifyPassword, Reset, Abandon,
              CreateClock, Commit, PasswordChanged, ValidateLocked, Create, Validate, Goto, ReadClock, Answer
<1> QED
  BY <1>2, <1>3, <1>4

\* No use of a session is accepted later than Lifetime after its login.
THEOREM SessionsExpire == Spec => NoOverstay
<1>1. Inv /\ [Next]_vars =>
        [\A c \in Calls :
            call[c].pc = "validate" /\ call'[c].pc = "idle" /\ call[c].token \in DOMAIN sessions'
               => call[c].time - born[call[c].token] < Lifetime]_vars
  <2> SUFFICES ASSUME Inv, Next, NEW c \in Calls, call[c].pc = "validate", call'[c].pc = "idle",
                      call[c].token \in DOMAIN sessions'
               PROVE  call[c].time - born[call[c].token] < Lifetime
    OBVIOUS
  <2> DEFINE token == call[c].token
  <2>1. ValidateLocked(c)
    BY OneCall DEF Login, Allow, Setup, ChangePassword, AcquirePasswordSlot, VerifyPassword, Reset, Abandon,
                   CreateClock, Commit, PasswordChanged, Create, Validate
  <2>2. Valid(c)
    <3>1. CASE sessions' = Restrict(sessions, DOMAIN sessions \ {token})
      BY <3>1 DEF Restrict
    <3> QED
      BY <2>1, <3>1 DEF ValidateLocked
  <2>3. token \in DOMAIN sessions /\ ~(call[c].time - sessions[token].createdAt >= Lifetime)
    BY <2>2 DEF Valid, Expired
  <2>4. sessions[token].createdAt <= born[token]
    BY <2>3 DEF Inv, TableInv
  <2>5. /\ call[c].time \in Int /\ sessions[token].createdAt \in Int /\ born[token] \in Int /\ Lifetime \in Int
    BY <2>3, AuthAssumption DEF Inv, TypeOK, Call
  <2> HIDE DEF token
  <2>6. call[c].time - born[token] < Lifetime
    BY <2>3, <2>4, <2>5
  <2> QED
    BY <2>6 DEF token
<1> QED
  BY <1>1, AuthInvariant, PTL DEF Spec, NoOverstay

\* An attempt is refused only when Maximum attempts passed in the window that
\* ends with it.
THEOREM NobodyLockedOut == Spec => RefusedOnlyWhenBusy
<1>1. Inv /\ [Next]_vars =>
        [\A c \in Calls : RefusedByLimiter(c) =>
            Cardinality({i \in 1..Len(admitted) : admitted[i] > call[c].time - Window}) >= Maximum]_vars
  <2> SUFFICES ASSUME Inv, Next, NEW c \in Calls, RefusedByLimiter(c)
               PROVE  Cardinality({i \in 1..Len(admitted) : admitted[i] > call[c].time - Window}) >= Maximum
    OBVIOUS
  <2> DEFINE L == Len(admitted)
             recent == {i \in 1..L : admitted[i] > call[c].time - Window}
             last == (L - Maximum + 1)..L
  <2>1. call[c].pc = "allow" /\ call'[c].pc = "idle" /\ call \in [Calls -> Call]
    BY DEF RefusedByLimiter, Inv, TypeOK
  <2>2. Allow(c)
    BY <2>1, OneCall DEF Login, Setup, ChangePassword, AcquirePasswordSlot, VerifyPassword, Reset, Abandon,
                         CreateClock, Commit, PasswordChanged, ValidateLocked, Create, Validate
  <2>3. ~Goto(c, "slot")
    BY <2>1 DEF Goto, Call
  <2>4. AttemptsNow(c) >= Maximum
    BY <2>2, <2>3 DEF Allow
  <2>5. /\ Maximum \in Nat \ {0} /\ Window \in Nat /\ L \in Nat /\ call[c].time \in Int /\ windowStart \in Int
        /\ admitted \in Seq(Int)
    BY AuthAssumption DEF Inv, TypeOK, Call
  <2>6. /\ AttemptsNow(c) = Maximum /\ attempts = Maximum /\ ~WindowOver(c) /\ Maximum <= L
        /\ \A i \in 1..L : i > L - Maximum => admitted[i] >= windowStart
    <3>1. AttemptsNow(c) \in 0..Maximum /\ AttemptsNow(c) <= L
      BY WindowFacts DEF Inv
    <3>2. AttemptsNow(c) = Maximum /\ AttemptsNow(c) # 0
      BY <2>4, <2>5, <3>1
    <3> QED
      BY <3>1, <3>2, WindowFacts DEF Inv
  <2>7. windowStart > call[c].time - Window
    BY <2>5, <2>6 DEF WindowOver
  <2>8. last \subseteq recent
    <3> SUFFICES ASSUME NEW i \in last PROVE i \in recent
      OBVIOUS
    <3>1. i \in 1..L /\ i > L - Maximum
      BY <2>5, <2>6
    <3>2. admitted[i] >= windowStart /\ admitted[i] \in Int
      BY <2>5, <2>6, <3>1
    <3> QED
      BY <2>5, <2>7, <3>1, <3>2
  <2>9. Cardinality(last) = Maximum
    <3>1. L - Maximum + 1 \in Int /\ L \in Int /\ L - Maximum + 1 <= L
      BY <2>5, <2>6
    <3>2. Cardinality(last) = L - (L - Maximum + 1) + 1
      BY <3>1, FS_Interval
    <3> QED
      BY <2>5, <3>2
  <2>10. IsFiniteSet(recent)
    <3>1. IsFiniteSet(1..L)
      BY <2>5, FS_Interval
    <3> QED
      BY <3>1, FS_Subset
  <2>11. Cardinality(last) <= Cardinality(recent)
    BY <2>8, <2>10, FS_Subset
  <2> QED
    BY <2>9, <2>11
<1> QED
  BY <1>1, AuthInvariant, PTL DEF Spec, RefusedOnlyWhenBusy
==============================================================================
