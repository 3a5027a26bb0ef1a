------------------------------ MODULE AdminAuth ------------------------------
(***************************************************************************)
(* Authentication of administrators over time: the attempt limiter and the *)
(* sessions of platform/adminauth (limiter.go, session.go) as login, setup *)
(* and changePassword of modules/admin use them, with the password slots   *)
(* they share.  The limiter is the one of login; setup has its own.        *)
(*                                                                         *)
(* Limiter.Allow, Sessions.Create and Sessions.Validate read the clock     *)
(* before they take their mutex: another call may go first with a later    *)
(* time.  Tokens are random; an element of Tokens is issued at most once.  *)
(***************************************************************************)
EXTENDS Integers, Sequences, FiniteSets, Functions

CONSTANTS
    Calls, Tokens, NoToken,
    Maximum, Window,            \* NewLimiter
    Lifetime, IdleTime,         \* sessionLifetime, sessionIdle
    MaxSessions,                \* maximumSessions
    PasswordSlots,              \* cap(passwordSlots)
    MaxTime, MaxAttempts        \* bounds on the clock and on recorded attempts

ASSUME AuthAssumption ==
    /\ NoToken \notin Tokens
    /\ Maximum \in Nat \ {0} /\ Window \in Nat \ {0}
    /\ Lifetime \in Nat \ {0} /\ IdleTime \in Nat \ {0}
    /\ MaxSessions \in Nat \ {0} /\ PasswordSlots \in Nat \ {0}
    /\ MaxTime \in Nat /\ MaxAttempts \in Nat

VARIABLES
    now,
    configured,                 \* state.json exists
    windowStart, attempts,      \* Limiter; windowStart is -1 for the zero time
    slots,                      \* len(passwordSlots)
    sessions,                   \* token -> session
    call,                       \* local state of each request
    admitted,                   \* history: times of the attempts since Reset
    born, ended                 \* history: issue times, tokens that were ended

limiter == <<windowStart, attempts, admitted>>
table == <<sessions, born, ended>>
vars == <<now, configured, limiter, slots, table, call>>

PCs == {"idle", "allow", "slot", "verify", "reset", "clear", "clock", "create", "commit", "validate"}
Call == [op : {"login", "setup", "password"}, pc : PCs, time : 0..MaxTime, token : Tokens \cup {NoToken}]
Idle == [op |-> "login", pc |-> "idle", time |-> 0, token |-> NoToken]

Init ==
    /\ now = 0 /\ configured \in BOOLEAN
    /\ windowStart = -1 /\ attempts = 0
    /\ slots = 0
    /\ sessions = << >>
    /\ call = [c \in Calls |-> Idle]
    /\ admitted = << >>
    /\ born = [t \in Tokens |-> -1] /\ ended = {}

Goto(c, pc) == call' = [call EXCEPT ![c] = [@ EXCEPT !.pc = pc]]
ReadClock(c, pc) == call' = [call EXCEPT ![c] = [@ EXCEPT !.pc = pc, !.time = now]]
Answer(c) == call' = [call EXCEPT ![c] = Idle]

-----------------------------------------------------------------------------
(* login, setup and changePassword.                                        *)

\* Allow reads the clock.
Login(c) ==
    /\ call[c].pc = "idle" /\ Len(admitted) < MaxAttempts
    /\ ReadClock(c, "allow")
    /\ UNCHANGED <<now, configured, limiter, slots, table>>

\* Mutant: a window lasts one unit too long.
WindowOverLate(c) == windowStart = -1 \/ call[c].time - windowStart > Window

WindowOver(c) == windowStart = -1 \/ call[c].time - windowStart >= Window

\* Mutant: a new window starts without its start being recorded.
WindowNowUnmoved(c) == IF windowStart = -1 THEN call[c].time ELSE windowStart

WindowNow(c) == IF WindowOver(c) THEN call[c].time ELSE windowStart
AttemptsNow(c) == IF WindowOver(c) THEN 0 ELSE attempts

\* Allow, under its mutex.
Allow(c) ==
    /\ call[c].pc = "allow"
    /\ windowStart' = WindowNow(c)
    /\ \/ /\ AttemptsNow(c) < Maximum
          /\ attempts' = AttemptsNow(c) + 1
          /\ admitted' = Append(admitted, now)
          /\ Goto(c, "slot")
       \/ /\ AttemptsNow(c) >= Maximum
          /\ attempts' = AttemptsNow(c)
          /\ Answer(c) /\ UNCHANGED admitted
    /\ UNCHANGED <<now, configured, slots, table>>

\* setup finds no state, and hashes the new password; other setups may run.
Setup(c) ==
    /\ call[c].pc = "idle" /\ ~configured
    /\ call' = [call EXCEPT ![c] = [Idle EXCEPT !.op = "setup", !.pc = "slot"]]
    /\ UNCHANGED <<now, configured, limiter, slots, table>>

\* A change of the password holds changeMu.
Changing == \E c \in Calls : call[c].op = "password"

\* changePassword takes changeMu; the session was validated before.
ChangePassword(c) ==
    /\ call[c].pc = "idle" /\ configured /\ ~Changing
    /\ \E t \in Tokens : born[t] # -1
    /\ call' = [call EXCEPT ![c] = [Idle EXCEPT !.op = "password", !.pc = "slot"]]
    /\ UNCHANGED <<now, configured, limiter, slots, table>>

\* acquirePasswordSlot, or "authentication_busy", or an error before: login in
\* particular finds no state until setup has saved it.
AcquirePasswordSlot(c) ==
    /\ call[c].pc = "slot"
    /\ \/ /\ slots < PasswordSlots /\ slots' = slots + 1
          /\ call[c].op = "login" => configured
          /\ Goto(c, "verify")
       \/ Answer(c) /\ UNCHANGED slots
    /\ UNCHANGED <<now, configured, limiter, table>>

\* Where a call goes on with its password.
Verified(c) ==
    CASE call[c].op = "login" -> "reset" [] call[c].op = "setup" -> "clock" [] OTHER -> "clear"

\* Mutant: a wrong password keeps the slot.
VerifyPasswordLeaking(c) ==
    /\ call[c].pc = "verify"
    /\ \/ Goto(c, Verified(c)) /\ slots' = slots - 1
       \/ Answer(c) /\ UNCHANGED slots
    /\ UNCHANGED <<now, configured, limiter, table>>

\* The password is verified, or hashed, or both; right or wrong, the slot is
\* released.
VerifyPassword(c) ==
    /\ call[c].pc = "verify"
    /\ slots' = slots - 1
    /\ Goto(c, Verified(c)) \/ Answer(c)
    /\ UNCHANGED <<now, configured, limiter, table>>

\* The candidate of setup fails its test or cannot be prepared; the new
\* password cannot be saved.
Abandon(c) ==
    /\ call[c].pc = "clear" \/ (call[c].pc = "clock" /\ call[c].op = "setup")
    /\ Answer(c)
    /\ UNCHANGED <<now, configured, limiter, slots, table>>

\* loginLimit.Reset.
Reset(c) ==
    /\ call[c].pc = "reset"
    /\ windowStart' = -1 /\ attempts' = 0 /\ admitted' = << >>
    /\ Goto(c, "clock")
    /\ UNCHANGED <<now, configured, slots, table>>

-----------------------------------------------------------------------------
(* Sessions.                                                               *)

Expired(session, time) ==
    time - session.createdAt >= Lifetime \/ time - session.lastSeen >= IdleTime

\* Create reads the clock.
CreateClock(c) ==
    /\ call[c].pc = "clock"
    /\ ReadClock(c, "create")
    /\ UNCHANGED <<now, configured, limiter, slots, table>>

\* What purgeLocked leaves.
Purged(time) == {t \in DOMAIN sessions : ~Expired(sessions[t], time)}

\* The sets removeOldestLocked may leave: below the limit, of several oldest
\* sessions any one goes.
RemoveOldest(kept) ==
    IF Cardinality(kept) < MaxSessions THEN {kept}
    ELSE {kept \ {t} : t \in {u \in kept : \A v \in kept : sessions[u].lastSeen <= sessions[v].lastSeen}}

\* Create, under the mutex, with a fresh token.  login answers; setup has still
\* to commit its state.
Create(c, token) ==
    /\ call[c].pc = "create" /\ born[token] = -1
    /\ \E kept \in RemoveOldest(Purged(call[c].time)) :
          /\ sessions' = [t \in kept \cup {token} |->
                IF t = token THEN [createdAt |-> call[c].time, lastSeen |-> call[c].time]
                ELSE sessions[t]]
          /\ ended' = ended \cup (DOMAIN sessions \ kept)
    /\ born' = [born EXCEPT ![token] = now]
    /\ IF call[c].op = "setup"
       THEN call' = [call EXCEPT ![c] = [@ EXCEPT !.pc = "commit", !.token = token]]
       ELSE Answer(c)
    /\ UNCHANGED <<now, configured, limiter, slots>>

\* Validate reads the clock; the cookie holds a token that was issued.
Validate(c, token) ==
    /\ call[c].pc = "idle" /\ born[token] # -1
    /\ call' = [call EXCEPT ![c] = [Idle EXCEPT !.pc = "validate", !.time = now, !.token = token]]
    /\ UNCHANGED <<now, configured, limiter, slots, table>>

\* Mutant: using a session renews it altogether.
RefreshedWhole(session, time) == [createdAt |-> time, lastSeen |-> time]

Refreshed(session, time) == [session EXCEPT !.lastSeen = time]

Valid(c) ==
    /\ call[c].token \in DOMAIN sessions
    /\ ~Expired(sessions[call[c].token], call[c].time)

\* Mutant: the session found before the mutex is stored back blindly.
ValidateLockedBlind(c) ==
    LET token == call[c].token IN
    /\ call[c].pc = "validate"
    /\ sessions' = [t \in DOMAIN sessions \cup {token} |->
          IF t = token THEN [createdAt |-> call[c].time, lastSeen |-> call[c].time] ELSE sessions[t]]
    /\ Answer(c)
    /\ UNCHANGED <<now, configured, limiter, slots, born, ended>>

\* Validate, under the mutex: the session is refreshed or removed.
ValidateLocked(c) ==
    LET token == call[c].token IN
    /\ call[c].pc = "validate"
    /\ \/ /\ Valid(c)
          /\ sessions' = [sessions EXCEPT ![token] = Refreshed(@, call[c].time)]
          /\ UNCHANGED ended
       \/ /\ ~Valid(c)
          /\ sessions' = Restrict(sessions, DOMAIN sessions \ {token})
          /\ ended' = ended \cup {token}
    /\ Answer(c)
    /\ UNCHANGED <<now, configured, limiter, slots, born>>

\* Delete.
Deleted(token) ==
    /\ sessions' = Restrict(sessions, DOMAIN sessions \ {token})
    /\ ended' = ended \cup {token}

\* logout.
Delete(token) ==
    /\ token \in DOMAIN sessions
    /\ Deleted(token)
    /\ UNCHANGED <<now, configured, limiter, slots, born, call>>

\* The first setup to commit keeps its session; one that comes too late, or
\* cannot write, deletes it.
Commit(c) ==
    /\ call[c].pc = "commit"
    /\ \/ ~configured /\ configured' = TRUE /\ UNCHANGED <<sessions, ended>>
       \/ Deleted(call[c].token) /\ UNCHANGED configured
    /\ Answer(c)
    /\ UNCHANGED <<now, limiter, slots, born>>

\* Clear.
Cleared == sessions' = << >> /\ ended' = ended \cup DOMAIN sessions

\* changePassword has saved the new password.
PasswordChanged(c) ==
    /\ call[c].pc = "clear"
    /\ Cleared /\ Answer(c)
    /\ UNCHANGED <<now, configured, limiter, slots, born>>

\* deleteAdminOrigin, which holds changeMu too.
Clear ==
    /\ sessions # << >> /\ ~Changing
    /\ Cleared
    /\ UNCHANGED <<now, configured, limiter, slots, born, call>>

Tick == now < MaxTime /\ now' = now + 1 /\ UNCHANGED <<configured, limiter, slots, table, call>>

\* At the bounds nothing more is asked of the server.
Finished ==
    /\ now = MaxTime /\ \A c \in Calls : call[c].pc \in {"idle", "create"}
    /\ UNCHANGED vars

Next ==
    \/ \E c \in Calls :
          \/ Login(c) \/ Allow(c) \/ Setup(c) \/ ChangePassword(c)
          \/ AcquirePasswordSlot(c) \/ VerifyPassword(c) \/ Reset(c) \/ Abandon(c)
          \/ CreateClock(c) \/ Commit(c) \/ PasswordChanged(c) \/ ValidateLocked(c)
          \/ \E t \in Tokens : Create(c, t) \/ Validate(c, t)
    \/ \E t \in Tokens : Delete(t)
    \/ Clear \/ Tick \/ Finished

Spec == Init /\ [][Next]_vars

-----------------------------------------------------------------------------
(* Properties.                                                             *)

\* Every variable keeps its type.
TypeOK ==
    /\ now \in 0..MaxTime /\ configured \in BOOLEAN
    /\ windowStart \in -1..now /\ attempts \in 0..Maximum
    /\ slots \in 0..PasswordSlots
    /\ DOMAIN sessions \subseteq Tokens
    /\ \A t \in DOMAIN sessions : sessions[t] \in [createdAt : 0..now, lastSeen : 0..now]
    /\ call \in [Calls -> Call]
    /\ admitted \in Seq(0..now)
    /\ born \in [Tokens -> -1..now] /\ ended \subseteq Tokens

\* Guessing is bounded: without a successful login, no more attempts pass
\* than Maximum for every window that has begun, however late a call takes
\* the mutex with the time it read.
AttemptsBounded == Len(admitted) <= Maximum * (1 + now \div Window)

\* Call c is refused by the limiter in this step.
RefusedByLimiter(c) == call[c].pc = "allow" /\ call'[c].pc = "idle"

\* Nobody is locked out for longer than a window: an attempt is refused only
\* when Maximum attempts passed in the window that ends with it.
RefusedOnlyWhenBusy ==
    [][\A c \in Calls : RefusedByLimiter(c) =>
          Cardinality({i \in 1..Len(admitted) : admitted[i] > call[c].time - Window}) >= Maximum]_vars

\* Concurrent logins, setups and changes of the password keep to their limits:
\* the password slots in use are those of the verifications and hashes that run,
\* and the table never holds more than MaxSessions sessions.
LoginsBounded ==
    /\ slots = Cardinality({c \in Calls : call[c].pc = "verify"})
    /\ Cardinality(DOMAIN sessions) <= MaxSessions

\* A session that was logged out, cleared, evicted or found expired never
\* comes back, although a Validate of it may have begun before.
EndedStaysEnded == DOMAIN sessions \cap ended = {}

\* No use of a session, however regular, is accepted later than Lifetime
\* after the login that created it.
NoOverstay ==
    [][\A c \in Calls :
          call[c].pc = "validate" /\ call'[c].pc = "idle" /\ call[c].token \in DOMAIN sessions'
             => call[c].time - born[call[c].token] < Lifetime]_vars
==============================================================================
