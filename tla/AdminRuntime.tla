---------------------------- MODULE AdminRuntime ----------------------------
(***************************************************************************)
(* How the management interface (internal/modules/admin, Handler) changes  *)
(* the persistent state and the running service (internal/app,             *)
(* RuntimeManager) while device requests are served.                       *)
(*                                                                         *)
(* An element of Admins is a management client; it runs one handler at a   *)
(* time.  Handlers that change the state hold Handler.changeMu, except     *)
(* setup.  An element of Requests is a device connection: ServeHTTP holds  *)
(* the RuntimeManager's RWMutex for reading for the whole request.  A      *)
(* writer that waits for that mutex keeps new readers out, as sync.RWMutex *)
(* does.                                                                   *)
(*                                                                         *)
(* state.json is one value, replaced atomically (module StateStore shows   *)
(* why); a weather.Service is open or free.  The two limiters share one    *)
(* set: the devices they remember.                                         *)
(***************************************************************************)
EXTENDS Integers, FiniteSets

CONSTANTS
    Admins, Requests,
    Configs,            \* QWeather settings
    Devices,            \* DeviceIDs
    Origins,            \* management origins
    Passwords,
    Services,           \* weather.Service objects
    NoService, Nobody,
    Operations,         \* the handlers clients call in this instance
    MaxTokens,          \* 32 in createToken
    MaxOrigins,         \* MaximumPublicOrigins
    BehindProxy         \* TransportPolicy.BehindHTTPSProxy

ASSUME RuntimeAssumption ==
    /\ NoService \notin Services \cup Configs /\ Nobody \notin Admins
    /\ MaxTokens \in Nat \ {0} /\ MaxOrigins \in Nat \ {0}
    /\ BehindProxy \in BOOLEAN

VARIABLES
    disk,       \* the contents of state.json, or NoState
    current,    \* RuntimeManager.current: its service
    handler,    \* current.handler: the credentials and the service behind them
    config,     \* the settings each open service was built from
    open,       \* the services that have not been closed
    allowed,    \* TransportPolicy.publicOrigins
    session,    \* the management session of each client
    changeMu,   \* holder of Handler.changeMu
    admin,      \* local state of each management client
    request,    \* local state of each device connection
    limited,    \* devices the location limiters remember
    shutdown    \* RuntimeManager.Close

vars == <<disk, current, handler, config, open, allowed, session, changeMu, admin,
          request, limited, shutdown>>

runtime == <<current, handler, config, open>>

State == [config : Configs, tokens : SUBSET Devices, origins : SUBSET Origins,
          password : Passwords]
NoState == [config |-> NoService, tokens |-> {}, origins |-> {}, password |-> NoService]

Handler == [service : Services \cup {NoService}, tokens : SUBSET Devices]
NoHandler == [service |-> NoService, tokens |-> {}]

Session == [live : BOOLEAN, origin : Origins \cup {Nobody}, password : Passwords \cup {Nobody}]
NoSession == [live |-> FALSE, origin |-> Nobody, password |-> Nobody]

Ops == {"none", "setup", "login", "logout", "testQWeather", "putQWeather", "addAdminOrigin",
        "deleteAdminOrigin", "createToken", "deleteToken", "changePassword"}

\* The handlers that hold changeMu.
Writes == {"putQWeather", "addAdminOrigin", "deleteAdminOrigin", "createToken", "deleteToken",
           "changePassword"}

PCs == {"idle", "lock", "slot", "test", "prepare", "save", "commit", "origins", "clear", "login",
        "activate", "wlock", "retain", "close"}

Admin == [pc : PCs, op : Ops, value : State \cup {NoState}, prepared : Handler,
          old : Services \cup {NoService}, origin : Origins \cup {Nobody}]
Idle == [pc |-> "idle", op |-> "none", value |-> NoState, prepared |-> NoHandler,
         old |-> NoService, origin |-> Nobody]

NoRequest == [pc |-> "idle", device |-> Nobody, service |-> NoService]

\* A server that started from an existing state.json (New in internal/app).
Init ==
    /\ disk \in {s \in State : s.tokens # {} /\ Cardinality(s.tokens) <= MaxTokens
                               /\ s.origins # {} /\ Cardinality(s.origins) <= MaxOrigins}
    /\ current \in Services
    /\ handler = [service |-> current, tokens |-> disk.tokens]
    /\ config = [s \in Services |-> disk.config]
    /\ open = {current}
    /\ allowed = disk.origins
    /\ session = [a \in Admins |-> NoSession]
    /\ changeMu = Nobody
    /\ admin = [a \in Admins |-> Idle]
    /\ request = [r \in Requests |-> NoRequest]
    /\ limited = {}
    /\ shutdown = "no"

\* A server that waits for its setup.
InitUnconfigured ==
    /\ disk = NoState
    /\ current = NoService
    /\ handler = NoHandler
    /\ config \in {[s \in Services |-> c] : c \in Configs}
    /\ open = {}
    /\ allowed = {}
    /\ session = [a \in Admins |-> NoSession]
    /\ changeMu = Nobody
    /\ admin = [a \in Admins |-> Idle]
    /\ request = [r \in Requests |-> NoRequest]
    /\ limited = {}
    /\ shutdown = "no"

-----------------------------------------------------------------------------
(* The locks.                                                              *)

Readers == {r \in Requests : request[r].pc # "idle"}
WriterWaits == (\E a \in Admins : admin[a].pc = "wlock") \/ shutdown = "wlock"

\* m.mu.RLock() does not block.
ReaderMayEnter == ~WriterWaits

\* Mutant: the writer does not wait for readers.
WriterAnyTime == TRUE

\* m.mu.Lock() returns; its critical sections do not block, so they are one
\* step with it.
WriterMayEnter == Readers = {}

\* The handler returns; the deferred Unlock releases changeMu.
Return(a) ==
    /\ admin' = [admin EXCEPT ![a] = Idle]
    /\ changeMu' = IF changeMu = a THEN Nobody ELSE changeMu

Goto(a, pc) == admin' = [admin EXCEPT ![a].pc = pc]

-----------------------------------------------------------------------------
(* Authentication.                                                         *)

\* SameOrigin: behind a proxy the origin must be on the active list.
SameOrigin(o) == BehindProxy => o \in allowed

\* requireSession lets a write through.
Begin(a, op, o) ==
    /\ shutdown = "no"
    /\ op \in Operations
    /\ admin[a].pc = "idle"
    /\ session[a].live
    /\ SameOrigin(o)

\* login: load the state and verify the password, outside changeMu.
Login(a, o) ==
    /\ shutdown = "no"
    /\ "login" \in Operations
    /\ admin[a].pc = "idle"
    /\ SameOrigin(o)
    /\ disk # NoState
    /\ admin' = [admin EXCEPT ![a] = [@ EXCEPT !.pc = "login", !.op = "login", !.value = disk,
                                               !.origin = o]]
    /\ UNCHANGED <<disk, runtime, allowed, session, changeMu, request, limited, shutdown>>

\* login: sessions.Create().
LoginCreates(a) ==
    /\ admin[a].pc = "login"
    /\ session' = [session EXCEPT ![a] = [live |-> TRUE, origin |-> admin[a].origin,
                                          password |-> admin[a].value.password]]
    /\ Return(a)
    /\ UNCHANGED <<disk, runtime, allowed, request, limited, shutdown>>

\* logout: sessions.Delete(token).
Logout(a, o) ==
    /\ Begin(a, "logout", o)
    /\ session' = [session EXCEPT ![a] = NoSession]
    /\ UNCHANGED <<disk, runtime, allowed, changeMu, admin, request, limited, shutdown>>

\* sessions.Clear(), the end of deleteAdminOrigin and changePassword.
ClearSessions(a) ==
    /\ admin[a].pc = "clear"
    /\ session' = [b \in Admins |-> NoSession]
    /\ Return(a)
    /\ UNCHANGED <<disk, runtime, allowed, request, limited, shutdown>>

-----------------------------------------------------------------------------
(* The handlers that hold changeMu.                                        *)

\* The authenticated request waits for changeMu.
WriteBegins(a, op, o) ==
    /\ op \in Writes
    /\ Begin(a, op, o)
    /\ admin' = [admin EXCEPT ![a] = [@ EXCEPT !.pc = "lock", !.op = op, !.origin = o]]
    /\ UNCHANGED <<disk, runtime, allowed, session, changeMu, request, limited, shutdown>>

\* Mutant: the handler does not wait for changeMu.
LockForAnyway(a, op, candidate, pc) ==
    /\ admin[a].pc = "lock" /\ admin[a].op = op
    /\ disk # NoState
    /\ changeMu' = a
    /\ admin' = [admin EXCEPT ![a] = [@ EXCEPT !.pc = pc, !.value = candidate]]
    /\ UNCHANGED <<disk, runtime, allowed, session, request, limited, shutdown>>

\* changeMu.Lock() and loadState.  The candidate is checked before anything
\* else happens; a refused one ends the handler (LockRefused).
LockFor(a, op, candidate, pc) ==
    /\ admin[a].pc = "lock" /\ admin[a].op = op
    /\ changeMu = Nobody /\ disk # NoState
    /\ changeMu' = a
    /\ admin' = [admin EXCEPT ![a] = [@ EXCEPT !.pc = pc, !.value = candidate]]
    /\ UNCHANGED <<disk, runtime, allowed, session, request, limited, shutdown>>

PutQWeather(a, c) == LockFor(a, "putQWeather", [disk EXCEPT !.config = c], "slot")

AddAdminOrigin(a, o) ==
    /\ o \notin disk.origins /\ Cardinality(disk.origins) < MaxOrigins
    /\ LockFor(a, "addAdminOrigin", [disk EXCEPT !.origins = @ \cup {o}], "save")

DeleteAdminOrigin(a, o) ==
    /\ o \in disk.origins /\ o # admin[a].origin
    /\ BehindProxy => disk.origins # {o}
    /\ LockFor(a, "deleteAdminOrigin", [disk EXCEPT !.origins = @ \ {o}], "save")

\* A device id is random; the model may give a revoked one to a new device.
CreateToken(a, d) ==
    /\ d \notin disk.tokens /\ Cardinality(disk.tokens) < MaxTokens
    /\ LockFor(a, "createToken", [disk EXCEPT !.tokens = @ \cup {d}], "prepare")

DeleteToken(a, d) ==
    /\ d \in disk.tokens /\ Cardinality(disk.tokens) # 1
    /\ LockFor(a, "deleteToken", [disk EXCEPT !.tokens = @ \ {d}], "prepare")

ChangePassword(a, w) == LockFor(a, "changePassword", [disk EXCEPT !.password = w], "save")

\* The handler takes changeMu, answers 4xx and releases it.
LockRefused(a) ==
    /\ admin[a].pc = "lock" /\ changeMu = Nobody
    /\ Return(a)
    /\ UNCHANGED <<disk, runtime, allowed, session, request, limited, shutdown>>

\* testQWeather tries settings and keeps nothing; it does without changeMu.
TestQWeather(a, o) ==
    /\ Begin(a, "testQWeather", o) /\ disk # NoState
    /\ admin' = [admin EXCEPT ![a] = [@ EXCEPT !.pc = "slot", !.op = "testQWeather", !.origin = o]]
    /\ UNCHANGED <<disk, runtime, allowed, session, changeMu, request, limited, shutdown>>

\* testCandidate: the handler with the only testSlot asks upstream.
TakeTestSlot(a) ==
    /\ admin[a].pc = "slot"
    /\ \A b \in Admins : admin[b].pc # "test"
    /\ Goto(a, "test")
    /\ UNCHANGED <<disk, runtime, allowed, session, changeMu, request, limited, shutdown>>

\* testCandidate: testSlot is taken, or testLimit refuses.
TestRefused(a) ==
    /\ admin[a].pc = "slot"
    /\ Return(a)
    /\ UNCHANGED <<disk, runtime, allowed, session, request, limited, shutdown>>

\* Prepare builds a complete runtime without activating it.
Prepare(a, pc) ==
    LET s == CHOOSE s \in Services : s \notin open
    IN  /\ open # Services
        /\ open' = open \cup {s}
        /\ config' = [config EXCEPT ![s] = admin[a].value.config]
        /\ admin' = [admin EXCEPT ![a] = [@ EXCEPT !.pc = pc,
                        !.prepared = [service |-> s, tokens |-> admin[a].value.tokens]]]
        /\ UNCHANGED <<current, handler>>

\* putQWeather: the upstream test succeeded.
PrepareRuntime(a) ==
    /\ admin[a].pc = "test" /\ admin[a].op = "putQWeather"
    /\ Prepare(a, "save")
    /\ UNCHANGED <<disk, allowed, session, changeMu, request, limited, shutdown>>

\* PrepareTokens wraps the routes of the service that is current now; it takes
\* the RWMutex for reading and fails when there is no runtime.
PrepareTokens(a) ==
    /\ admin[a].pc = "prepare"
    /\ ReaderMayEnter
    /\ IF current = NoService THEN Return(a)
       ELSE /\ admin' = [admin EXCEPT ![a] = [@ EXCEPT !.pc = "save",
                           !.prepared = [service |-> current, tokens |-> admin[a].value.tokens]]]
            /\ UNCHANGED changeMu
    /\ UNCHANGED <<disk, runtime, allowed, session, request, limited, shutdown>>

\* The upstream test or Prepare fails, or testQWeather has its answer: nothing
\* has changed.
PrepareFails(a) ==
    /\ admin[a].pc = "test"
    /\ Return(a)
    /\ UNCHANGED <<disk, runtime, allowed, session, request, limited, shutdown>>

\* Mutant: the new runtime is never activated.
AfterSaveForgets(op) ==
    CASE op \in {"addAdminOrigin", "deleteAdminOrigin"} -> "origins"
      [] op = "changePassword" -> "clear"
      [] OTHER -> "retain"

\* What a handler does once its candidate is saved.
AfterSave(op) ==
    CASE op \in {"addAdminOrigin", "deleteAdminOrigin"} -> "origins"
      [] op = "changePassword" -> "clear"
      [] OTHER -> "activate"

\* store.Save succeeds.
Save(a) ==
    /\ admin[a].pc = "save"
    /\ disk' = admin[a].value
    /\ Goto(a, AfterSave(admin[a].op))
    /\ UNCHANGED <<runtime, allowed, session, changeMu, request, limited, shutdown>>

\* The services a handler built and has not activated: Discard closes them.
Unactivated(a) ==
    IF admin[a].op \in {"setup", "putQWeather"} THEN {admin[a].prepared.service} ELSE {}

\* Mutant: the deferred Discard is missing.
SaveFailsLeaking(a) ==
    /\ admin[a].pc = "save"
    /\ Return(a)
    /\ UNCHANGED <<disk, runtime, allowed, session, request, limited, shutdown>>

\* Mutant: an early return without the deferred Unlock.
SaveFailsLocked(a) ==
    /\ admin[a].pc = "save"
    /\ open' = open \ Unactivated(a)
    /\ admin' = [admin EXCEPT ![a] = Idle]
    /\ UNCHANGED <<disk, current, handler, config, allowed, session, changeMu, request, limited, shutdown>>

\* store.Save fails: the deferred Discard closes what was prepared.
SaveFails(a) ==
    /\ admin[a].pc = "save"
    /\ open' = open \ Unactivated(a)
    /\ Return(a)
    /\ UNCHANGED <<disk, current, handler, config, allowed, session, request, limited, shutdown>>

\* transport.ReplacePublicOrigins.
ReplacePublicOrigins(a) ==
    /\ admin[a].pc = "origins"
    /\ allowed' = admin[a].value.origins
    /\ IF admin[a].op = "addAdminOrigin" THEN Return(a)
       ELSE /\ Goto(a, IF admin[a].op = "setup" THEN "activate" ELSE "clear")
            /\ UNCHANGED changeMu
    /\ UNCHANGED <<disk, runtime, session, request, limited, shutdown>>

-----------------------------------------------------------------------------
(* setup, which does not take changeMu.                                    *)

\* setup found no state and is about to test its candidate upstream.
Setup(a, o, value) ==
    /\ shutdown = "no"
    /\ "setup" \in Operations
    /\ admin[a].pc = "idle"
    /\ disk = NoState
    /\ BehindProxy => o \in value.origins
    /\ admin' = [admin EXCEPT ![a] = [@ EXCEPT !.pc = "slot", !.op = "setup", !.value = value,
                                               !.origin = o]]
    /\ UNCHANGED <<disk, runtime, allowed, session, changeMu, request, limited, shutdown>>

\* setup prepares its runtime and creates the session whose cookie it will
\* return.
SetupPrepares(a) ==
    /\ admin[a].pc = "test" /\ admin[a].op = "setup"
    /\ Prepare(a, "commit")
    /\ session' = [session EXCEPT ![a] = [live |-> TRUE, origin |-> admin[a].origin,
                                          password |-> admin[a].value.password]]
    /\ UNCHANGED <<disk, allowed, changeMu, request, limited, shutdown>>

\* CommitInitial creates state.json.
CommitInitial(a) ==
    /\ admin[a].pc = "commit"
    /\ disk = NoState
    /\ disk' = admin[a].value
    /\ Goto(a, "origins")
    /\ UNCHANGED <<runtime, allowed, session, changeMu, request, limited, shutdown>>

\* CommitInitial finds a state or cannot write: the session and the prepared
\* runtime are dropped.
CommitInitialFails(a) ==
    /\ admin[a].pc = "commit"
    /\ session' = [session EXCEPT ![a] = NoSession]
    /\ open' = open \ Unactivated(a)
    /\ Return(a)
    /\ UNCHANGED <<disk, current, handler, config, allowed, request, limited, shutdown>>

-----------------------------------------------------------------------------
(* PreparedChange.Activate.                                                *)

\* m.mu.Lock() announces the writer.
Activate(a) ==
    /\ admin[a].pc = "activate"
    /\ Goto(a, "wlock")
    /\ UNCHANGED <<disk, runtime, allowed, session, changeMu, request, limited, shutdown>>

\* The critical section of activate (a complete runtime) and of
\* preparedTokenChange.Activate (only the handler).
Swap(a) ==
    /\ admin[a].pc = "wlock"
    /\ WriterMayEnter
    /\ IF admin[a].op \in {"setup", "putQWeather"}
       THEN current' = admin[a].prepared.service /\ handler' = admin[a].prepared
       ELSE /\ handler' = IF current = NoService THEN handler ELSE admin[a].prepared
            /\ UNCHANGED current
    /\ admin' = [admin EXCEPT ![a] = [@ EXCEPT !.pc = "retain", !.old = current]]
    /\ UNCHANGED <<disk, config, open, allowed, session, changeMu, request, limited, shutdown>>

\* limiter.Retain and localizeLimiter.Retain drop every other device.
Retained(a) == limited \cap admin[a].value.tokens

Retain(a) ==
    /\ admin[a].pc = "retain"
    /\ limited' = Retained(a)
    /\ IF admin[a].op \in {"setup", "putQWeather"} /\ admin[a].old # NoService
       THEN Goto(a, "close") /\ UNCHANGED changeMu
       ELSE Return(a)
    /\ UNCHANGED <<disk, runtime, allowed, session, request, shutdown>>

\* closeService on the previous runtime; it gives its workers 10 seconds.
CloseOld(a) ==
    /\ admin[a].pc = "close"
    /\ open' = open \ {admin[a].old}
    /\ Return(a)
    /\ UNCHANGED <<disk, current, handler, config, allowed, session, request, limited, shutdown>>

-----------------------------------------------------------------------------
(* Device requests.                                                        *)

\* ServeHTTP takes the RWMutex, and the handler accepts the device's token.
\* A request it refuses changes nothing.
Enter(r, d) ==
    /\ request[r].pc = "idle"
    /\ ReaderMayEnter
    /\ current # NoService
    /\ d \in handler.tokens
    /\ request' = [request EXCEPT ![r] = [pc |-> "auth", device |-> d,
                                          service |-> handler.service]]
    /\ UNCHANGED <<disk, runtime, allowed, session, changeMu, admin, limited, shutdown>>

\* The location limiters see the device, and the weather is fetched.
Serve(r) ==
    /\ request[r].pc = "auth"
    /\ limited' = limited \cup {request[r].device}
    /\ request' = [request EXCEPT ![r].pc = "served"]
    /\ UNCHANGED <<disk, runtime, allowed, session, changeMu, admin, shutdown>>

\* The handler returns, with or without an answer, and RUnlock runs.
Leave(r) ==
    /\ request[r].pc # "idle"
    /\ request' = [request EXCEPT ![r] = NoRequest]
    /\ UNCHANGED <<disk, runtime, allowed, session, changeMu, admin, limited, shutdown>>

-----------------------------------------------------------------------------
(* RuntimeManager.Close.  The HTTP server has stopped accepting requests,  *)
(* but handlers may still run when its shutdown timed out.                 *)

Close ==
    /\ shutdown = "no" /\ "close" \in Operations
    /\ shutdown' = "wlock"
    /\ UNCHANGED <<disk, runtime, allowed, session, changeMu, admin, request, limited>>

\* The critical section, and the closing of the service it took out.
CloseCurrent ==
    /\ shutdown = "wlock"
    /\ WriterMayEnter
    /\ current' = NoService /\ handler' = NoHandler
    /\ open' = open \ {current}
    /\ shutdown' = "done"
    /\ UNCHANGED <<disk, config, allowed, session, changeMu, admin, request, limited>>

\* Everything has stopped.
Stopped ==
    /\ shutdown = "done"
    /\ \A a \in Admins : admin[a].pc = "idle"
    /\ UNCHANGED vars

-----------------------------------------------------------------------------
\* The steps a handler takes by itself.
AdminProgress(a) ==
    \/ LoginCreates(a) \/ ClearSessions(a)
    \/ TakeTestSlot(a) \/ TestRefused(a)
    \/ PrepareRuntime(a) \/ PrepareTokens(a) \/ PrepareFails(a)
    \/ Save(a) \/ SaveFails(a) \/ ReplacePublicOrigins(a)
    \/ SetupPrepares(a) \/ CommitInitial(a) \/ CommitInitialFails(a)
    \/ Activate(a) \/ Swap(a) \/ Retain(a) \/ CloseOld(a)

\* changeMu is taken.
AdminLocks(a) ==
    \/ \E c \in Configs : PutQWeather(a, c)
    \/ \E o \in Origins : AddAdminOrigin(a, o) \/ DeleteAdminOrigin(a, o)
    \/ \E d \in Devices : CreateToken(a, d) \/ DeleteToken(a, d)
    \/ \E w \in Passwords : ChangePassword(a, w)
    \/ LockRefused(a)

\* A management client sends a request.
AdminArrives(a) ==
    \E o \in Origins :
        \/ Login(a, o) \/ Logout(a, o) \/ TestQWeather(a, o)
        \/ \E op \in Ops : WriteBegins(a, op, o)
        \/ \E c \in Configs, d \in Devices, w \in Passwords :
               Setup(a, o, [config |-> c, tokens |-> {d}, origins |-> {o}, password |-> w])

RequestStep(r) == (\E d \in Devices : Enter(r, d)) \/ Serve(r) \/ Leave(r)

Next ==
    \/ \E a \in Admins : AdminProgress(a) \/ AdminLocks(a) \/ AdminArrives(a)
    \/ \E r \in Requests : RequestStep(r)
    \/ Close \/ CloseCurrent \/ Stopped

Spec == Init /\ [][Next]_vars
SetupSpec == InitUnconfigured /\ [][Next]_vars

\* Handlers run, sync.Mutex hands changeMu to every goroutine that waits for
\* it (starvation mode), and a device request ends (the HTTP timeouts).
Fairness ==
    /\ \A a \in Admins : WF_vars(AdminProgress(a)) /\ SF_vars(AdminLocks(a))
    /\ \A r \in Requests : WF_vars(Serve(r) \/ Leave(r))
    /\ WF_vars(CloseCurrent)

FairSetupSpec == SetupSpec /\ Fairness

-----------------------------------------------------------------------------
(* Properties.                                                             *)

\* Every variable keeps its type.
TypeOK ==
    /\ disk \in State \cup {NoState}
    /\ current \in Services \cup {NoService}
    /\ handler \in Handler
    /\ config \in [Services -> Configs]
    /\ open \subseteq Services
    /\ allowed \subseteq Origins
    /\ session \in [Admins -> Session]
    /\ changeMu \in Admins \cup {Nobody}
    /\ admin \in [Admins -> Admin]
    /\ request \in [Requests -> [pc : {"idle", "auth", "served"}, device : Devices \cup {Nobody},
                                 service : Services \cup {NoService}]]
    /\ limited \subseteq Devices
    /\ shutdown \in {"no", "wlock", "done"}

\* No handler is changing anything.
Settled == changeMu = Nobody /\ shutdown = "no" /\ \A a \in Admins : admin[a].op # "setup"

\* Whenever no change is under way the running service is the one state.json
\* describes: its QWeather settings, its device tokens, its management
\* origins, and limiters without revoked devices, whatever handlers failed or raced before.
RuntimeMatchesDisk ==
    Settled /\ disk # NoState =>
        /\ current # NoService
        /\ config[current] = disk.config
        /\ handler.tokens = disk.tokens
        /\ allowed = disk.origins
        /\ limited \subseteq disk.tokens

\* A device request never uses a weather.Service that has been closed, the
\* active handler never routes to one, and once deleteToken has replaced the
\* handler no request of the revoked device is still being served.
NoStaleRequest ==
    /\ \A r \in Readers : request[r].service \in open /\ request[r].device \in handler.tokens
    /\ current # NoService => handler.service = current /\ current \in open

\* Every weather.Service that was built has been closed, except the active
\* one: failed saves and replaced runtimes leak nothing.
NoServiceLeak == Settled => open = {current} \ {NoService}

\* v is d after one edit of the kind op is for.
Edit(op, d, v) ==
    \/ op = "putQWeather" /\ \E c \in Configs : v = [d EXCEPT !.config = c]
    \/ op = "addAdminOrigin" /\ \E o \in Origins \ d.origins : v = [d EXCEPT !.origins = @ \cup {o}]
    \/ op = "deleteAdminOrigin" /\ \E o \in d.origins : v = [d EXCEPT !.origins = @ \ {o}]
    \/ op = "createToken" /\ \E x \in Devices \ d.tokens : v = [d EXCEPT !.tokens = @ \cup {x}]
    \/ op = "deleteToken" /\ \E x \in d.tokens : v = [d EXCEPT !.tokens = @ \ {x}]
    \/ op = "changePassword" /\ \E w \in Passwords : v = [d EXCEPT !.password = w]

\* The handler has computed a candidate from the state it loaded, and has not
\* saved it.
HasCandidate(a) == admin[a].op \in Writes /\ admin[a].pc \in {"slot", "test", "prepare", "save"}

\* No management write is lost: what replaces an initialised state differs
\* from it by one edit of the handler that saves, one token, one origin, the
\* settings or the password, and no other handler holds a candidate computed
\* from the state that is being replaced, whose save would undo this one.
NoLostAdminUpdate ==
    [][disk # NoState /\ disk' # disk =>
          \E a \in Admins : /\ HasCandidate(a) /\ Edit(admin[a].op, disk, disk')
                            /\ \A b \in Admins : HasCandidate(b) => b = a]_vars

\* A management write that waits for changeMu eventually returns: neither
\* other writes nor a stream of device requests starve it.
EveryWriteReturns == \A a \in Admins : (admin[a].pc = "lock") ~> (admin[a].pc = "idle")

\* SECURITY.md: "Removing an Origin clears every administrator session."  So no
\* session of a removed origin is left.
NoSessionOfRemovedOrigin ==
    Settled /\ BehindProxy => \A a \in Admins : session[a].live => session[a].origin \in allowed
=============================================================================
