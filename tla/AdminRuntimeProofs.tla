------------------------- MODULE AdminRuntimeProofs -------------------------
(***************************************************************************)
(* Proofs about AdminRuntime, for any number of management clients, device *)
(* connections, settings, devices and services.                            *)
(*                                                                         *)
(* Handlers hold changeMu from the moment they load state.json until they  *)
(* return, so the state of the whole change is that of one handler: Held.  *)
(* LockInv says so of every server; RunInv says how far the change has     *)
(* come, and what that means for the disk, the runtime and the services.   *)
(***************************************************************************)
EXTENDS AdminRuntime, FiniteSetTheorems, TLAPS

OriginOps == {"addAdminOrigin", "deleteAdminOrigin"}
TokenOps == {"createToken", "deleteToken"}

\* Which handler may be where.
OpAt(l) ==
    /\ l.pc = "idle" => l.op = "none"
    /\ l.pc = "login" => l.op = "login"
    /\ l.pc \in {"lock", "save"} => l.op \in Writes
    /\ l.pc \in {"slot", "test"} => l.op \in {"putQWeather", "testQWeather", "setup"}
    /\ l.pc = "prepare" => l.op \in TokenOps
    /\ l.pc = "commit" => l.op = "setup"
    /\ l.pc = "origins" => l.op \in OriginOps \cup {"setup"}
    /\ l.pc = "clear" => l.op \in {"deleteAdminOrigin", "changePassword"}
    /\ l.pc \in {"activate", "wlock", "retain"} => l.op \in TokenOps \cup {"putQWeather", "setup"}
    /\ l.pc = "close" => l.op \in {"putQWeather", "setup"}
    /\ l.op \in {"login", "setup"} => l.value \in State

\* A handler that has taken changeMu.
Holds(l) == l.op \in Writes /\ l.pc # "lock"

\* The candidate is not saved yet.
Pending(l) == Holds(l) /\ l.pc \in {"slot", "test", "prepare", "save"}

\* The candidate of a handler differs from the state in what it is for.
OneField(op, d, v) ==
    /\ Edit(op, d, v)
    /\ op # "putQWeather" => v.config = d.config
    /\ op \notin TokenOps => v.tokens = d.tokens
    /\ op \notin OriginOps => v.origins = d.origins
    /\ op # "changePassword" => v.password = d.password

LockInv ==
    /\ TypeOK
    /\ \A a \in Admins : OpAt(admin[a]) /\ (changeMu = a <=> Holds(admin[a]))
    /\ \A a \in Admins : Pending(admin[a]) =>
          disk \in State /\ admin[a].value \in State /\ OneField(admin[a].op, disk, admin[a].value)

\* A request that was let in is a device's.
Named == \A r \in Requests : request[r].pc # "idle" => request[r].device \in Devices

-----------------------------------------------------------------------------
(* Moves of a handler.                                                     *)

\* Only the local state of a changes.
Moves(a) == admin' \in [Admins -> Admin] /\ \A b \in Admins \ {a} : admin'[b] = admin[b]

\* The state of a client between two requests: it holds nothing and owes
\* nothing.
LEMMA IdleType == Idle \in Admin /\ Idle.pc = "idle" /\ Idle.op = "none" /\ OpAt(Idle) /\ ~Holds(Idle) /\ ~Pending(Idle)
<1>1. NoHandler \in Handler
  BY DEF NoHandler, Handler
<1>2. Idle \in Admin /\ Idle.pc = "idle" /\ Idle.op = "none"
  BY <1>1 DEF Idle, Admin, PCs, Ops
<1> QED
  BY <1>2 DEF OpAt, Holds, Pending, Writes, TokenOps, OriginOps

\* Goto moves one client and leaves what its handler computed.
LEMMA GotoMoves ==
    ASSUME TypeOK, NEW a \in Admins, NEW pc \in PCs, Goto(a, pc)
    PROVE  /\ Moves(a) /\ admin'[a].pc = pc /\ admin'[a].op = admin[a].op
           /\ admin'[a].value = admin[a].value /\ admin'[a].prepared = admin[a].prepared
           /\ admin'[a].old = admin[a].old
BY DEF TypeOK, Goto, Moves, Admin

\* An update of one client's state leaves the others alone.
LEMMA Updated ==
    ASSUME TypeOK, NEW a \in Admins, NEW l \in Admin, admin' = [admin EXCEPT ![a] = l]
    PROVE  Moves(a) /\ admin'[a] = l
BY DEF TypeOK, Moves

\* A handler that returns leaves its client idle.
LEMMA ReturnMoves ==
    ASSUME TypeOK, NEW a \in Admins, Return(a)
    PROVE  Moves(a) /\ admin'[a] = Idle
BY IdleType DEF TypeOK, Return, Moves

\* What keeps LockInv in a step of a: it takes changeMu, keeps it, gives it
\* back, or has nothing to do with it.
LEMMA LockStep ==
    ASSUME LockInv, NEW a \in Admins, TypeOK', Moves(a), OpAt(admin'[a]),
           \/ changeMu' = changeMu /\ (changeMu = a <=> Holds(admin'[a]))
           \/ changeMu = Nobody /\ changeMu' = a /\ Holds(admin'[a])
           \/ changeMu' = (IF changeMu = a THEN Nobody ELSE changeMu) /\ ~Holds(admin'[a]),
           disk' = disk \/ changeMu = a \/ disk \notin State,
           Pending(admin'[a]) => /\ disk' \in State /\ admin'[a].value \in State
                                 /\ OneField(admin'[a].op, disk', admin'[a].value)
    PROVE  LockInv'
<1>1. Nobody \notin Admins
  BY RuntimeAssumption
<1>2. ASSUME NEW b \in Admins PROVE OpAt(admin'[b]) /\ (changeMu' = b <=> Holds(admin'[b]))
  BY <1>1 DEF LockInv, Moves
<1>3. ASSUME NEW b \in Admins, Pending(admin'[b])
      PROVE  disk' \in State /\ admin'[b].value \in State /\ OneField(admin'[b].op, disk', admin'[b].value)
  <2>1. CASE b = a
    BY <1>3, <2>1
  <2>2. CASE b # a
    <3>1. admin'[b] = admin[b] /\ Pending(admin[b])
      BY <1>3, <2>2 DEF Moves
    <3>2. disk \in State /\ admin[b].value \in State /\ OneField(admin[b].op, disk, admin[b].value) /\ changeMu = b
      BY <3>1 DEF LockInv, Pending
    <3>3. disk' = disk
      BY <2>2, <3>2
    <3> QED
      BY <3>1, <3>2, <3>3 DEF OneField
  <2> QED
    BY <2>1, <2>2
<1>4. \A b \in Admins : OpAt(admin[b])' /\ (changeMu' = b <=> Holds(admin[b])')
  BY <1>2 DEF OpAt, Holds
<1>5. \A b \in Admins : Pending(admin[b])' =>
          disk' \in State /\ admin'[b].value \in State /\ OneField(admin[b].op, disk, admin[b].value)'
  BY <1>3 DEF Pending, Holds, OneField, Edit
<1> QED
  BY <1>4, <1>5 DEF LockInv

\* A handler returns; nothing else it touches matters to the lock.
LEMMA ReturnStep ==
    ASSUME LockInv, NEW a \in Admins, Return(a), TypeOK', disk' = disk
    PROVE  LockInv'
<1>1. Moves(a) /\ admin'[a] = Idle
  BY ReturnMoves DEF LockInv
<1>2. changeMu' = IF changeMu = a THEN Nobody ELSE changeMu
  BY DEF Return
<1> QED
  BY <1>1, <1>2, IdleType, LockStep

\* A handler moves on with its candidate, and keeps changeMu if it has it.
LEMMA GotoStep ==
    ASSUME LockInv, NEW a \in Admins, Moves(a), admin[a].pc \notin {"idle", "lock"},
           admin'[a].pc \notin {"idle", "lock"}, admin'[a].op = admin[a].op,
           admin'[a].value = admin[a].value, OpAt(admin'[a]), TypeOK', changeMu' = changeMu, disk' = disk,
           Pending(admin'[a]) => Pending(admin[a])
    PROVE  LockInv'
<1>1. changeMu = a <=> Holds(admin'[a])
  BY DEF LockInv, Holds
<1>2. Pending(admin'[a]) => /\ disk' \in State /\ admin'[a].value \in State
                            /\ OneField(admin'[a].op, disk', admin'[a].value)
  <2> SUFFICES ASSUME Pending(admin'[a])
               PROVE  disk' \in State /\ admin'[a].value \in State /\ OneField(admin'[a].op, disk', admin'[a].value)
    OBVIOUS
  <2>1. disk \in State /\ admin[a].value \in State /\ OneField(admin[a].op, disk, admin[a].value)
    BY DEF LockInv
  <2> QED
    BY <2>1
<1> QED
  BY <1>1, <1>2, LockStep

\* A state is not the absence of one.
LEMMA StateExists == NoState \notin State /\ NoState.origins = {} /\ NoState.tokens = {}
BY RuntimeAssumption DEF NoState, State

\* The types of what a handler computed so far.
LEMMA ValueTypes ==
    ASSUME TypeOK, NEW a \in Admins
    PROVE  /\ admin[a] \in Admin /\ admin[a].value \in State \cup {NoState}
           /\ admin[a].value.tokens \subseteq Devices /\ admin[a].value.origins \subseteq Origins
           /\ admin[a].prepared \in Handler /\ admin[a].prepared.service \in Services \cup {NoService}
           /\ admin[a].old \in Services \cup {NoService} /\ admin[a].origin \in Origins \cup {Nobody}
           /\ admin[a].value \in State => /\ admin[a].value.config \in Configs
                                          /\ admin[a].value.password \in Passwords
<1>1. admin[a] \in Admin
  BY DEF TypeOK
<1>2. admin[a].value \in State \cup {NoState} /\ admin[a].prepared \in Handler
      /\ admin[a].old \in Services \cup {NoService} /\ admin[a].origin \in Origins \cup {Nobody}
  BY <1>1 DEF Admin
<1>3. \A v \in State : /\ v.tokens \subseteq Devices /\ v.origins \subseteq Origins
                       /\ v.config \in Configs /\ v.password \in Passwords
  BY DEF State
<1>4. \A h \in Handler : h.service \in Services \cup {NoService}
  BY DEF Handler
<1> QED
  BY <1>1, <1>2, <1>3, <1>4, StateExists

\* The types of the sessions a login or a setup creates.
LEMMA SessionTypes ==
    /\ NoSession \in Session
    /\ \A o \in Origins \cup {Nobody}, w \in Passwords : [live |-> TRUE, origin |-> o, password |-> w] \in Session
BY DEF NoSession, Session

\* Steps of a that end the handler.
LEMMA ReturnsLock ==
    ASSUME LockInv, NEW a \in Admins,
           \/ LoginCreates(a) \/ ClearSessions(a) \/ LockRefused(a) \/ TestRefused(a) \/ PrepareFails(a)
           \/ SaveFails(a) \/ CommitInitialFails(a) \/ CloseOld(a)
    PROVE  LockInv'
<1>1. TypeOK /\ Return(a) /\ disk' = disk
  BY DEF LockInv, LoginCreates, ClearSessions, LockRefused, TestRefused, PrepareFails, SaveFails,
         CommitInitialFails, CloseOld
<1>2. admin' \in [Admins -> Admin] /\ changeMu' \in Admins \cup {Nobody}
  BY <1>1, ReturnMoves DEF Moves, Return, TypeOK
<1>3. session' \in [Admins -> Session]
  <2>1. session \in [Admins -> Session]
    BY <1>1 DEF TypeOK
  <2>2. CASE LoginCreates(a)
    <3>1. admin[a].value \in State
      BY <2>2 DEF LoginCreates, LockInv, OpAt
    <3> DEFINE n == [live |-> TRUE, origin |-> admin[a].origin, password |-> admin[a].value.password]
    <3>2. n \in Session
      BY <1>1, <3>1, ValueTypes, SessionTypes
    <3>3. session' = [session EXCEPT ![a] = n]
      BY <2>2 DEF LoginCreates
    <3> QED
      BY <2>1, <3>2, <3>3
  <2>3. CASE ClearSessions(a)
    BY <2>3, SessionTypes DEF ClearSessions
  <2>4. CASE CommitInitialFails(a)
    BY <2>1, <2>4, SessionTypes DEF CommitInitialFails
  <2> QED
    BY <2>1, <2>2, <2>3, <2>4 DEF LockRefused, TestRefused, PrepareFails, SaveFails, CloseOld
<1>4. open' \subseteq Services
  BY <1>1 DEF TypeOK, LoginCreates, ClearSessions, LockRefused, TestRefused, PrepareFails, SaveFails,
              CommitInitialFails, CloseOld, runtime
<1>5. UNCHANGED <<disk, current, handler, config, allowed, request, limited, shutdown>>
  BY DEF LoginCreates, ClearSessions, LockRefused, TestRefused, PrepareFails, SaveFails,
         CommitInitialFails, CloseOld, runtime
<1>6. TypeOK'
  BY <1>1, <1>2, <1>3, <1>4, <1>5 DEF TypeOK
<1> QED
  BY <1>1, <1>6, ReturnStep

\* Steps of a that begin a handler, or its change.
LEMMA ArrivesLock ==
    ASSUME LockInv, NEW a \in Admins, NEW o \in Origins,
           \/ Login(a, o) \/ Logout(a, o) \/ TestQWeather(a, o) \/ \E op \in Ops : WriteBegins(a, op, o)
           \/ \E v \in State : Setup(a, o, v)
    PROVE  LockInv'
<1>1. TypeOK /\ admin \in [Admins -> Admin] /\ disk \in State \cup {NoState}
  BY DEF LockInv, TypeOK
<1>2. /\ UNCHANGED <<disk, current, handler, config, open, allowed, changeMu, request, limited, shutdown>>
      /\ admin[a].pc = "idle" /\ session' \in [Admins -> Session]
  BY <1>1, SessionTypes DEF Login, Logout, TestQWeather, WriteBegins, Setup, Begin, runtime, TypeOK
<1>3. changeMu # a
  BY <1>2 DEF LockInv, Holds, OpAt, Writes, TokenOps, OriginOps
<1>4. Moves(a) /\ OpAt(admin'[a]) /\ ~Holds(admin'[a])
  <2>1. CASE Login(a, o)
    <3>1. Moves(a) /\ admin'[a].pc = "login" /\ admin'[a].op = "login" /\ admin'[a].value = disk
      <4> DEFINE l == [admin[a] EXCEPT !.pc = "login", !.op = "login", !.value = disk, !.origin = o]
      <4>1. l \in Admin
        BY <1>1, ZenonT(60) DEF Admin, PCs, Ops
      <4>2. l.pc = "login" /\ l.op = "login" /\ l.value = disk
        BY <1>1 DEF Admin
      <4>3. admin' = [admin EXCEPT ![a] = l]
        BY <2>1 DEF Login
      <4> HIDE DEF l
      <4> QED
        BY <1>1, <4>1, <4>2, <4>3, Updated
    <3>2. disk \in State
      BY <1>1, <2>1 DEF Login
    <3> QED
      BY <3>1, <3>2 DEF OpAt, Holds, Writes, TokenOps, OriginOps
  <2>2. CASE Logout(a, o)
    BY <1>1, <1>3, <2>2 DEF Logout, Moves, LockInv
  <2>3. CASE TestQWeather(a, o)
    <3>1. Moves(a) /\ admin'[a].pc = "slot" /\ admin'[a].op = "testQWeather"
      BY <1>1, <2>3, ZenonT(60) DEF TestQWeather, Moves, Admin, PCs, Ops
    <3> QED
      BY <3>1 DEF OpAt, Holds, Writes, TokenOps, OriginOps
  <2>4. ASSUME NEW op \in Ops, WriteBegins(a, op, o) PROVE Moves(a) /\ OpAt(admin'[a]) /\ ~Holds(admin'[a])
    <3>1. op \in Writes /\ op \notin {"login", "setup"}
      BY <2>4 DEF WriteBegins, Writes, TokenOps, OriginOps
    <3>2. Moves(a) /\ admin'[a].pc = "lock" /\ admin'[a].op = op
      BY <1>1, <2>4, ZenonT(60) DEF WriteBegins, Moves, Admin, PCs
    <3> QED
      BY <3>1, <3>2 DEF OpAt, Holds
  <2>5. ASSUME NEW v \in State, Setup(a, o, v) PROVE Moves(a) /\ OpAt(admin'[a]) /\ ~Holds(admin'[a])
    <3>1. Moves(a) /\ admin'[a].pc = "slot" /\ admin'[a].op = "setup" /\ admin'[a].value = v
      <4> DEFINE l == [admin[a] EXCEPT !.pc = "slot", !.op = "setup", !.value = v, !.origin = o]
      <4>1. l \in Admin
        BY <1>1, ZenonT(60) DEF Admin, PCs, Ops
      <4>2. l.pc = "slot" /\ l.op = "setup" /\ l.value = v
        BY <1>1 DEF Admin
      <4>3. admin' = [admin EXCEPT ![a] = l]
        BY <2>5 DEF Setup
      <4> HIDE DEF l
      <4> QED
        BY <1>1, <4>1, <4>2, <4>3, Updated
    <3> QED
      BY <3>1 DEF OpAt, Holds, Writes, TokenOps, OriginOps
  <2> QED
    BY <2>1, <2>2, <2>3, <2>4, <2>5
<1>5. TypeOK'
  BY <1>1, <1>2, <1>4 DEF TypeOK, Moves
<1>6. ~Pending(admin'[a])
  BY <1>4 DEF Pending
<1> QED
  BY <1>2, <1>3, <1>4, <1>5, <1>6, LockStep

\* changeMu is taken, with a candidate that changes one part of the state.
LEMMA LockForLock ==
    ASSUME LockInv, NEW a \in Admins, NEW op \in Writes, NEW v, disk \in State => v \in State,
           OneField(op, disk, v), NEW pc \in {"slot", "prepare", "save"},
           pc = "slot" => op = "putQWeather", pc = "prepare" => op \in TokenOps,
           LockFor(a, op, v, pc)
    PROVE  LockInv'
<1>1. TypeOK /\ admin \in [Admins -> Admin] /\ disk \in State /\ v \in State
  BY StateExists DEF LockInv, TypeOK, LockFor
<1>2. Moves(a) /\ admin'[a].pc = pc /\ admin'[a].op = op /\ admin'[a].value = v
  BY <1>1, ZenonT(60) DEF LockFor, Moves, Admin, PCs
<1>3. UNCHANGED <<disk, current, handler, config, open, allowed, session, request, limited, shutdown>>
      /\ changeMu = Nobody /\ changeMu' = a
  BY DEF LockFor, runtime
<1>4. TypeOK'
  BY <1>1, <1>2, <1>3 DEF TypeOK, Moves
<1>5. OpAt(admin'[a]) /\ Holds(admin'[a])
  BY <1>2 DEF OpAt, Holds, Writes, TokenOps, OriginOps
<1>6. Pending(admin'[a]) => /\ disk' \in State /\ admin'[a].value \in State
                            /\ OneField(admin'[a].op, disk', admin'[a].value)
  BY <1>1, <1>2, <1>3
<1> QED
  BY <1>2, <1>3, <1>4, <1>5, <1>6, LockStep

\* The handlers that take it.
LEMMA LocksLock == ASSUME LockInv, NEW a \in Admins, AdminLocks(a) PROVE LockInv'
<1>1. disk \in State \cup {NoState}
  BY DEF LockInv, TypeOK
<1>2. ASSUME NEW c \in Configs, PutQWeather(a, c) PROVE LockInv'
  <2> DEFINE v == [disk EXCEPT !.config = c]
  <2>1. disk \in State => v \in State /\ OneField("putQWeather", disk, v)
    BY <1>2 DEF State, OneField, Edit, PutQWeather, TokenOps, OriginOps
  <2>2. disk \in State /\ LockFor(a, "putQWeather", v, "slot")
    BY <1>1, <1>2 DEF PutQWeather, LockFor
  <2> HIDE DEF v
  <2> QED
    BY <2>1, <2>2, LockForLock DEF Writes
<1>3. ASSUME NEW o \in Origins, AddAdminOrigin(a, o) PROVE LockInv'
  <2> DEFINE v == [disk EXCEPT !.origins = @ \cup {o}]
  <2>1. disk \in State => v \in State /\ OneField("addAdminOrigin", disk, v)
    BY <1>3 DEF State, OneField, Edit, AddAdminOrigin, TokenOps, OriginOps
  <2>2. disk \in State /\ LockFor(a, "addAdminOrigin", v, "save")
    BY <1>1, <1>3 DEF AddAdminOrigin, LockFor
  <2> HIDE DEF v
  <2> QED
    BY <2>1, <2>2, LockForLock DEF Writes, OriginOps
<1>4. ASSUME NEW o \in Origins, DeleteAdminOrigin(a, o) PROVE LockInv'
  <2> DEFINE v == [disk EXCEPT !.origins = @ \ {o}]
  <2>1. disk \in State => v \in State /\ OneField("deleteAdminOrigin", disk, v)
    BY <1>4 DEF State, OneField, Edit, DeleteAdminOrigin, TokenOps, OriginOps
  <2>2. disk \in State /\ LockFor(a, "deleteAdminOrigin", v, "save")
    BY <1>1, <1>4 DEF DeleteAdminOrigin, LockFor
  <2> HIDE DEF v
  <2> QED
    BY <2>1, <2>2, LockForLock DEF Writes, OriginOps
<1>5. ASSUME NEW d \in Devices, CreateToken(a, d) PROVE LockInv'
  <2> DEFINE v == [disk EXCEPT !.tokens = @ \cup {d}]
  <2>1. disk \in State => v \in State /\ OneField("createToken", disk, v)
    BY <1>5 DEF State, OneField, Edit, CreateToken, TokenOps, OriginOps
  <2>2. disk \in State /\ LockFor(a, "createToken", v, "prepare")
    BY <1>1, <1>5 DEF CreateToken, LockFor
  <2> HIDE DEF v
  <2> QED
    BY <2>1, <2>2, LockForLock DEF Writes, TokenOps
<1>6. ASSUME NEW d \in Devices, DeleteToken(a, d) PROVE LockInv'
  <2> DEFINE v == [disk EXCEPT !.tokens = @ \ {d}]
  <2>1. disk \in State => v \in State /\ OneField("deleteToken", disk, v)
    BY <1>6 DEF State, OneField, Edit, DeleteToken, TokenOps, OriginOps
  <2>2. disk \in State /\ LockFor(a, "deleteToken", v, "prepare")
    BY <1>1, <1>6 DEF DeleteToken, LockFor
  <2> HIDE DEF v
  <2> QED
    BY <2>1, <2>2, LockForLock DEF Writes, TokenOps
<1>7. ASSUME NEW w \in Passwords, ChangePassword(a, w) PROVE LockInv'
  <2> DEFINE v == [disk EXCEPT !.password = w]
  <2>1. disk \in State => v \in State /\ OneField("changePassword", disk, v)
    BY <1>7 DEF State, OneField, Edit, ChangePassword, TokenOps, OriginOps
  <2>2. disk \in State /\ LockFor(a, "changePassword", v, "save")
    BY <1>1, <1>7 DEF ChangePassword, LockFor
  <2> HIDE DEF v
  <2> QED
    BY <2>1, <2>2, LockForLock DEF Writes
<1> QED
  BY <1>2, <1>3, <1>4, <1>5, <1>6, <1>7, ReturnsLock DEF AdminLocks

\* A runtime is built.
LEMMA PrepareFacts ==
    ASSUME TypeOK, NEW a \in Admins, admin[a].value \in State, NEW pc \in PCs, Prepare(a, pc)
    PROVE  /\ Moves(a) /\ admin'[a].pc = pc /\ admin'[a].op = admin[a].op
           /\ admin'[a].value = admin[a].value
           /\ admin'[a].prepared.tokens = admin[a].value.tokens
           /\ admin'[a].prepared.service \in Services \ open
           /\ open' = open \cup {admin'[a].prepared.service}
           /\ config' \in [Services -> Configs]
           /\ config'[admin'[a].prepared.service] = admin[a].value.config
           /\ \A s \in Services \ {admin'[a].prepared.service} : config'[s] = config[s]
           /\ UNCHANGED <<current, handler>>
<1> DEFINE s == CHOOSE s \in Services : s \notin open
           p == [service |-> s, tokens |-> admin[a].value.tokens]
           l == [admin[a] EXCEPT !.pc = pc, !.prepared = p]
<1>1. /\ open # Services /\ open' = open \cup {s} /\ config' = [config EXCEPT ![s] = admin[a].value.config]
      /\ admin' = [admin EXCEPT ![a] = l] /\ UNCHANGED <<current, handler>>
  BY DEF Prepare
<1>2. s \in Services \ open
  BY <1>1 DEF TypeOK
<1> HIDE DEF s
<1>3. p \in Handler /\ p.service = s /\ p.tokens = admin[a].value.tokens
  BY <1>2, ValueTypes DEF Handler
<1> HIDE DEF p
<1>4. l \in Admin /\ l.pc = pc /\ l.op = admin[a].op /\ l.value = admin[a].value /\ l.prepared = p
  BY <1>3, ZenonT(60) DEF TypeOK, Admin
<1> HIDE DEF l
<1>5. Moves(a) /\ admin'[a] = l
  BY <1>1, <1>4, Updated
<1>6. config' \in [Services -> Configs] /\ config'[s] = admin[a].value.config
      /\ \A x \in Services \ {s} : config'[x] = config[x]
  BY <1>1, <1>2, ValueTypes DEF TypeOK
<1> QED
  BY <1>1, <1>2, <1>3, <1>4, <1>5, <1>6

\* PrepareTokens wraps the current service.
LEMMA PrepareTokensFacts ==
    ASSUME TypeOK, NEW a \in Admins, PrepareTokens(a), current # NoService
    PROVE  /\ Moves(a) /\ admin'[a].pc = "save" /\ admin'[a].op = admin[a].op
           /\ admin'[a].value = admin[a].value /\ changeMu' = changeMu
           /\ admin'[a].prepared.tokens = admin[a].value.tokens /\ admin'[a].prepared.service = current
<1> DEFINE p == [service |-> current, tokens |-> admin[a].value.tokens]
           l == [admin[a] EXCEPT !.pc = "save", !.prepared = p]
<1>1. admin' = [admin EXCEPT ![a] = l] /\ changeMu' = changeMu
  BY DEF PrepareTokens
<1>2. p \in Handler /\ p.service = current /\ p.tokens = admin[a].value.tokens
  BY ValueTypes DEF Handler, TypeOK
<1> HIDE DEF p
<1>3. l \in Admin /\ l.pc = "save" /\ l.op = admin[a].op /\ l.value = admin[a].value /\ l.prepared = p
  BY <1>2, ZenonT(60) DEF TypeOK, Admin, PCs
<1> HIDE DEF l
<1> QED
  BY <1>1, <1>2, <1>3, Updated

\* What the swap of Manager.activate reads and writes.
LEMMA SwapFacts ==
    ASSUME TypeOK, NEW a \in Admins, Swap(a)
    PROVE  /\ Moves(a) /\ admin'[a].pc = "retain" /\ admin'[a].op = admin[a].op
           /\ admin'[a].value = admin[a].value /\ admin'[a].old = current
           /\ current' \in Services \cup {NoService} /\ handler' \in Handler
<1> DEFINE l == [admin[a] EXCEPT !.pc = "retain", !.old = current]
<1>1. admin' = [admin EXCEPT ![a] = l]
  BY DEF Swap
<1>2. l \in Admin /\ l.pc = "retain" /\ l.op = admin[a].op /\ l.value = admin[a].value /\ l.old = current
  BY ZenonT(60) DEF TypeOK, Admin, PCs
<1> HIDE DEF l
<1>3. current' \in Services \cup {NoService} /\ handler' \in Handler
  BY ValueTypes DEF Swap, TypeOK
<1> QED
  BY <1>1, <1>2, <1>3, Updated

\* Steps by which a handler moves on.
LEMMA MovesOnLock ==
    ASSUME LockInv, NEW a \in Admins,
           \/ TakeTestSlot(a) \/ PrepareRuntime(a) \/ PrepareTokens(a) \/ ReplacePublicOrigins(a)
           \/ SetupPrepares(a) \/ Activate(a) \/ Swap(a) \/ Retain(a)
    PROVE  LockInv'
<1>1. TypeOK /\ OpAt(admin[a])
  BY DEF LockInv
<1>2. CASE TakeTestSlot(a)
  <2>1. /\ Moves(a) /\ admin'[a].pc = "test" /\ admin'[a].op = admin[a].op
        /\ admin'[a].value = admin[a].value /\ admin[a].pc = "slot"
    BY <1>1, <1>2, GotoMoves DEF TakeTestSlot, PCs
  <2>2. UNCHANGED <<disk, current, handler, config, open, allowed, session, changeMu, request, limited, shutdown>>
    BY <1>2 DEF TakeTestSlot, runtime
  <2>3. TypeOK'
    BY <1>1, <2>1, <2>2 DEF TypeOK, Moves
  <2>4. OpAt(admin'[a]) /\ (Pending(admin'[a]) => Pending(admin[a]))
    BY <1>1, <2>1 DEF OpAt, Pending, Holds
  <2> QED
    BY <2>1, <2>2, <2>3, <2>4, GotoStep
<1>3. CASE PrepareRuntime(a)
  <2>1. admin[a].pc = "test" /\ admin[a].op = "putQWeather" /\ Prepare(a, "save")
    BY <1>3 DEF PrepareRuntime
  <2>2. Pending(admin[a]) /\ admin[a].value \in State
    BY <2>1 DEF LockInv, Pending, Holds, Writes
  <2>3. /\ Moves(a) /\ admin'[a].pc = "save" /\ admin'[a].op = admin[a].op
        /\ admin'[a].value = admin[a].value /\ admin'[a].prepared.service \in Services
        /\ open' = open \cup {admin'[a].prepared.service} /\ config' \in [Services -> Configs]
        /\ UNCHANGED <<current, handler>>
    BY <1>1, <2>1, <2>2, PrepareFacts DEF PCs
  <2>4. UNCHANGED <<disk, allowed, session, changeMu, request, limited, shutdown>>
    BY <1>3 DEF PrepareRuntime
  <2>5. TypeOK'
    BY <1>1, <2>3, <2>4 DEF TypeOK, Moves
  <2>6. OpAt(admin'[a])
    BY <2>1, <2>3 DEF OpAt, Writes
  <2> QED
    BY <2>1, <2>2, <2>3, <2>4, <2>5, <2>6, GotoStep
<1>4. CASE PrepareTokens(a)
  <2>1. /\ UNCHANGED <<disk, current, handler, config, open, allowed, session, request, limited, shutdown>>
        /\ admin[a].pc = "prepare"
    BY <1>4 DEF PrepareTokens, runtime
  <2>2. CASE current = NoService
    <3>1. Return(a)
      BY <1>4, <2>2 DEF PrepareTokens
    <3>2. TypeOK'
      BY <1>1, <2>1, <3>1, ReturnMoves DEF TypeOK, Moves, Return
    <3> QED
      BY <2>1, <3>1, <3>2, ReturnStep
  <2>3. CASE current # NoService
    <3>1. /\ Moves(a) /\ admin'[a].pc = "save" /\ admin'[a].op = admin[a].op
          /\ admin'[a].value = admin[a].value /\ changeMu' = changeMu
      BY <1>1, <1>4, <2>3, PrepareTokensFacts
    <3>2. TypeOK'
      BY <1>1, <2>1, <3>1 DEF TypeOK, Moves
    <3>3. OpAt(admin'[a]) /\ Pending(admin[a])
      BY <1>1, <2>1, <3>1 DEF OpAt, Pending, Holds, Writes, TokenOps
    <3> QED
      BY <2>1, <3>1, <3>2, <3>3, GotoStep
  <2> QED
    BY <2>2, <2>3
<1>5. CASE ReplacePublicOrigins(a)
  <2>1. /\ UNCHANGED <<disk, current, handler, config, open, session, request, limited, shutdown>>
        /\ admin[a].pc = "origins" /\ allowed' = admin[a].value.origins
    BY <1>5 DEF ReplacePublicOrigins, runtime
  <2>2. allowed' \subseteq Origins
    BY <1>1, <2>1, ValueTypes
  <2>3. CASE admin[a].op = "addAdminOrigin"
    <3>1. Return(a)
      BY <1>5, <2>3 DEF ReplacePublicOrigins
    <3>2. TypeOK'
      BY <1>1, <2>1, <2>2, <3>1, ReturnMoves DEF TypeOK, Moves, Return
    <3> QED
      BY <2>1, <3>1, <3>2, ReturnStep
  <2>4. CASE admin[a].op # "addAdminOrigin"
    <3> DEFINE pc == IF admin[a].op = "setup" THEN "activate" ELSE "clear"
    <3>1. Goto(a, pc) /\ changeMu' = changeMu /\ pc \in PCs
      BY <1>5, <2>4 DEF ReplacePublicOrigins, PCs
    <3>2. pc \in {"activate", "clear"} /\ (pc = "activate" => admin[a].op = "setup")
          /\ (pc = "clear" => admin[a].op = "deleteAdminOrigin")
      BY <1>1, <2>1, <2>4 DEF OpAt, OriginOps
    <3> HIDE DEF pc
    <3>3. /\ Moves(a) /\ admin'[a].pc = pc /\ admin'[a].op = admin[a].op
          /\ admin'[a].value = admin[a].value
      BY <1>1, <3>1, GotoMoves
    <3>4. TypeOK'
      BY <1>1, <2>1, <2>2, <3>1, <3>3 DEF TypeOK, Moves
    <3>5. OpAt(admin'[a]) /\ ~Pending(admin'[a])
      BY <1>1, <3>2, <3>3 DEF OpAt, Pending
    <3> QED
      BY <2>1, <3>1, <3>2, <3>3, <3>4, <3>5, GotoStep
  <2> QED
    BY <2>3, <2>4
<1>6. CASE SetupPrepares(a)
  <2>1. admin[a].pc = "test" /\ admin[a].op = "setup" /\ Prepare(a, "commit") /\ admin[a].value \in State
    BY <1>1, <1>6 DEF SetupPrepares, OpAt
  <2>2. /\ Moves(a) /\ admin'[a].pc = "commit" /\ admin'[a].op = admin[a].op
        /\ admin'[a].value = admin[a].value /\ admin'[a].prepared.service \in Services
        /\ open' = open \cup {admin'[a].prepared.service} /\ config' \in [Services -> Configs]
        /\ UNCHANGED <<current, handler>>
    BY <1>1, <2>1, PrepareFacts DEF PCs
  <2>3. UNCHANGED <<disk, allowed, changeMu, request, limited, shutdown>>
    BY <1>6 DEF SetupPrepares
  <2>4. session' \in [Admins -> Session]
    <3> DEFINE n == [live |-> TRUE, origin |-> admin[a].origin, password |-> admin[a].value.password]
    <3>1. n \in Session
      BY <1>1, <2>1, ValueTypes, SessionTypes
    <3>2. session' = [session EXCEPT ![a] = n]
      BY <1>6 DEF SetupPrepares
    <3> QED
      BY <1>1, <3>1, <3>2 DEF TypeOK
  <2>5. TypeOK'
    BY <1>1, <2>2, <2>3, <2>4 DEF TypeOK, Moves
  <2>6. OpAt(admin'[a]) /\ ~Pending(admin'[a])
    BY <2>1, <2>2 DEF OpAt, Pending
  <2> QED
    BY <2>1, <2>2, <2>3, <2>5, <2>6, GotoStep
<1>7. CASE Activate(a)
  <2>1. /\ Moves(a) /\ admin'[a].pc = "wlock" /\ admin'[a].op = admin[a].op
        /\ admin'[a].value = admin[a].value /\ admin[a].pc = "activate"
    BY <1>1, <1>7, GotoMoves DEF Activate, PCs
  <2>2. UNCHANGED <<disk, current, handler, config, open, allowed, session, changeMu, request, limited, shutdown>>
    BY <1>7 DEF Activate, runtime
  <2>3. TypeOK'
    BY <1>1, <2>1, <2>2 DEF TypeOK, Moves
  <2>4. OpAt(admin'[a]) /\ ~Pending(admin'[a])
    BY <1>1, <2>1 DEF OpAt, Pending
  <2> QED
    BY <2>1, <2>2, <2>3, <2>4, GotoStep
<1>8. CASE Swap(a)
  <2>1. /\ Moves(a) /\ admin'[a].pc = "retain" /\ admin'[a].op = admin[a].op
        /\ admin'[a].value = admin[a].value /\ admin[a].pc = "wlock"
        /\ current' \in Services \cup {NoService} /\ handler' \in Handler
    BY <1>1, <1>8, SwapFacts DEF Swap
  <2>2. UNCHANGED <<disk, config, open, allowed, session, changeMu, request, limited, shutdown>>
    BY <1>8 DEF Swap
  <2>3. TypeOK'
    BY <1>1, <2>1, <2>2 DEF TypeOK, Moves
  <2>4. OpAt(admin'[a]) /\ ~Pending(admin'[a])
    BY <1>1, <2>1 DEF OpAt, Pending
  <2> QED
    BY <2>1, <2>2, <2>3, <2>4, GotoStep
<1>9. CASE Retain(a)
  <2>1. /\ UNCHANGED <<disk, current, handler, config, open, allowed, session, request, shutdown>>
        /\ admin[a].pc = "retain" /\ limited' \subseteq Devices
    BY <1>1, <1>9 DEF Retain, Retained, runtime, TypeOK
  <2>2. CASE Return(a)
    <3>1. TypeOK'
      BY <1>1, <2>1, <2>2, ReturnMoves DEF TypeOK, Moves, Return
    <3> QED
      BY <2>1, <2>2, <3>1, ReturnStep
  <2>3. CASE admin[a].op \in {"setup", "putQWeather"} /\ Goto(a, "close") /\ changeMu' = changeMu
    <3>1. /\ Moves(a) /\ admin'[a].pc = "close" /\ admin'[a].op = admin[a].op
          /\ admin'[a].value = admin[a].value
      BY <1>1, <2>3, GotoMoves DEF PCs
    <3>2. TypeOK'
      BY <1>1, <2>1, <2>3, <3>1 DEF TypeOK, Moves
    <3>3. OpAt(admin'[a]) /\ ~Pending(admin'[a])
      BY <1>1, <2>3, <3>1 DEF OpAt, Pending
    <3> QED
      BY <2>1, <2>3, <3>1, <3>2, <3>3, GotoStep
  <2> QED
    BY <1>9, <2>2, <2>3 DEF Retain
<1> QED
  BY <1>2, <1>3, <1>4, <1>5, <1>6, <1>7, <1>8, <1>9

\* What follows a save.
LEMMA AfterSaves ==
    ASSUME NEW op \in Writes
    PROVE  /\ op \in OriginOps => AfterSave(op) = "origins"
           /\ op = "changePassword" => AfterSave(op) = "clear"
           /\ op \in TokenOps \cup {"putQWeather"} => AfterSave(op) = "activate"
           /\ AfterSave(op) \in PCs
BY DEF AfterSave, Writes, OriginOps, TokenOps, PCs

\* The state is written: by the holder of changeMu, or where there was none.
LEMMA WritesLock ==
    ASSUME LockInv, NEW a \in Admins, Save(a) \/ CommitInitial(a)
    PROVE  LockInv'
<1>1. TypeOK /\ OpAt(admin[a]) /\ admin[a].value \in State \cup {NoState}
  BY ValueTypes DEF LockInv
<1>2. UNCHANGED <<current, handler, config, open, allowed, session, changeMu, request, limited, shutdown>>
      /\ disk' = admin[a].value
  BY DEF Save, CommitInitial, runtime
<1>3. CASE Save(a)
  <2>1. admin[a].pc = "save" /\ admin[a].op \in Writes /\ Goto(a, AfterSave(admin[a].op))
    BY <1>1, <1>3 DEF Save, OpAt
  <2>2. changeMu = a
    BY <2>1 DEF LockInv, Holds
  <2>3. /\ Moves(a) /\ admin'[a].pc = AfterSave(admin[a].op) /\ admin'[a].op = admin[a].op
        /\ admin'[a].value = admin[a].value
    BY <1>1, <2>1, AfterSaves, GotoMoves
  <2>4. TypeOK'
    BY <1>1, <1>2, <2>3 DEF TypeOK, Moves
  <2>5. AfterSave(admin[a].op) \in {"origins", "clear", "activate"}
    BY <2>1, AfterSaves DEF Writes, TokenOps, OriginOps
  <2>6. OpAt(admin'[a]) /\ Holds(admin'[a]) /\ ~Pending(admin'[a])
    <3>1. CASE admin[a].op \in OriginOps
      BY <1>1, <2>1, <2>3, <3>1, AfterSaves DEF OpAt, Holds, Pending, OriginOps, TokenOps
    <3>2. CASE admin[a].op = "changePassword"
      BY <1>1, <2>1, <2>3, <3>2, AfterSaves DEF OpAt, Holds, Pending, OriginOps, TokenOps
    <3>3. CASE admin[a].op \in TokenOps \cup {"putQWeather"}
      BY <1>1, <2>1, <2>3, <3>3, AfterSaves DEF OpAt, Holds, Pending, OriginOps, TokenOps
    <3> QED
      BY <2>1, <3>1, <3>2, <3>3 DEF Writes, TokenOps, OriginOps
  <2> QED
    BY <1>2, <2>2, <2>3, <2>4, <2>6, LockStep
<1>4. CASE CommitInitial(a)
  <2>1. admin[a].pc = "commit" /\ admin[a].op = "setup" /\ Goto(a, "origins") /\ disk \notin State
    BY <1>1, <1>4, StateExists DEF CommitInitial, OpAt
  <2>2. changeMu # a
    BY <2>1 DEF LockInv, Holds, Writes, TokenOps, OriginOps
  <2>3. /\ Moves(a) /\ admin'[a].pc = "origins" /\ admin'[a].op = admin[a].op
        /\ admin'[a].value = admin[a].value
    BY <1>1, <2>1, GotoMoves DEF PCs
  <2>4. TypeOK'
    BY <1>1, <1>2, <2>3 DEF TypeOK, Moves
  <2>5. OpAt(admin'[a]) /\ ~Holds(admin'[a]) /\ ~Pending(admin'[a])
    BY <1>1, <2>1, <2>3 DEF OpAt, Holds, Pending, Writes, TokenOps, OriginOps
  <2> QED
    BY <1>2, <2>1, <2>2, <2>3, <2>4, <2>5, LockStep
<1> QED
  BY <1>3, <1>4

\* Steps that no handler takes.
LEMMA OthersLock ==
    ASSUME LockInv, UNCHANGED <<disk, changeMu, admin>>, TypeOK'
    PROVE  LockInv'
BY DEF LockInv, OpAt, Holds, Pending, OneField

\* Device requests and the shutdown have nothing to do with changeMu.
LEMMA RequestsLock ==
    ASSUME LockInv, Named, (\E r \in Requests : RequestStep(r)) \/ Close \/ CloseCurrent \/ UNCHANGED vars
    PROVE  LockInv' /\ Named'
<1> DEFINE R == [pc : {"idle", "auth", "served"}, device : Devices \cup {Nobody},
                 service : Services \cup {NoService}]
<1>1. TypeOK /\ request \in [Requests -> R] /\ handler \in Handler /\ NoRequest \in R /\ NoHandler \in Handler
  BY DEF LockInv, TypeOK, NoRequest, NoHandler, Handler
<1>2. ASSUME NEW r \in Requests, RequestStep(r) PROVE TypeOK' /\ UNCHANGED <<disk, changeMu, admin>>
  <2>1. UNCHANGED <<disk, current, handler, config, open, allowed, session, changeMu, admin, shutdown>>
    BY <1>2 DEF RequestStep, Enter, Serve, Leave, runtime
  <2>2. request' \in [Requests -> R]
    <3>1. ASSUME NEW d \in Devices, Enter(r, d) PROVE request' \in [Requests -> R]
      BY <1>1, <3>1 DEF Enter, Handler
    <3>2. CASE Serve(r)
      BY <1>1, <3>2 DEF Serve
    <3>3. CASE Leave(r)
      BY <1>1, <3>3 DEF Leave
    <3> QED
      BY <1>2, <3>1, <3>2, <3>3 DEF RequestStep
  <2>3. limited' \subseteq Devices
    <3>1. CASE Serve(r)
      BY <1>1, <3>1 DEF Serve, Named, TypeOK
    <3> QED
      BY <1>1, <1>2, <3>1 DEF RequestStep, Enter, Leave, TypeOK
  <2> QED
    BY <1>1, <2>1, <2>2, <2>3 DEF TypeOK
<1>3. ASSUME Close \/ CloseCurrent \/ UNCHANGED vars PROVE TypeOK' /\ UNCHANGED <<disk, changeMu, admin>>
  BY <1>1, <1>3 DEF TypeOK, Close, CloseCurrent, vars, runtime
<1>4. Named'
  <2>1. ASSUME NEW r \in Requests, RequestStep(r) PROVE Named'
    <3>1. ASSUME NEW d \in Devices, Enter(r, d) PROVE Named'
      BY <1>1, <3>1 DEF Enter, Named
    <3>2. CASE Serve(r)
      BY <1>1, <3>2 DEF Serve, Named
    <3>3. CASE Leave(r)
      BY <1>1, <3>3 DEF Leave, Named, NoRequest
    <3> QED
      BY <2>1, <3>1, <3>2, <3>3 DEF RequestStep
  <2>2. CASE Close \/ CloseCurrent \/ UNCHANGED vars
    BY <2>2 DEF Close, CloseCurrent, vars, Named
  <2> QED
    BY <2>1, <2>2
<1> QED
  BY <1>2, <1>3, <1>4, OthersLock

\* Every step keeps the lock discipline.
LEMMA NextLock == LockInv /\ Named /\ [Next]_vars => LockInv' /\ Named'
<1> SUFFICES ASSUME LockInv, Named, [Next]_vars PROVE LockInv' /\ Named'
  OBVIOUS
<1>1. ASSUME NEW a \in Admins, AdminProgress(a) \/ AdminArrives(a) \/ AdminLocks(a) PROVE request' = request
  BY <1>1 DEF AdminProgress, AdminArrives, AdminLocks, LoginCreates, ClearSessions, TakeTestSlot, TestRefused,
     PrepareRuntime, PrepareTokens, PrepareFails, Save, SaveFails, ReplacePublicOrigins, SetupPrepares,
     CommitInitial, CommitInitialFails, Activate, Swap, Retain, CloseOld, Login, Logout, TestQWeather,
     WriteBegins, Setup, PutQWeather, AddAdminOrigin, DeleteAdminOrigin, CreateToken, DeleteToken,
     ChangePassword, LockFor, LockRefused
<1>3. ASSUME NEW a \in Admins, AdminProgress(a) PROVE LockInv'
  BY <1>3, ReturnsLock, MovesOnLock, WritesLock DEF AdminProgress
<1>2. ASSUME NEW a \in Admins, AdminArrives(a) PROVE LockInv'
  <2>1. \A c \in Configs, d \in Devices, o \in Origins, w \in Passwords :
           [config |-> c, tokens |-> {d}, origins |-> {o}, password |-> w] \in State
    BY DEF State
  <2> QED
    BY <1>2, <2>1, ArrivesLock DEF AdminArrives
<1>4. ASSUME NEW a \in Admins, AdminProgress(a) \/ AdminArrives(a) \/ AdminLocks(a) PROVE LockInv' /\ Named'
  BY <1>1, <1>2, <1>3, <1>4, LocksLock DEF Named
<1> QED
  BY <1>4, RequestsLock DEF Next, Stopped

\* Nobody holds changeMu when the process starts, configured or not.
LEMMA InitLock == ASSUME Init \/ InitUnconfigured PROVE LockInv /\ Named
<1>1. /\ changeMu = Nobody /\ Nobody \notin Admins
      /\ admin = [a \in Admins |-> Idle] /\ session = [a \in Admins |-> NoSession]
      /\ request = [r \in Requests |-> NoRequest] /\ limited = {} /\ shutdown = "no"
  BY RuntimeAssumption DEF Init, InitUnconfigured
<1>2. disk \in State \cup {NoState} /\ open \subseteq Services /\ allowed \subseteq Origins
      /\ current \in Services \cup {NoService}
  BY DEF Init, InitUnconfigured, State
<1>3. handler \in Handler
  BY DEF Init, InitUnconfigured, State, Handler, NoHandler
<1>4. config \in [Services -> Configs]
  BY DEF Init, InitUnconfigured, State
<1>5. NoRequest \in [pc : {"idle", "auth", "served"}, device : Devices \cup {Nobody},
                     service : Services \cup {NoService}]
  BY DEF NoRequest
<1>6. TypeOK
  BY <1>1, <1>2, <1>3, <1>4, <1>5, IdleType, SessionTypes DEF TypeOK
<1>7. Named
  BY <1>1 DEF Named, NoRequest
<1> QED
  BY <1>1, <1>6, <1>7, IdleType DEF LockInv

\* The lock discipline holds with and without a setup.
LEMMA LockInvariant == Spec \/ SetupSpec => [](LockInv /\ Named)
<1>1. Init \/ InitUnconfigured => LockInv /\ Named
  BY InitLock
<1> QED
  BY <1>1, NextLock, PTL DEF Spec, SetupSpec

\* Every variable of the management interface and of the runtime manager keeps
\* its type, in a server that starts with a state and in one that is set up.
THEOREM RuntimeTypeCorrect == Spec \/ SetupSpec => []TypeOK
<1>1. LockInv => TypeOK
  BY DEF LockInv
<1> QED
  BY <1>1, LockInvariant, PTL

\* Only Save replaces a state that exists; its candidate is an edit of that
\* very state, and no other handler has one.
LEMMA ReplacesByEdit ==
    ASSUME LockInv, [Next]_vars, disk # NoState, disk' # disk
    PROVE  \E a \in Admins : /\ HasCandidate(a) /\ Edit(admin[a].op, disk, disk')
                             /\ \A b \in Admins : HasCandidate(b) => b = a
<1>7. ASSUME NEW a \in Admins, AdminProgress(a) PROVE Save(a)
  <2>1. CASE LoginCreates(a) \/ ClearSessions(a) \/ TakeTestSlot(a) \/ TestRefused(a) \/ PrepareRuntime(a)
             \/ PrepareTokens(a) \/ PrepareFails(a) \/ SaveFails(a) \/ ReplacePublicOrigins(a)
    BY <2>1 DEF LoginCreates, ClearSessions, TakeTestSlot, TestRefused, PrepareRuntime, PrepareTokens,
                PrepareFails, SaveFails, ReplacePublicOrigins
  <2>2. CASE SetupPrepares(a) \/ CommitInitial(a) \/ CommitInitialFails(a) \/ Activate(a) \/ Swap(a)
             \/ Retain(a) \/ CloseOld(a)
    BY <2>2 DEF SetupPrepares, CommitInitial, CommitInitialFails, Activate, Swap, Retain, CloseOld
  <2> QED
    BY <1>7, <2>1, <2>2 DEF AdminProgress
<1>8. ASSUME NEW a \in Admins, AdminArrives(a) \/ AdminLocks(a) PROVE FALSE
  BY <1>8 DEF AdminArrives, AdminLocks, Login, Logout, TestQWeather, WriteBegins, Setup, PutQWeather,
     AddAdminOrigin, DeleteAdminOrigin, CreateToken, DeleteToken, ChangePassword, LockFor, LockRefused
<1>9. ASSUME (\E r \in Requests : RequestStep(r)) \/ Close \/ CloseCurrent \/ UNCHANGED vars PROVE FALSE
  BY <1>9 DEF RequestStep, Enter, Serve, Leave, Close, CloseCurrent, vars
<1>1. PICK a \in Admins : Save(a)
  BY <1>7, <1>8, <1>9 DEF Next, Stopped
<1>2. Pending(admin[a]) /\ disk' = admin[a].value
  BY <1>1 DEF Save, LockInv, OpAt, Pending, Holds
<1>3. Edit(admin[a].op, disk, disk')
  BY <1>2 DEF LockInv, OneField
<1>4. \A b \in Admins : HasCandidate(b) => Pending(admin[b])
  BY DEF HasCandidate, Pending, Holds
<1>5. HasCandidate(a)
  BY <1>2 DEF HasCandidate, Pending, Holds
<1>6. \A b \in Admins : HasCandidate(b) => b = a
  BY <1>2, <1>4 DEF LockInv, Pending
<1> QED
  BY <1>3, <1>5, <1>6

\* No management write is lost, however handlers interleave: a save makes one
\* edit of the state it replaces, and no stale candidate is waiting for its own.
THEOREM NoWriteLost == Spec \/ SetupSpec => NoLostAdminUpdate
<1>1. LockInv /\ [Next]_vars => [disk # NoState /\ disk' # disk =>
          \E a \in Admins : /\ HasCandidate(a) /\ Edit(admin[a].op, disk, disk')
                            /\ \A b \in Admins : HasCandidate(b) => b = a]_vars
  BY ReplacesByEdit
<1> QED
  BY <1>1, LockInvariant, PTL DEF Spec, SetupSpec, NoLostAdminUpdate

-----------------------------------------------------------------------------
(* The change that is under way in a server with a state.                  *)

\* The handler that holds changeMu.
Held == IF changeMu = Nobody THEN Idle ELSE admin[changeMu]

\* It has built a runtime, wrapped the routes of the current one, or put its
\* runtime in the place of another.
Building(l) == l.op = "putQWeather" /\ l.pc \in {"save", "activate", "wlock"}
Wrapping(l) == l.op \in TokenOps /\ l.pc \in {"save", "activate", "wlock"}
Replacing(l) == l.op = "putQWeather" /\ l.pc \in {"retain", "close"}

\* Its candidate is on disk.
Saved(l) == Holds(l) /\ l.pc \in {"origins", "clear", "activate", "wlock", "retain", "close"}

\* The service that is open beside the current one.
Extra(l) == IF Building(l) THEN {l.prepared.service} ELSE IF Replacing(l) THEN {l.old} ELSE {}

\* The services: which are open, who routes where, who is served.
ServiceInv ==
    /\ open = ({current} \cup Extra(Held)) \ {NoService}
    /\ current # NoService => handler.service = current
    /\ Building(Held) => /\ Held.prepared.service \in Services /\ Held.prepared.service # current
                         /\ config[Held.prepared.service] = Held.value.config
                         /\ Held.prepared.tokens = Held.value.tokens
    /\ Wrapping(Held) => /\ Held.prepared.tokens = Held.value.tokens
                         /\ current # NoService => Held.prepared.service = current
    /\ Replacing(Held) => Held.old = NoService \/ Held.old # current
    /\ \A r \in Requests : request[r].pc # "idle" =>
          request[r].service = current /\ current # NoService /\ request[r].device \in handler.tokens

\* The runtime is that of the disk, up to the steps the holder still owes.
MatchInv ==
    /\ Saved(Held) => disk = Held.value
    /\ Held.pc # "origins" => allowed = disk.origins
    /\ shutdown # "done" =>
          /\ current # NoService
          /\ ~(Held.op = "putQWeather" /\ Held.pc \in {"activate", "wlock"}) => config[current] = disk.config
          /\ ~(Held.op \in TokenOps /\ Held.pc \in {"activate", "wlock"}) => handler.tokens = disk.tokens
          /\ ~(Held.op \in TokenOps /\ Held.pc \in {"activate", "wlock", "retain"}) => limited \subseteq disk.tokens

NoSetup == disk \in State /\ \A a \in Admins : admin[a].op # "setup"

RunInv == ServiceInv /\ MatchInv /\ NoSetup

\* The variables these speak about, besides the handlers.
matched == <<disk, current, handler, config, open, allowed, request, limited, shutdown>>

\* A step of a client without the lock leaves the holder's state alone.
LEMMA HeldStays ==
    ASSUME LockInv, NEW a \in Admins, Moves(a), changeMu # a, changeMu' = changeMu
    PROVE  Held' = Held
BY DEF Held, Moves, LockInv, TypeOK

\* Whose state Held is.
LEMMA HeldIs ==
    /\ \A a \in Admins : (changeMu = a => Held = admin[a]) /\ (changeMu' = a => Held' = admin'[a])
    /\ (changeMu = Nobody => Held = Idle) /\ (changeMu' = Nobody => Held' = Idle)
BY RuntimeAssumption DEF Held

\* The holder returned.
LEMMA HeldReturns ==
    ASSUME LockInv, NEW a \in Admins, Return(a)
    PROVE  /\ Moves(a) /\ admin'[a] = Idle
           /\ changeMu = a => Held = admin[a] /\ Held' = Idle
           /\ changeMu # a => Held' = Held
<1>1. Moves(a) /\ admin'[a] = Idle
  BY ReturnMoves DEF LockInv
<1>2. changeMu = a => Held = admin[a] /\ Held' = Idle
  BY HeldIs DEF Return
<1>3. changeMu # a => Held' = Held
  BY <1>1, HeldStays DEF Return
<1> QED
  BY <1>1, <1>2, <1>3

\* Nothing the invariant speaks about changes.
LEMMA SameHeld ==
    ASSUME ServiceInv, MatchInv, Held' = Held, UNCHANGED matched
    PROVE  ServiceInv' /\ MatchInv'
BY DEF ServiceInv, MatchInv, matched, Building, Wrapping, Replacing, Saved, Extra, Holds

\* A holder that owes nothing and holds no service.
Quiet(l) == l.pc \notin {"origins", "activate", "wlock", "retain"} /\ ~Building(l) /\ ~Replacing(l)

\* It has not built, wrapped or saved anything.
Neutral(l) == Quiet(l) /\ ~Wrapping(l) /\ ~Saved(l)

\* With changeMu free nothing is owed to the disk or the runtime.
LEMMA IdleNeutral == Neutral(Idle) /\ Extra(Idle) = {}
BY IdleType DEF Neutral, Quiet, Building, Replacing, Wrapping, Saved, Holds, Extra, Writes, TokenOps, OriginOps

\* A step that neither begins nor ends a change keeps the invariants.
LEMMA QuietStep ==
    ASSUME ServiceInv, MatchInv, Quiet(Held), Neutral(Held'), UNCHANGED matched
    PROVE  ServiceInv' /\ MatchInv'
<1>1. Extra(Held) = {} /\ Extra(Held') = {}
  BY DEF Quiet, Neutral, Extra
<1>2. ServiceInv'
  BY <1>1 DEF ServiceInv, matched, Neutral, Quiet, Building, Wrapping, Replacing, Extra
<1>3. MatchInv'
  BY DEF MatchInv, matched, Neutral, Quiet, Saved, Holds
<1> QED
  BY <1>2, <1>3

\* No handler becomes a setup.
LEMMA StaysSetUp ==
    ASSUME NoSetup, LockInv, NEW a \in Admins, Moves(a), admin'[a].op # "setup", disk' \in State
    PROVE  NoSetup'
BY DEF NoSetup, Moves

\* A handler that returns is not a setup's.
LEMMA IdleSetUp ==
    ASSUME NoSetup, LockInv, NEW a \in Admins, Return(a), disk' = disk
    PROVE  NoSetup'
BY ReturnMoves, IdleType, StaysSetUp DEF LockInv, NoSetup

-----------------------------------------------------------------------------
(* The actions.                                                            *)

\* Handlers begin, take changeMu, and give up before they have prepared.
LEMMA ArrivesRun ==
    ASSUME LockInv, RunInv, NEW a \in Admins, NEW o \in Origins,
           \/ Login(a, o) \/ Logout(a, o) \/ TestQWeather(a, o) \/ \E op \in Ops : WriteBegins(a, op, o)
           \/ \E v \in State : Setup(a, o, v)
    PROVE  RunInv'
<1>1. admin \in [Admins -> Admin] /\ ServiceInv /\ MatchInv /\ NoSetup /\ disk \in State
  BY DEF LockInv, TypeOK, RunInv, NoSetup
<1>2. UNCHANGED matched /\ changeMu' = changeMu /\ admin[a].pc = "idle"
  BY DEF Login, Logout, TestQWeather, WriteBegins, Setup, Begin, matched, runtime
<1>3. changeMu # a
  BY <1>2 DEF LockInv, Holds, OpAt, Writes, TokenOps, OriginOps
<1>4. \A v \in State : ~Setup(a, o, v)
  BY <1>1, StateExists DEF Setup
<1>5. Moves(a) /\ admin'[a].op # "setup"
  <2>1. LockInv'
    BY ArrivesLock
  <2>2. admin' \in [Admins -> Admin]
    BY <2>1 DEF LockInv, TypeOK
  <2>3. \A b \in Admins \ {a} : admin'[b] = admin[b]
    BY <1>1, <1>4 DEF Login, Logout, TestQWeather, WriteBegins, Begin
  <2>4. admin'[a].op # "setup"
    <3>1. CASE Login(a, o)
      BY <1>1, <3>1 DEF Login, Admin
    <3>2. CASE Logout(a, o)
      BY <1>1, <3>2 DEF Logout, NoSetup
    <3>3. CASE TestQWeather(a, o)
      BY <1>1, <3>3 DEF TestQWeather, Admin
    <3>4. ASSUME NEW op \in Ops, WriteBegins(a, op, o) PROVE admin'[a].op # "setup"
      BY <1>1, <3>4 DEF WriteBegins, Writes, Admin
    <3> QED
      BY <1>4, <3>1, <3>2, <3>3, <3>4
  <2> QED
    BY <2>2, <2>3, <2>4 DEF Moves
<1>6. Held' = Held
  BY <1>2, <1>3, <1>5, HeldStays
<1>7. NoSetup'
  BY <1>1, <1>2, <1>5, StaysSetUp DEF matched
<1> QED
  BY <1>1, <1>2, <1>6, <1>7, SameHeld DEF RunInv

\* A write that takes changeMu has computed its value and changed nothing yet.
LEMMA LockForRun ==
    ASSUME LockInv, RunInv, NEW a \in Admins, NEW op \in Writes, NEW v \in State,
           NEW pc \in {"slot", "prepare", "save"},
           pc = "slot" <=> op = "putQWeather", pc = "prepare" <=> op \in TokenOps,
           LockFor(a, op, v, pc)
    PROVE  RunInv'
<1>1. admin \in [Admins -> Admin] /\ ServiceInv /\ MatchInv /\ NoSetup /\ disk \in State
  BY DEF LockInv, TypeOK, RunInv, NoSetup
<1>2. Moves(a) /\ admin'[a].pc = pc /\ admin'[a].op = op /\ admin'[a].value = v
  BY <1>1, ZenonT(60) DEF LockFor, Moves, Admin, PCs
<1>3. UNCHANGED matched /\ changeMu = Nobody /\ changeMu' = a
  BY DEF LockFor, runtime, matched
<1>4. Held = Idle /\ Held' = admin'[a]
  BY <1>3, HeldIs
<1>5. Quiet(Held) /\ Neutral(Held')
  BY <1>2, <1>4, IdleNeutral
  DEF Neutral, Quiet, Building, Replacing, Wrapping, Saved, Holds, Writes, TokenOps, OriginOps
<1>6. NoSetup'
  BY <1>1, <1>2, <1>3, StaysSetUp DEF matched, Writes, TokenOps, OriginOps
<1> QED
  BY <1>1, <1>3, <1>5, <1>6, QuietStep DEF RunInv

\* The writes that take changeMu, each with its value.
LEMMA LocksRun == ASSUME LockInv, RunInv, NEW a \in Admins, AdminLocks(a) PROVE RunInv'
<1>1. disk \in State
  BY DEF RunInv, NoSetup
<1>2. ASSUME NEW c \in Configs, PutQWeather(a, c) PROVE RunInv'
  <2>1. [disk EXCEPT !.config = c] \in State
    BY <1>1 DEF State
  <2> QED
    BY <1>2, <2>1, LockForRun DEF PutQWeather, Writes, TokenOps
<1>3. ASSUME NEW o \in Origins, AddAdminOrigin(a, o) PROVE RunInv'
  <2>1. [disk EXCEPT !.origins = @ \cup {o}] \in State
    BY <1>1 DEF State
  <2> QED
    BY <1>3, <2>1, LockForRun DEF AddAdminOrigin, Writes, OriginOps, TokenOps
<1>4. ASSUME NEW o \in Origins, DeleteAdminOrigin(a, o) PROVE RunInv'
  <2>1. [disk EXCEPT !.origins = @ \ {o}] \in State
    BY <1>1 DEF State
  <2> QED
    BY <1>4, <2>1, LockForRun DEF DeleteAdminOrigin, Writes, OriginOps, TokenOps
<1>5. ASSUME NEW d \in Devices, CreateToken(a, d) PROVE RunInv'
  <2>1. [disk EXCEPT !.tokens = @ \cup {d}] \in State
    BY <1>1 DEF State
  <2> QED
    BY <1>5, <2>1, LockForRun DEF CreateToken, Writes, TokenOps
<1>6. ASSUME NEW d \in Devices, DeleteToken(a, d) PROVE RunInv'
  <2>1. [disk EXCEPT !.tokens = @ \ {d}] \in State
    BY <1>1 DEF State
  <2> QED
    BY <1>6, <2>1, LockForRun DEF DeleteToken, Writes, TokenOps
<1>7. ASSUME NEW w \in Passwords, ChangePassword(a, w) PROVE RunInv'
  <2>1. [disk EXCEPT !.password = w] \in State
    BY <1>1 DEF State
  <2> QED
    BY <1>7, <2>1, LockForRun DEF ChangePassword, Writes, OriginOps, TokenOps
<1>8. CASE LockRefused(a)
  <2>1. UNCHANGED matched /\ Return(a) /\ changeMu # a
    BY <1>8, RuntimeAssumption DEF LockRefused, matched, runtime
  <2>2. Held' = Held
    BY <2>1, HeldReturns
  <2> QED
    BY <2>1, <2>2, SameHeld, IdleSetUp DEF RunInv, matched
<1> QED
  BY <1>2, <1>3, <1>4, <1>5, <1>6, <1>7, <1>8 DEF AdminLocks

\* Handlers that return with nothing changed.
LEMMA ReturnsRun ==
    ASSUME LockInv, RunInv, NEW a \in Admins,
           LoginCreates(a) \/ ClearSessions(a) \/ TestRefused(a) \/ PrepareFails(a)
    PROVE  RunInv'
<1>1. UNCHANGED matched /\ Return(a) /\ admin[a].pc \in {"login", "clear", "slot", "test"}
  BY DEF LoginCreates, ClearSessions, TestRefused, PrepareFails, matched, runtime
<1>2. CASE changeMu # a
  BY <1>1, <1>2, HeldReturns, SameHeld, IdleSetUp DEF RunInv, matched
<1>3. CASE changeMu = a
  <2>1. Held = admin[a] /\ Held' = Idle
    BY <1>1, <1>3, HeldReturns
  <2>2. Quiet(Held) /\ Neutral(Held')
    BY <1>1, <2>1, IdleNeutral DEF Quiet, Building, Replacing
  <2> QED
    BY <1>1, <2>2, QuietStep, IdleSetUp DEF RunInv, matched
<1> QED
  BY <1>2, <1>3

\* The test of new credentials takes its slot before anything is changed.
LEMMA TestsRun == ASSUME LockInv, RunInv, NEW a \in Admins, TakeTestSlot(a) PROVE RunInv'
<1>1. /\ Moves(a) /\ admin'[a].pc = "test" /\ admin'[a].op = admin[a].op /\ admin[a].pc = "slot"
  BY GotoMoves DEF TakeTestSlot, PCs, LockInv
<1>2. UNCHANGED matched /\ changeMu' = changeMu
  BY DEF TakeTestSlot, matched, runtime
<1>3. NoSetup'
  BY <1>1, <1>2, StaysSetUp DEF RunInv, NoSetup, matched
<1>4. CASE changeMu # a
  BY <1>1, <1>2, <1>3, <1>4, HeldStays, SameHeld DEF RunInv
<1>5. CASE changeMu = a
  <2>1. Held = admin[a] /\ Held' = admin'[a]
    BY <1>2, <1>5, HeldIs
  <2>2. Quiet(Held) /\ Neutral(Held')
    BY <1>1, <2>1 DEF Neutral, Quiet, Building, Replacing, Wrapping, Saved
  <2> QED
    BY <1>2, <1>3, <2>2, QuietStep DEF RunInv
<1> QED
  BY <1>4, <1>5

\* A runtime is built beside the current one.
LEMMA PreparesRun ==
    ASSUME LockInv, RunInv, NEW a \in Admins, PrepareRuntime(a) \/ SetupPrepares(a) PROVE RunInv'
<1>1. ServiceInv /\ MatchInv /\ NoSetup /\ TypeOK
  BY DEF RunInv, LockInv
<1>2. PrepareRuntime(a) /\ admin[a].pc = "test" /\ admin[a].op = "putQWeather" /\ Prepare(a, "save")
  BY <1>1 DEF PrepareRuntime, SetupPrepares, NoSetup
<1>3. changeMu = a /\ admin[a].value \in State
  BY <1>2 DEF LockInv, Pending, Holds, Writes
<1>4. UNCHANGED <<disk, allowed, changeMu, request, limited, shutdown>>
  BY <1>2 DEF PrepareRuntime
<1> DEFINE s == admin'[a].prepared.service
<1>5. /\ Moves(a) /\ admin'[a].pc = "save" /\ admin'[a].op = "putQWeather"
      /\ admin'[a].value = admin[a].value /\ admin'[a].prepared.tokens = admin[a].value.tokens
      /\ s \in Services \ open /\ open' = open \cup {s}
      /\ config'[s] = admin[a].value.config /\ \A x \in Services \ {s} : config'[x] = config[x]
      /\ UNCHANGED <<current, handler>>
  BY <1>1, <1>2, <1>3, PrepareFacts DEF PCs
<1> HIDE DEF s
<1>6. Held = admin[a] /\ Held' = admin'[a] /\ Held'.prepared.service = s
  BY <1>3, <1>4, HeldIs DEF s
<1>7. /\ Building(Held') /\ ~Wrapping(Held') /\ ~Replacing(Held') /\ ~Saved(Held') /\ Extra(Held') = {s}
      /\ Extra(Held) = {}
  BY <1>2, <1>5, <1>6 DEF Building, Wrapping, Replacing, Saved, Extra, TokenOps
<1>8. s # NoService /\ s # current /\ (current # NoService => current \in open /\ current \in Services)
  BY <1>1, <1>5, <1>7, RuntimeAssumption DEF ServiceInv, TypeOK
<1>9. ServiceInv'
  <2>1. open' = ({current} \cup Extra(Held')) \ {NoService}
    BY <1>1, <1>5, <1>7, <1>8 DEF ServiceInv
  <2> QED
    BY <1>1, <1>4, <1>5, <1>6, <1>7, <1>8, <2>1 DEF ServiceInv
<1>10. MatchInv'
  <2>1. current # NoService => config'[current] = config[current]
    BY <1>5, <1>8
  <2> QED
    BY <1>1, <1>2, <1>4, <1>5, <1>6, <1>7, <2>1 DEF MatchInv, TokenOps
<1>11. NoSetup'
  BY <1>1, <1>4, <1>5, StaysSetUp DEF NoSetup
<1> QED
  BY <1>9, <1>10, <1>11 DEF RunInv

\* The routes of the current service are wrapped.
LEMMA PrepareTokensRun == ASSUME LockInv, RunInv, NEW a \in Admins, PrepareTokens(a) PROVE RunInv'
<1>1. ServiceInv /\ MatchInv /\ NoSetup /\ TypeOK
  BY DEF RunInv, LockInv
<1>2. UNCHANGED matched /\ admin[a].pc = "prepare" /\ admin[a].op \in TokenOps
  BY DEF PrepareTokens, matched, runtime, LockInv, OpAt
<1>3. changeMu = a
  BY <1>2 DEF LockInv, Holds, Writes, TokenOps, OriginOps
<1>4. Held = admin[a] /\ Quiet(Held) /\ Extra(Held) = {} /\ ~Saved(Held)
  BY <1>2, <1>3, HeldIs DEF Quiet, Building, Replacing, Extra, Saved
<1>5. CASE current = NoService
  <2>1. Return(a)
    BY <1>5 DEF PrepareTokens
  <2>2. Held' = Idle
    BY <1>3, <2>1, HeldReturns
  <2> QED
    BY <1>1, <1>2, <1>4, <2>1, <2>2, IdleNeutral, QuietStep, IdleSetUp DEF RunInv, matched
<1>6. CASE current # NoService
  <2>1. /\ Moves(a) /\ admin'[a].pc = "save" /\ admin'[a].op = admin[a].op
        /\ admin'[a].value = admin[a].value /\ changeMu' = changeMu
        /\ admin'[a].prepared.tokens = admin[a].value.tokens /\ admin'[a].prepared.service = current
    BY <1>1, <1>6, PrepareTokensFacts
  <2>2. Held' = admin'[a]
    BY <1>3, <2>1, HeldIs
  <2>3. ~Building(Held') /\ ~Replacing(Held') /\ ~Saved(Held') /\ Extra(Held') = {}
    BY <1>2, <2>1, <2>2 DEF Building, Replacing, Saved, Extra, TokenOps
  <2>4. ServiceInv'
    BY <1>1, <1>2, <1>4, <2>1, <2>2, <2>3 DEF ServiceInv, matched
  <2>5. MatchInv'
    BY <1>1, <1>2, <1>4, <2>1, <2>2, <2>3 DEF MatchInv, matched, Quiet
  <2>6. NoSetup'
    BY <1>1, <1>2, <2>1, StaysSetUp DEF NoSetup, matched
  <2> QED
    BY <2>4, <2>5, <2>6 DEF RunInv
<1> QED
  BY <1>5, <1>6

\* The candidate replaces the state.
LEMMA SaveRun == ASSUME LockInv, RunInv, NEW a \in Admins, Save(a) PROVE RunInv'
<1>1. ServiceInv /\ MatchInv /\ NoSetup /\ TypeOK
  BY DEF RunInv, LockInv
<1>2. admin[a].pc = "save" /\ admin[a].op \in Writes /\ Goto(a, AfterSave(admin[a].op))
  BY DEF Save, LockInv, OpAt
<1>3. /\ changeMu = a /\ admin[a].value \in State /\ OneField(admin[a].op, disk, admin[a].value)
  BY <1>2 DEF LockInv, Pending, Holds
<1>4. /\ UNCHANGED <<current, handler, config, open, allowed, changeMu, request, limited, shutdown>>
      /\ disk' = admin[a].value
  BY DEF Save, runtime
<1>5. /\ Moves(a) /\ admin'[a].pc = AfterSave(admin[a].op) /\ admin'[a].op = admin[a].op
      /\ admin'[a].value = admin[a].value /\ admin'[a].prepared = admin[a].prepared
  BY <1>1, <1>2, AfterSaves, GotoMoves
<1>6. Held = admin[a] /\ Held' = admin'[a]
  BY <1>3, <1>4, HeldIs
<1>7. NoSetup'
  BY <1>1, <1>3, <1>4, <1>5, StaysSetUp DEF NoSetup
<1>8. /\ admin[a].op = "putQWeather" => Held'.pc = "activate"
      /\ admin[a].op \in TokenOps => Held'.pc = "activate"
      /\ admin[a].op \in OriginOps => Held'.pc = "origins"
      /\ admin[a].op = "changePassword" => Held'.pc = "clear"
  BY <1>2, <1>5, <1>6, AfterSaves
<1>9. /\ Building(Held') <=> Building(Held)
      /\ Wrapping(Held') <=> Wrapping(Held)
      /\ ~Replacing(Held')
  BY <1>2, <1>5, <1>6, <1>8 DEF Building, Wrapping, Replacing
<1>10. Extra(Held') = Extra(Held)
  BY <1>2, <1>5, <1>6, <1>9 DEF Extra, Replacing
<1>11. ServiceInv'
  BY <1>1, <1>4, <1>5, <1>6, <1>9, <1>10 DEF ServiceInv
<1>12. MatchInv'
  <2>1. /\ allowed = disk.origins
        /\ shutdown # "done" => /\ current # NoService /\ config[current] = disk.config
                                /\ handler.tokens = disk.tokens /\ limited \subseteq disk.tokens
    BY <1>1, <1>2, <1>6 DEF MatchInv
  <2>2. CASE admin[a].op = "putQWeather"
    BY <1>3, <1>4, <1>5, <1>6, <1>8, <2>1, <2>2 DEF MatchInv, OneField, TokenOps, OriginOps
  <2>3. CASE admin[a].op \in TokenOps
    BY <1>3, <1>4, <1>5, <1>6, <1>8, <2>1, <2>3 DEF MatchInv, OneField, TokenOps, OriginOps
  <2>4. CASE admin[a].op \in OriginOps
    BY <1>3, <1>4, <1>5, <1>6, <1>8, <2>1, <2>4 DEF MatchInv, OneField, TokenOps, OriginOps
  <2>5. CASE admin[a].op = "changePassword"
    BY <1>3, <1>4, <1>5, <1>6, <1>8, <2>1, <2>5 DEF MatchInv, OneField, TokenOps, OriginOps
  <2> QED
    BY <1>2, <2>2, <2>3, <2>4, <2>5 DEF Writes, TokenOps, OriginOps
<1> QED
  BY <1>7, <1>11, <1>12 DEF RunInv

\* A failed save, and the last step of a replacement, close a service.
LEMMA ClosesRun == ASSUME LockInv, RunInv, NEW a \in Admins, SaveFails(a) \/ CloseOld(a) PROVE RunInv'
<1>1. ServiceInv /\ MatchInv /\ NoSetup /\ TypeOK
  BY DEF RunInv, LockInv
<1>2. /\ Return(a) /\ UNCHANGED <<disk, current, handler, config, allowed, request, limited, shutdown>>
  BY DEF SaveFails, CloseOld
<1>3. CASE SaveFails(a)
  <2>1. admin[a].pc = "save" /\ admin[a].op \in Writes /\ changeMu = a
    BY <1>3 DEF SaveFails, LockInv, OpAt, Holds
  <2>2. Held = admin[a] /\ Held' = Idle
    BY <1>2, <2>1, HeldReturns
  <2>3. open' = {current} \ {NoService}
    <3>1. CASE admin[a].op = "putQWeather"
      <4>1. Building(Held) /\ Extra(Held) = {Held.prepared.service} /\ open' = open \ {Held.prepared.service}
        BY <1>3, <2>1, <2>2, <3>1 DEF SaveFails, Unactivated, Building, Extra
      <4> QED
        BY <1>1, <4>1 DEF ServiceInv
    <3>2. CASE admin[a].op # "putQWeather"
      <4>1. Extra(Held) = {} /\ open' = open
        BY <1>1, <1>3, <2>1, <2>2, <3>2 DEF SaveFails, Unactivated, Building, Replacing, Extra, NoSetup
      <4> QED
        BY <1>1, <4>1 DEF ServiceInv
    <3> QED
      BY <3>1, <3>2
  <2>4. ServiceInv'
    BY <1>1, <1>2, <2>2, <2>3, IdleNeutral DEF ServiceInv, Neutral, Quiet
  <2>5. MatchInv'
    BY <1>1, <1>2, <2>1, <2>2, IdleType, IdleNeutral DEF MatchInv, Neutral
  <2> QED
    BY <1>1, <1>2, <2>4, <2>5, IdleSetUp DEF RunInv
<1>4. CASE CloseOld(a)
  <2>1. admin[a].pc = "close" /\ admin[a].op = "putQWeather" /\ changeMu = a
    BY <1>1, <1>4 DEF CloseOld, LockInv, OpAt, Holds, Writes, NoSetup
  <2>2. Held = admin[a] /\ Held' = Idle
    BY <1>2, <2>1, HeldReturns
  <2>3. Replacing(Held) /\ Extra(Held) = {Held.old} /\ open' = open \ {Held.old}
    BY <1>4, <2>1, <2>2 DEF CloseOld, Replacing, Building, Extra
  <2>4. open' = {current} \ {NoService}
    BY <1>1, <2>3 DEF ServiceInv
  <2>5. ServiceInv'
    BY <1>1, <1>2, <2>2, <2>4, IdleNeutral DEF ServiceInv, Neutral, Quiet
  <2>6. MatchInv'
    BY <1>1, <1>2, <2>1, <2>2, IdleType, IdleNeutral DEF MatchInv, Neutral, TokenOps
  <2> QED
    BY <1>1, <1>2, <2>5, <2>6, IdleSetUp DEF RunInv
<1> QED
  BY <1>3, <1>4

\* The origins of the disk become the active ones.
LEMMA OriginsRun == ASSUME LockInv, RunInv, NEW a \in Admins, ReplacePublicOrigins(a) PROVE RunInv'
<1>1. ServiceInv /\ MatchInv /\ NoSetup /\ TypeOK
  BY DEF RunInv, LockInv
<1>2. admin[a].pc = "origins" /\ admin[a].op \in OriginOps /\ changeMu = a
  BY <1>1 DEF ReplacePublicOrigins, LockInv, OpAt, Holds, Writes, TokenOps, OriginOps, NoSetup
<1>3. /\ UNCHANGED <<disk, current, handler, config, open, request, limited, shutdown>>
      /\ allowed' = admin[a].value.origins
  BY DEF ReplacePublicOrigins, runtime
<1>4. Held = admin[a] /\ Saved(Held) /\ Quiet([Held EXCEPT !.pc = "clear"]) /\ Extra(Held) = {}
  BY <1>1, <1>2, HeldIs DEF Saved, Holds, Writes, Quiet, Building, Replacing, Extra, OriginOps, TypeOK, Admin
<1>5. allowed' = disk.origins /\ disk = admin[a].value
  BY <1>1, <1>3, <1>4 DEF MatchInv
<1>6. CASE admin[a].op = "addAdminOrigin"
  <2>1. Return(a)
    BY <1>6 DEF ReplacePublicOrigins
  <2>2. Held' = Idle
    BY <1>2, <2>1, HeldReturns
  <2>3. ServiceInv'
    BY <1>1, <1>3, <1>4, <2>2, IdleNeutral DEF ServiceInv, Neutral, Quiet
  <2>4. MatchInv'
    BY <1>1, <1>2, <1>3, <1>4, <1>5, <2>2, IdleType, IdleNeutral DEF MatchInv, Neutral
  <2> QED
    BY <1>1, <1>3, <2>1, <2>3, <2>4, IdleSetUp DEF RunInv
<1>7. CASE admin[a].op # "addAdminOrigin"
  <2>1. Goto(a, "clear") /\ changeMu' = changeMu
    BY <1>1, <1>7 DEF ReplacePublicOrigins, NoSetup
  <2>2. /\ Moves(a) /\ admin'[a].pc = "clear" /\ admin'[a].op = admin[a].op
        /\ admin'[a].value = admin[a].value
    BY <1>1, <2>1, GotoMoves DEF PCs
  <2>3. Held' = admin'[a]
    BY <1>2, <2>1, HeldIs
  <2>4. ~Building(Held') /\ ~Replacing(Held') /\ ~Wrapping(Held') /\ Extra(Held') = {}
    BY <2>2, <2>3 DEF Building, Replacing, Wrapping, Extra
  <2>5. ServiceInv'
    BY <1>1, <1>3, <1>4, <2>3, <2>4 DEF ServiceInv
  <2>6. MatchInv'
    BY <1>1, <1>2, <1>3, <1>4, <1>5, <2>2, <2>3 DEF MatchInv
  <2>7. NoSetup'
    BY <1>1, <1>3, <2>2, StaysSetUp DEF NoSetup
  <2> QED
    BY <2>5, <2>6, <2>7 DEF RunInv
<1> QED
  BY <1>6, <1>7

\* The new runtime waits for the readers, and takes the place of the old one.
LEMMA ActivatesRun == ASSUME LockInv, RunInv, NEW a \in Admins, Activate(a) PROVE RunInv'
<1>1. ServiceInv /\ MatchInv /\ NoSetup /\ TypeOK
  BY DEF RunInv, LockInv
<1>2. admin[a].pc = "activate" /\ admin[a].op \in TokenOps \cup {"putQWeather"} /\ changeMu = a
  BY <1>1 DEF Activate, LockInv, OpAt, Holds, Writes, NoSetup, TokenOps
<1>3. UNCHANGED matched /\ changeMu' = changeMu /\ Goto(a, "wlock")
  BY DEF Activate, matched, runtime
<1>4. /\ Moves(a) /\ admin'[a].pc = "wlock" /\ admin'[a].op = admin[a].op
      /\ admin'[a].value = admin[a].value /\ admin'[a].prepared = admin[a].prepared
  BY <1>1, <1>3, GotoMoves DEF PCs
<1>5. Held = admin[a] /\ Held' = admin'[a]
  BY <1>2, <1>3, HeldIs
<1>6. NoSetup'
  BY <1>1, <1>2, <1>3, <1>4, StaysSetUp DEF NoSetup, matched
<1>7. /\ Building(Held') <=> Building(Held)
      /\ Wrapping(Held') <=> Wrapping(Held)
      /\ ~Replacing(Held') /\ ~Replacing(Held)
  BY <1>2, <1>4, <1>5 DEF Building, Wrapping, Replacing
<1>8. Extra(Held') = Extra(Held)
  BY <1>4, <1>5, <1>7 DEF Extra
<1>9. ServiceInv'
  BY <1>1, <1>3, <1>4, <1>5, <1>7, <1>8 DEF ServiceInv, matched
<1>10. MatchInv'
  <2>1. Saved(Held)
    BY <1>2, <1>5 DEF Saved, Holds, Writes, TokenOps, OriginOps
  <2> QED
    BY <1>1, <1>2, <1>3, <1>4, <1>5, <2>1 DEF MatchInv, matched
<1> QED
  BY <1>6, <1>9, <1>10 DEF RunInv

\* The swap makes the prepared service the current one and owes the old one's
\* end.
LEMMA SwapsRun == ASSUME LockInv, RunInv, NEW a \in Admins, Swap(a) PROVE RunInv'
<1>1. ServiceInv /\ MatchInv /\ NoSetup /\ TypeOK
  BY DEF RunInv, LockInv
<1>2. admin[a].pc = "wlock" /\ admin[a].op \in TokenOps \cup {"putQWeather"} /\ changeMu = a
  BY <1>1 DEF Swap, LockInv, OpAt, Holds, Writes, NoSetup, TokenOps
<1>3. UNCHANGED <<disk, config, open, allowed, changeMu, request, limited, shutdown>>
  BY DEF Swap
<1>4. \A r \in Requests : request[r].pc = "idle"
  BY DEF Swap, WriterMayEnter, Readers
<1>5. /\ Moves(a) /\ admin'[a].pc = "retain" /\ admin'[a].op = admin[a].op
      /\ admin'[a].value = admin[a].value /\ admin'[a].old = current
  BY <1>1, SwapFacts
<1>6. Held = admin[a] /\ Held' = admin'[a]
  BY <1>2, <1>3, HeldIs
<1>7. NoSetup'
  BY <1>1, <1>2, <1>3, <1>5, StaysSetUp DEF NoSetup
<1>8. Saved(Held) /\ disk = Held.value
  BY <1>1, <1>2, <1>6 DEF Saved, Holds, Writes, TokenOps, OriginOps, MatchInv
<1>9. ~Building(Held') /\ ~Wrapping(Held')
  BY <1>5, <1>6 DEF Building, Wrapping
<1>10. CASE admin[a].op = "putQWeather"
  <2>1. current' = Held.prepared.service /\ handler' = Held.prepared
    BY <1>6, <1>10 DEF Swap
  <2>2. Building(Held) /\ Extra(Held) = {Held.prepared.service} /\ Replacing(Held') /\ Extra(Held') = {current}
    BY <1>2, <1>5, <1>6, <1>9, <1>10 DEF Building, Replacing, Extra
  <2>3. /\ Held.prepared.service \in Services /\ Held.prepared.service # current
        /\ config[Held.prepared.service] = Held.value.config /\ Held.prepared.tokens = Held.value.tokens
    BY <1>1, <2>2 DEF ServiceInv
  <2>4. ServiceInv'
    BY <1>1, <1>3, <1>4, <1>5, <1>6, <1>9, <2>1, <2>2, <2>3 DEF ServiceInv
  <2>5. current' # NoService
    BY <2>1, <2>3, RuntimeAssumption
  <2>6. MatchInv'
    BY <1>1, <1>2, <1>3, <1>5, <1>6, <1>8, <1>10, <2>1, <2>3, <2>5 DEF MatchInv, TokenOps
  <2> QED
    BY <1>7, <2>4, <2>6 DEF RunInv
<1>11. CASE admin[a].op \in TokenOps
  <2>1. current' = current /\ handler' = (IF current = NoService THEN handler ELSE Held.prepared)
    BY <1>6, <1>11 DEF Swap, TokenOps
  <2>2. Wrapping(Held) /\ Extra(Held) = {} /\ ~Replacing(Held') /\ Extra(Held') = {}
    BY <1>2, <1>5, <1>6, <1>9, <1>11 DEF Building, Wrapping, Replacing, Extra, TokenOps
  <2>3. Held.prepared.tokens = Held.value.tokens /\ (current # NoService => Held.prepared.service = current)
    BY <1>1, <2>2 DEF ServiceInv
  <2>4. ServiceInv'
    BY <1>1, <1>3, <1>4, <1>5, <1>6, <1>9, <2>1, <2>2, <2>3 DEF ServiceInv
  <2>5. MatchInv'
    BY <1>1, <1>2, <1>3, <1>5, <1>6, <1>8, <1>11, <2>1, <2>3 DEF MatchInv, TokenOps
  <2> QED
    BY <1>7, <2>4, <2>5 DEF RunInv
<1> QED
  BY <1>2, <1>10, <1>11

\* The limiters forget the devices that are gone.
LEMMA RetainsRun == ASSUME LockInv, RunInv, NEW a \in Admins, Retain(a) PROVE RunInv'
<1>1. ServiceInv /\ MatchInv /\ NoSetup /\ TypeOK
  BY DEF RunInv, LockInv
<1>2. admin[a].pc = "retain" /\ admin[a].op \in TokenOps \cup {"putQWeather"} /\ changeMu = a
  BY <1>1 DEF Retain, LockInv, OpAt, Holds, Writes, NoSetup, TokenOps
<1>3. UNCHANGED <<disk, current, handler, config, open, allowed, request, shutdown>>
      /\ limited' = limited \cap admin[a].value.tokens
  BY DEF Retain, Retained, runtime
<1>4. Held = admin[a]
  BY <1>2, HeldIs
<1>5. disk = Held.value /\ limited' \subseteq disk.tokens
  BY <1>1, <1>2, <1>3, <1>4 DEF Saved, Holds, Writes, TokenOps, OriginOps, MatchInv
<1>6. CASE admin[a].op = "putQWeather" /\ admin[a].old # NoService
  <2>1. Goto(a, "close") /\ changeMu' = changeMu
    BY <1>6 DEF Retain
  <2>2. /\ Moves(a) /\ admin'[a].pc = "close" /\ admin'[a].op = admin[a].op
        /\ admin'[a].value = admin[a].value /\ admin'[a].old = admin[a].old
    BY <1>1, <2>1, GotoMoves DEF PCs
  <2>3. Held' = admin'[a]
    BY <1>2, <2>1, HeldIs
  <2>4. /\ ~Building(Held') /\ ~Wrapping(Held') /\ ~Building(Held)
        /\ Replacing(Held) /\ Replacing(Held')
    BY <1>2, <1>4, <1>6, <2>2, <2>3 DEF Building, Wrapping, Replacing
  <2>5. Extra(Held') = Extra(Held)
    BY <1>4, <2>2, <2>3, <2>4 DEF Extra
  <2>6. ServiceInv'
    BY <1>1, <1>3, <1>4, <2>2, <2>3, <2>4, <2>5 DEF ServiceInv
  <2>7. MatchInv'
    BY <1>1, <1>2, <1>3, <1>4, <1>5, <1>6, <2>2, <2>3 DEF MatchInv
  <2>8. NoSetup'
    BY <1>1, <1>2, <1>3, <2>2, StaysSetUp DEF NoSetup
  <2> QED
    BY <2>6, <2>7, <2>8 DEF RunInv
<1>7. CASE ~(admin[a].op = "putQWeather" /\ admin[a].old # NoService)
  <2>1. Return(a)
    BY <1>1, <1>7 DEF Retain, NoSetup
  <2>2. Held' = Idle
    BY <1>2, <2>1, HeldReturns
  <2>3. ~Building(Held) /\ Extra(Held) \subseteq {NoService}
    BY <1>2, <1>4, <1>7 DEF Building, Replacing, Extra
  <2>4. ServiceInv'
    BY <1>1, <1>3, <2>2, <2>3, IdleNeutral DEF ServiceInv, Neutral, Quiet
  <2>5. MatchInv'
    BY <1>1, <1>2, <1>3, <1>4, <1>5, <2>2, IdleType, IdleNeutral DEF MatchInv, Neutral
  <2> QED
    BY <1>1, <1>3, <2>1, <2>4, <2>5, IdleSetUp DEF RunInv
<1> QED
  BY <1>6, <1>7

-----------------------------------------------------------------------------
(* Device requests and the shutdown.                                       *)

\* A device request enters, is served and leaves one service.
LEMMA RequestsRun ==
    ASSUME LockInv, RunInv, NEW r \in Requests, RequestStep(r)
    PROVE  RunInv'
<1> DEFINE R == [pc : {"idle", "auth", "served"}, device : Devices \cup {Nobody},
                 service : Services \cup {NoService}]
<1>1. /\ ServiceInv /\ MatchInv /\ NoSetup /\ TypeOK
      /\ request \in [Requests -> R] /\ NoRequest.pc = "idle"
  BY DEF RunInv, LockInv, TypeOK, NoRequest
<1>2. UNCHANGED <<disk, current, handler, config, open, allowed, changeMu, admin, shutdown>>
  BY DEF RequestStep, Enter, Serve, Leave, runtime
<1>3. Held' = Held /\ NoSetup'
  BY <1>1, <1>2 DEF Held, NoSetup
<1>4. \A q \in Requests : request'[q].pc # "idle" =>
         request'[q].service = current /\ current # NoService /\ request'[q].device \in handler.tokens
  <2>1. ASSUME NEW d \in Devices, Enter(r, d), NEW q \in Requests, request'[q].pc # "idle"
        PROVE  request'[q].service = current /\ current # NoService /\ request'[q].device \in handler.tokens
    <3>1. CASE q = r
      BY <1>1, <2>1, <3>1 DEF Enter, ServiceInv
    <3>2. CASE q # r
      BY <1>1, <2>1, <3>2 DEF Enter, ServiceInv
    <3> QED
      BY <3>1, <3>2
  <2>2. CASE Serve(r)
    BY <1>1, <2>2 DEF Serve, ServiceInv
  <2>3. CASE Leave(r)
    BY <1>1, <2>3 DEF Leave, ServiceInv
  <2> QED
    BY <2>1, <2>2, <2>3 DEF RequestStep
<1>5. ServiceInv'
  BY <1>1, <1>2, <1>3, <1>4 DEF ServiceInv, Building, Wrapping, Replacing, Extra
<1>6. limited' = limited \/ (request[r].pc = "auth" /\ limited' = limited \cup {request[r].device})
  BY DEF RequestStep, Enter, Serve, Leave
<1>7. limited' \subseteq limited \cup handler.tokens
  BY <1>1, <1>6 DEF ServiceInv
<1>8. MatchInv'
  BY <1>1, <1>2, <1>3, <1>7 DEF MatchInv, Saved, Holds
<1> QED
  BY <1>3, <1>5, <1>8 DEF RunInv

\* The shutdown withdraws the handler and then closes the current service.
LEMMA ShutdownRun == ASSUME LockInv, RunInv, Close \/ CloseCurrent PROVE RunInv'
<1>1. ServiceInv /\ MatchInv /\ NoSetup /\ TypeOK
  BY DEF RunInv, LockInv
<1>2. UNCHANGED <<disk, config, allowed, changeMu, admin, request, limited>>
  BY DEF Close, CloseCurrent, runtime
<1>3. Held' = Held /\ NoSetup'
  BY <1>1, <1>2 DEF Held, NoSetup
<1>4. CASE Close
  <2>1. UNCHANGED <<current, handler, open>> /\ shutdown = "no"
    BY <1>4 DEF Close, runtime
  <2>2. ServiceInv'
    BY <1>1, <1>2, <1>3, <2>1 DEF ServiceInv, Building, Wrapping, Replacing, Extra
  <2>3. MatchInv'
    BY <1>1, <1>2, <1>3, <2>1 DEF MatchInv, Saved, Holds
  <2> QED
    BY <1>3, <2>2, <2>3 DEF RunInv
<1>5. CASE CloseCurrent
  <2>1. /\ current' = NoService /\ open' = open \ {current} /\ shutdown' = "done"
        /\ \A r \in Requests : request[r].pc = "idle"
    BY <1>5 DEF CloseCurrent, WriterMayEnter, Readers
  <2>2. Extra(Held) = {} \/ \E s : Extra(Held) = {s} /\ (s = NoService \/ s # current)
    BY <1>1 DEF Extra, ServiceInv
  <2>3. open' = ({NoService} \cup Extra(Held)) \ {NoService}
    BY <1>1, <2>1, <2>2 DEF ServiceInv
  <2>4. Extra(Held') = Extra(Held)
    BY <1>3 DEF Extra, Building, Replacing
  <2>5. ServiceInv'
    BY <1>1, <1>2, <1>3, <2>1, <2>3, <2>4, RuntimeAssumption DEF ServiceInv, Building, Wrapping, Replacing
  <2>6. MatchInv'
    BY <1>1, <1>2, <1>3, <2>1 DEF MatchInv, Saved, Holds
  <2> QED
    BY <1>3, <2>5, <2>6 DEF RunInv
<1> QED
  BY <1>4, <1>5

-----------------------------------------------------------------------------

\* A configured process starts with one service, built from the disk.
LEMMA InitRun == ASSUME Init PROVE RunInv
<1>1. /\ disk \in State /\ current \in Services /\ handler = [service |-> current, tokens |-> disk.tokens]
      /\ config = [s \in Services |-> disk.config] /\ open = {current} /\ allowed = disk.origins
      /\ changeMu = Nobody /\ admin = [a \in Admins |-> Idle] /\ request = [r \in Requests |-> NoRequest]
      /\ limited = {} /\ shutdown = "no" /\ current # NoService
  BY RuntimeAssumption DEF Init
<1>2. Held = Idle
  BY <1>1 DEF Held
<1>3. \A r \in Requests : request[r].pc = "idle"
  BY <1>1 DEF NoRequest
<1>4. ServiceInv
  BY <1>1, <1>2, <1>3, IdleNeutral DEF ServiceInv, Neutral, Quiet
<1>5. MatchInv
  BY <1>1, <1>2, IdleType, IdleNeutral DEF MatchInv, Neutral
<1>6. NoSetup
  BY <1>1, IdleType DEF NoSetup
<1> QED
  BY <1>4, <1>5, <1>6 DEF RunInv

\* Every step keeps runtime and disk in the stage of the change under way.
LEMMA NextRun == LockInv /\ RunInv /\ [Next]_vars => RunInv'
<1> SUFFICES ASSUME LockInv, RunInv, [Next]_vars PROVE RunInv'
  OBVIOUS
<1>1. ASSUME NEW a \in Admins, AdminProgress(a) PROVE RunInv'
  <2>1. ~CommitInitial(a) /\ ~CommitInitialFails(a)
    BY DEF CommitInitial, CommitInitialFails, LockInv, OpAt, RunInv, NoSetup
  <2> QED
    BY <1>1, <2>1, ReturnsRun, TestsRun, PreparesRun, PrepareTokensRun, SaveRun, ClosesRun, OriginsRun,
       ActivatesRun, SwapsRun, RetainsRun DEF AdminProgress
<1>2. ASSUME NEW a \in Admins, AdminArrives(a) PROVE RunInv'
  <2>1. \A c \in Configs, d \in Devices, o \in Origins, w \in Passwords :
           [config |-> c, tokens |-> {d}, origins |-> {o}, password |-> w] \in State
    BY DEF State
  <2> QED
    BY <1>2, <2>1, ArrivesRun DEF AdminArrives
<1>3. CASE UNCHANGED vars
  <2>1. Held' = Held /\ UNCHANGED matched /\ NoSetup'
    BY <1>3 DEF Held, vars, matched, RunInv, NoSetup
  <2> QED
    BY <2>1, SameHeld DEF RunInv
<1> QED
  BY <1>1, <1>2, <1>3, LocksRun, RequestsRun, ShutdownRun DEF Next, Stopped

\* The invariant holds in every state of a configured process.
LEMMA RunInvariant == Spec => [](LockInv /\ Named /\ RunInv)
<1>1. Init => LockInv /\ Named /\ RunInv
  BY InitLock, InitRun
<1> QED
  BY <1>1, NextLock, NextRun, PTL DEF Spec

\* With no change under way nothing is owed and no second service is open.
LEMMA SettledIdle == ASSUME Settled PROVE Held = Idle /\ Held.pc = "idle" /\ ~Saved(Held) /\ Extra(Held) = {}
BY IdleType, IdleNeutral DEF Settled, Held, Neutral

\* A server that has a state always runs what the state says once no change
\* is under way, whatever saves, tests and activations failed or raced before.
THEOREM DiskIsRunning == Spec => []RuntimeMatchesDisk
<1>1. RunInv => RuntimeMatchesDisk
  <2> SUFFICES ASSUME RunInv, Settled PROVE
                 /\ current # NoService /\ config[current] = disk.config
                 /\ handler.tokens = disk.tokens /\ allowed = disk.origins
                 /\ limited \subseteq disk.tokens
    BY DEF RuntimeMatchesDisk
  <2>1. Held.pc = "idle" /\ shutdown # "done" /\ MatchInv
    BY SettledIdle DEF Settled, RunInv
  <2> QED
    BY <2>1 DEF MatchInv
<1> QED
  BY <1>1, RunInvariant, PTL

\* A device request is never served by a closed weather.Service or for a
\* revoked device, at any point of any replacement or shutdown.
THEOREM RequestsStayCurrent == Spec => []NoStaleRequest
<1>1. RunInv => NoStaleRequest
  BY DEF RunInv, ServiceInv, NoStaleRequest, Readers
<1> QED
  BY <1>1, RunInvariant, PTL

\* Every runtime that was built and not kept has been closed.
THEOREM RuntimesNeverLeak == Spec => []NoServiceLeak
<1>1. RunInv => NoServiceLeak
  BY SettledIdle DEF RunInv, ServiceInv, NoServiceLeak
<1> QED
  BY <1>1, RunInvariant, PTL
=============================================================================
