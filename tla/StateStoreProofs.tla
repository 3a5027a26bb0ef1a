-------------------------- MODULE StateStoreProofs --------------------------
(***************************************************************************)
(* Proofs about StateStore: state.json is replaced atomically, a confirmed *)
(* write is never lost, and processes do not overwrite each other as long  *)
(* as no server gives up its lock before its handlers have ended.          *)
(***************************************************************************)
EXTENDS StateStore, TLAPS

Writing == {"write", "sync", "rename", "syncdir"}

\* What holds of a process r while g numbers the visible state.json.
ProcOK(r, g) ==
    /\ r \in Proc
    /\ r.pc \notin Writing => r.job = "none"
    /\ r.pc = "loaded" => r.old.version = "v3"
    /\ r.pc \in Writing => r.new.version \in {"v3", "v4"}
    /\ r.pc = "rename" => r.synced
    /\ r.pc = "syncdir" /\ r.job # "backup" => r.new.gen <= g

\* The files: what is visible may survive, nothing is torn, and everything
\* that may survive of state.json is between the last acknowledged write and
\* the last one.
FilesOK ==
    /\ \A f \in Files : visible[f] \in survives[f]
    /\ \A f \in Files : \A x \in survives[f] : x.version # "torn"
    /\ \A x \in survives["state"] : acked <= x.gen /\ x.gen <= writes

\* Who runs without the lock is a server past its Shutdown.
Entitled(r, p, l, o) == r.pc # "off" => l = p \/ (o /\ Handling(r))

LockOK == \A p \in Procs : Entitled(proc[p], p, lock, outlived)

ProcsOK == \A p \in Procs : ProcOK(proc[p], visible["state"].gen)

StoreInv == TypeOK /\ FilesOK /\ LockOK /\ ProcsOK

\* A process that is off satisfies its part of the invariant.
LEMMA OffOK ==
    /\ Off \in Proc /\ Off.pc = "off" /\ \A g : ProcOK(Off, g)
    /\ \A p, l, o : Entitled(Off, p, l, o)
<1>1. Missing \in Contents
  BY StoreAssumption DEF StoreAssumption, Missing, Contents
<1>2. Off \in Proc /\ Off.pc = "off" /\ Off.job = "none"
  BY <1>1 DEF Off, Proc, PCs, Jobs
<1> QED BY <1>2 DEF ProcOK, Writing, Entitled

\* The initial states satisfy StoreInv.
THEOREM InitStoreInv == Init => StoreInv
<1> SUFFICES ASSUME Init PROVE StoreInv
  OBVIOUS
<1>1. Missing \in Contents /\ OldState \in Contents
  BY StoreAssumption DEF StoreAssumption, Missing, OldState, Contents
<1>2. PICK s \in {Missing, OldState} :
          visible = [f \in Files |-> IF f = "state" THEN s ELSE Missing]
  BY DEF Init
<1>3. survives = [f \in Files |-> {visible[f]}] /\ writes = 0 /\ acked = 0
      /\ warned = FALSE /\ outlived = FALSE
  BY DEF Init
<1>4. \A f \in Files : visible[f] \in {Missing, OldState}
  BY <1>2
<1>5. \A x \in {Missing, OldState} : x.version # "torn" /\ x.gen = 0
  BY DEF Missing, OldState
<1>6. FilesOK
  BY <1>3, <1>4, <1>5 DEF FilesOK, Files
<1>7. proc = [p \in Procs |-> Off] /\ lock = Nobody
  BY DEF Init
<1>8. LockOK /\ ProcsOK
  BY <1>7, OffOK DEF LockOK, ProcsOK
<1>9. TypeOK
  <2>1. visible \in [Files -> Contents]
    BY <1>1, <1>2
  <2>2. \A f \in Files : {visible[f]} \in SUBSET Contents
    BY <2>1
  <2>3. survives \in [Files -> SUBSET Contents]
    BY <1>3, <2>2
  <2>4. proc \in [Procs -> Proc] /\ lock \in Procs \cup {Nobody}
    BY <1>7, OffOK
  <2>5. writes \in 0..MaxWrites /\ acked \in 0..MaxWrites
    BY <1>3, StoreAssumption DEF StoreAssumption
  <2>6. warned \in BOOLEAN /\ outlived \in BOOLEAN
    BY <1>3
  <2> QED BY <2>1, <2>3, <2>4, <2>5, <2>6, Zenon DEF TypeOK
<1> QED BY <1>6, <1>8, <1>9 DEF StoreInv

\* A step of process p after which it is in state r, has the lock or may do
\* without it, and has taken it from nobody.
LEMMA OneProcSteps ==
    ASSUME StoreInv, NEW p \in Procs, NEW r,
           proc' = [proc EXCEPT ![p] = r],
           ProcOK(r, visible'["state"].gen), visible'["state"].gen \in Nat,
           visible["state"].gen <= visible'["state"].gen,
           Entitled(r, p, lock', outlived'),
           lock' \in Procs \cup {Nobody}, lock' = lock \/ lock \in {p, Nobody},
           outlived => outlived'
    PROVE  proc' \in [Procs -> Proc] /\ LockOK' /\ ProcsOK'
<1>1. proc'[p] = r /\ \A q \in Procs \ {p} : proc'[q] = proc[q]
  BY DEF StoreInv, TypeOK
<1>2. visible["state"].gen \in Nat /\ \A q \in Procs : proc[q] \in Proc
  BY StoreAssumption DEF StoreAssumption, StoreInv, TypeOK, Files, Contents
<1>3. ASSUME NEW q \in Procs \ {p} PROVE ProcOK(proc'[q], visible'["state"].gen)
  <2>1. proc'[q] = proc[q] /\ ProcOK(proc[q], visible["state"].gen)
    BY <1>1 DEF StoreInv, ProcsOK
  <2>2. proc[q].new.gen \in Nat
    BY <1>2, StoreAssumption DEF StoreAssumption, Proc, Contents
  <2> QED BY <1>2, <2>1, <2>2 DEF ProcOK
<1>4. ProcsOK'
  BY <1>1, <1>3 DEF ProcsOK
<1>5. ASSUME NEW q \in Procs \ {p} PROVE Entitled(proc'[q], q, lock', outlived')
  <2>1. proc'[q] = proc[q] /\ Entitled(proc[q], q, lock, outlived)
    BY <1>1 DEF StoreInv, LockOK
  <2>2. lock = q => lock' = q
    BY StoreAssumption DEF StoreAssumption
  <2> QED BY <2>1, <2>2 DEF Entitled
<1>6. LockOK'
  BY <1>1, <1>5 DEF LockOK
<1>7. proc' \in [Procs -> Proc]
  BY <1>4 DEF StoreInv, TypeOK, ProcsOK, ProcOK
<1> QED BY <1>4, <1>6, <1>7

\* Such a step when state.json stays what it is.
LEMMA QuietSteps ==
    ASSUME StoreInv, NEW p \in Procs, NEW r,
           proc' = [proc EXCEPT ![p] = r], UNCHANGED visible,
           ProcOK(r, visible["state"].gen), Entitled(r, p, lock', outlived'),
           lock' \in Procs \cup {Nobody}, lock' = lock \/ lock \in {p, Nobody},
           outlived => outlived'
    PROVE  proc' \in [Procs -> Proc] /\ LockOK' /\ ProcsOK'
<1> DEFINE g == visible["state"].gen
<1>1. g \in Nat
  BY StoreAssumption DEF StoreAssumption, StoreInv, TypeOK, Files, Contents
<1>2. g <= g
  BY <1>1
<1>3. visible'["state"].gen = g
  OBVIOUS
<1> QED BY <1>1, <1>2, <1>3, OneProcSteps

\* A step that changes no file.
LEMMA FilesUnchanged ==
    ASSUME StoreInv, UNCHANGED <<visible, survives, writes, acked>>,
           warned' \in BOOLEAN, outlived' \in BOOLEAN, lock' \in Procs \cup {Nobody},
           proc' \in [Procs -> Proc], LockOK', ProcsOK'
    PROVE  StoreInv'
<1>1. TypeOK'
  BY Zenon DEF StoreInv, TypeOK
<1>2. FilesOK'
  BY DEF StoreInv, FilesOK
<1> QED BY <1>1, <1>2 DEF StoreInv

\* A step that synchronises the directory; acked may grow up to the gen of the
\* visible state.json.
LEMMA DirectorySynced ==
    ASSUME StoreInv, UNCHANGED <<visible, writes, outlived>>,
           survives' = [f \in Files |-> {visible[f]}],
           acked' \in Nat, acked' <= visible["state"].gen, warned' \in BOOLEAN,
           lock' \in Procs \cup {Nobody}, proc' \in [Procs -> Proc], LockOK', ProcsOK'
    PROVE  StoreInv'
<1>1. /\ visible["state"] \in Contents /\ visible["state"].gen \in 0..MaxWrites
      /\ writes \in 0..MaxWrites /\ outlived \in BOOLEAN /\ visible \in [Files -> Contents]
  BY DEF StoreInv, TypeOK, Files, Contents
<1>2. visible["state"].gen <= writes /\ \A f \in Files : visible[f].version # "torn"
  BY DEF StoreInv, FilesOK, Files
<1>3. acked' \in 0..MaxWrites
  BY <1>1, StoreAssumption DEF StoreAssumption
<1>4. survives' \in [Files -> SUBSET Contents]
  BY <1>1
<1>5. TypeOK'
  BY <1>1, <1>3, <1>4, Zenon DEF TypeOK
<1>6. FilesOK'
  BY <1>2 DEF FilesOK, Files
<1> QED BY <1>5, <1>6 DEF StoreInv

\* A process that may run and keeps its role and its job may go on.
LEMMA StaysEntitled ==
    ASSUME NEW q, NEW r, NEW p, NEW l, NEW o, Entitled(q, p, l, o), q.pc # "off",
           Handling(q) => Handling(r)
    PROVE  Entitled(r, p, l, o)
BY DEF Entitled

\* A step that changes only the local state of a running process.
LEMMA LocalStepOK ==
    ASSUME StoreInv, NEW p \in Procs, NEW r,
           proc' = [proc EXCEPT ![p] = r], ProcOK(r, visible["state"].gen),
           proc[p].pc # "off", Handling(proc[p]) => Handling(r),
           UNCHANGED <<visible, survives, lock, writes, acked, outlived>>, warned' \in BOOLEAN
    PROVE  StoreInv'
<1>1. Entitled(r, p, lock', outlived') /\ lock' \in Procs \cup {Nobody} /\ outlived' \in BOOLEAN
  BY StaysEntitled DEF StoreInv, LockOK, TypeOK
<1>2. visible["state"].gen \in Nat
  BY StoreAssumption DEF StoreAssumption, StoreInv, TypeOK, Files, Contents
<1>3. proc' \in [Procs -> Proc] /\ LockOK' /\ ProcsOK'
  BY <1>1, <1>2, QuietSteps
<1> QED BY <1>1, <1>3, FilesUnchanged

\* The beginning of a replacement.
LEMMA BeginWriteOK ==
    ASSUME StoreInv, NEW p \in Procs, proc[p].pc # "off",
           NEW job \in Jobs, NEW contents \in Contents, NEW old \in Contents,
           contents.version \in {"v3", "v4"}, BeginWrite(p, job, contents, old),
           Handling(proc[p]) => job \in {"save", "initial"},
           UNCHANGED <<visible, survives, lock, writes, acked, warned, outlived>>
    PROVE  StoreInv'
<1> DEFINE q == proc[p]
           r == [q EXCEPT !.pc = "write", !.job = job, !.new = contents, !.old = old,
                          !.synced = FALSE]
<1>1. q \in Proc
  BY DEF StoreInv, TypeOK
<1>2. proc' = [proc EXCEPT ![p] = r] /\ warned' \in BOOLEAN
  BY DEF BeginWrite, StoreInv, TypeOK
<1> HIDE DEF q
<1>3. r \in Proc /\ r.pc = "write" /\ r.job = job /\ r.new = contents /\ r.role = q.role
  BY <1>1 DEF Proc, PCs
<1> HIDE DEF r
<1>4. ProcOK(r, visible["state"].gen)
  BY <1>3 DEF ProcOK, Writing
<1>5. Handling(q) => Handling(r)
  BY <1>3 DEF Handling, q
<1> QED BY <1>2, <1>4, <1>5, LocalStepOK DEF q

\* The process ends.
LEMMA ExitOK ==
    ASSUME StoreInv, NEW p \in Procs, Exit(p), UNCHANGED <<visible, outlived>>
    PROVE  /\ proc' \in [Procs -> Proc] /\ LockOK' /\ ProcsOK'
           /\ lock' \in Procs \cup {Nobody} /\ outlived' \in BOOLEAN
<1>1. /\ lock' = (IF lock = p THEN Nobody ELSE lock) /\ proc' = [proc EXCEPT ![p] = Off]
      /\ lock \in Procs \cup {Nobody} /\ outlived \in BOOLEAN
  BY DEF StoreInv, TypeOK, Exit
<1>2. visible["state"].gen \in Nat
  BY StoreAssumption DEF StoreAssumption, StoreInv, TypeOK, Files, Contents
<1>3. lock' \in Procs \cup {Nobody} /\ (lock' = lock \/ lock = p)
  BY <1>1
<1>4. proc' \in [Procs -> Proc] /\ LockOK' /\ ProcsOK'
  BY <1>1, <1>2, <1>3, OffOK, QuietSteps
<1> QED BY <1>1, <1>3, <1>4

\* A replacement of state.json returns to the process.
LEMMA ReturnOK ==
    ASSUME StoreInv, NEW p \in Procs, proc[p].pc # "off", NEW confirmed \in BOOLEAN,
           Return(p, confirmed), UNCHANGED <<visible, outlived>>
    PROVE  /\ proc' \in [Procs -> Proc] /\ LockOK' /\ ProcsOK'
           /\ lock' \in Procs \cup {Nobody} /\ outlived' \in BOOLEAN
<1>1. CASE proc[p].role = "server"
  <2> DEFINE q == proc[p]
             r == [q EXCEPT !.pc = "serving", !.job = "none", !.new = Missing,
                            !.old = Missing, !.confirmed = confirmed, !.wrote = TRUE]
  <2>1. /\ q \in Proc /\ Entitled(q, p, lock, outlived) /\ Missing \in Contents
        /\ lock \in Procs \cup {Nobody} /\ outlived \in BOOLEAN
        /\ visible["state"].gen \in Nat
    BY StoreAssumption
       DEF StoreAssumption, StoreInv, TypeOK, LockOK, Missing, Contents, Files
  <2>2. proc' = [proc EXCEPT ![p] = r] /\ UNCHANGED lock
    BY <1>1 DEF Return
  <2> HIDE DEF q
  <2>3. r \in Proc /\ r.pc = "serving" /\ r.job = "none" /\ r.role = q.role
    BY <2>1 DEF Proc, PCs, Jobs
  <2> HIDE DEF r
  <2>4. ProcOK(r, visible["state"].gen)
    BY <2>3 DEF ProcOK, Writing
  <2>5. Entitled(r, p, lock, outlived)
    BY <1>1, <2>1, <2>3 DEF Entitled, Handling, q
  <2>6. proc' \in [Procs -> Proc] /\ LockOK' /\ ProcsOK'
    BY <2>1, <2>2, <2>4, <2>5, QuietSteps
  <2> QED BY <2>1, <2>2, <2>6
<1>2. CASE proc[p].role # "server"
  BY <1>2, ExitOK DEF Return
<1> QED BY <1>1, <1>2

\* Starting and booting a process, and giving up the lock, preserve the
\* invariant.
LEMMA BootStepsOK ==
    ASSUME StoreInv, NEW p \in Procs,
           \/ \E role \in {"server", "tool"} : Open(p, role)
           \/ BootServes(p)
           \/ BootLoadsV3(p)
           \/ ReleaseLock(p)
    PROVE  StoreInv'
<1> DEFINE q == proc[p]
           s == visible["state"]
<1>0. /\ q \in Proc /\ s \in Contents /\ ProcOK(q, s.gen) /\ s.gen \in Nat
      /\ warned \in BOOLEAN /\ outlived \in BOOLEAN
  BY StoreAssumption DEF StoreAssumption, StoreInv, TypeOK, Files, ProcsOK, Contents
<1>1. ASSUME NEW role \in {"server", "tool"}, Open(p, role) PROVE StoreInv'
  <2> DEFINE r == [Off EXCEPT !.pc = role, !.role = role]
  <2>1. r \in Proc /\ r.pc = role /\ r.job = "none"
    BY OffOK DEF Off, Proc, PCs
  <2>2. proc' = [proc EXCEPT ![p] = r] /\ lock = Nobody /\ lock' = p
        /\ UNCHANGED <<visible, survives, writes, acked, warned, outlived>>
    BY <1>1 DEF Open
  <2> HIDE DEF r
  <2>3. ProcOK(r, s.gen) /\ Entitled(r, p, lock', outlived')
    BY <2>1, <2>2 DEF ProcOK, Writing, Entitled
  <2> HIDE DEF q
  <2>4. proc' \in [Procs -> Proc] /\ LockOK' /\ ProcsOK'
    BY <1>0, <2>2, <2>3, QuietSteps
  <2> QED BY <1>0, <2>2, <2>4, FilesUnchanged
<1>2. CASE BootServes(p)
  <2> DEFINE r == [q EXCEPT !.pc = "serving"]
  <2>1. proc' = [proc EXCEPT ![p] = r] /\ q.pc = "server"
        /\ UNCHANGED <<visible, survives, lock, writes, acked, warned, outlived>>
    BY <1>2 DEF BootServes
  <2> HIDE DEF q
  <2>2. r \in Proc /\ r.pc = "serving" /\ r.job = q.job /\ r.role = q.role
    BY <1>0 DEF Proc, PCs
  <2> HIDE DEF r
  <2>3. ProcOK(r, s.gen) /\ (Handling(q) => Handling(r))
    BY <1>0, <2>1, <2>2 DEF ProcOK, Writing, Handling
  <2> QED BY <1>0, <2>1, <2>3, LocalStepOK DEF q
<1>3. CASE BootLoadsV3(p)
  <2> DEFINE r == [q EXCEPT !.pc = "loaded", !.old = s]
  <2>1. proc' = [proc EXCEPT ![p] = r] /\ q.pc = "server" /\ s.version = "v3"
        /\ UNCHANGED <<visible, survives, lock, writes, acked, warned, outlived>>
    BY <1>3 DEF BootLoadsV3
  <2> HIDE DEF q, s
  <2>2. r \in Proc /\ r.pc = "loaded" /\ r.old = s /\ r.job = q.job /\ r.role = q.role
    BY <1>0 DEF Proc, PCs
  <2> HIDE DEF r
  <2>3. ProcOK(r, s.gen) /\ (Handling(q) => Handling(r))
    BY <1>0, <2>1, <2>2 DEF ProcOK, Writing, Handling
  <2> QED BY <1>0, <2>1, <2>3, LocalStepOK DEF q, s
<1>4. CASE ReleaseLock(p)
  <2>1. /\ lock = p /\ Handling(q) /\ lock' = Nobody /\ outlived' = TRUE
        /\ UNCHANGED <<visible, survives, proc, writes, acked, warned>>
    BY <1>4 DEF ReleaseLock
  <2>2. ASSUME NEW o \in Procs PROVE Entitled(proc[o], o, Nobody, TRUE)
    <3>1. CASE o = p
      BY <2>1, <3>1 DEF Entitled
    <3>2. CASE o # p
      BY <2>1, <3>2 DEF StoreInv, LockOK, Entitled
    <3> QED BY <3>1, <3>2
  <2>3. LockOK'
    BY <2>1, <2>2 DEF LockOK
  <2>4. ProcsOK' /\ proc' \in [Procs -> Proc]
    BY <2>1 DEF StoreInv, ProcsOK, TypeOK
  <2> QED BY <1>0, <2>1, <2>3, <2>4, FilesUnchanged
<1> QED BY <1>1, <1>2, <1>3, <1>4

\* The contents a v4 write produces.
LEMMA NewV4OK ==
    ASSUME NEW src \in {0, 1}
    PROVE  NewV4(src) \in Contents /\ NewV4(src).version = "v4"
BY StoreAssumption DEF StoreAssumption, NewV4, Contents

\* Reading a state to change it, refusing the change, and the operations that
\* begin a replacement preserve the invariant.
LEMMA OperationsOK ==
    ASSUME StoreInv, NEW p \in Procs,
           \/ CommitMigration(p) \/ Load(p) \/ Refuse(p) \/ Save(p)
           \/ CommitInitial(p) \/ RestoreV3Backup(p)
    PROVE  StoreInv'
<1> DEFINE q == proc[p]
           s == visible["state"]
           b == visible["backup"]
<1>0. /\ q \in Proc /\ s \in Contents /\ b \in Contents /\ Missing \in Contents
      /\ ProcOK(q, s.gen) /\ warned \in BOOLEAN
  BY StoreAssumption
     DEF StoreAssumption, StoreInv, TypeOK, Files, ProcsOK, Missing, Contents
<1>1. CASE CommitMigration(p)
  <2>1. q.pc = "loaded" /\ BeginWrite(p, "backup", q.old, q.old)
        /\ UNCHANGED <<visible, survives, lock, writes, acked, warned, outlived>>
    BY <1>1 DEF CommitMigration
  <2>2. q.old \in Contents /\ q.old.version = "v3" /\ ~Handling(q)
    BY <1>0, <2>1 DEF ProcOK, Proc, Handling, Writing
  <2>3. "backup" \in Jobs
    BY DEF Jobs
  <2> QED BY <2>1, <2>2, <2>3, BeginWriteOK
<1>2. CASE Load(p)
  <2> DEFINE r == [q EXCEPT !.pc = "editing", !.old = s]
  <2>1. proc' = [proc EXCEPT ![p] = r] /\ q.pc \in {"serving", "tool"}
        /\ UNCHANGED <<visible, survives, lock, writes, acked, warned, outlived>>
    BY <1>2 DEF Load
  <2> HIDE DEF q, s
  <2>2. r \in Proc /\ r.pc = "editing" /\ r.job = q.job /\ r.role = q.role
    BY <1>0 DEF Proc, PCs
  <2> HIDE DEF r
  <2>3. ProcOK(r, s.gen) /\ (Handling(q) => Handling(r))
    BY <1>0, <2>1, <2>2 DEF ProcOK, Writing, Handling
  <2> QED BY <1>0, <2>1, <2>3, LocalStepOK DEF q, s
<1>3. CASE Refuse(p)
  <2> DEFINE r == [q EXCEPT !.pc = "serving", !.old = Missing]
  <2>1. proc' = [proc EXCEPT ![p] = r] /\ q.pc = "editing"
        /\ UNCHANGED <<visible, survives, lock, writes, acked, warned, outlived>>
    BY <1>3 DEF Refuse
  <2> HIDE DEF q
  <2>2. r \in Proc /\ r.pc = "serving" /\ r.job = q.job /\ r.role = q.role
    BY <1>0 DEF Proc, PCs
  <2> HIDE DEF r
  <2>3. ProcOK(r, s.gen) /\ (Handling(q) => Handling(r))
    BY <1>0, <2>1, <2>2 DEF ProcOK, Writing, Handling
  <2> QED BY <1>0, <2>1, <2>3, LocalStepOK DEF q
<1>4. CASE Save(p)
  <2>1. q.pc = "editing" /\ BeginWrite(p, "save", NewV4(q.old.source), q.old)
        /\ UNCHANGED <<visible, survives, lock, writes, acked, warned, outlived>>
    BY <1>4 DEF Save
  <2>2. q.old \in Contents /\ q.old.source \in {0, 1} /\ "save" \in Jobs
    BY <1>0 DEF Proc, Contents, Jobs
  <2> QED BY <2>1, <2>2, NewV4OK, BeginWriteOK
<1>5. CASE CommitInitial(p)
  <2>1. q.pc = "serving" /\ BeginWrite(p, "initial", NewV4(0), s)
        /\ UNCHANGED <<visible, survives, lock, writes, acked, warned, outlived>>
    BY <1>5 DEF CommitInitial
  <2>2. 0 \in {0, 1} /\ "initial" \in Jobs
    BY DEF Jobs
  <2> QED BY <1>0, <2>1, <2>2, NewV4OK, BeginWriteOK
<1>6. CASE RestoreV3Backup(p)
  <2>1. q.pc = "tool" /\ BeginWrite(p, "restore", b, s) /\ b.version = "v3"
        /\ UNCHANGED <<visible, survives, lock, writes, acked, warned, outlived>>
    BY <1>6 DEF RestoreV3Backup
  <2>2. "restore" \in Jobs /\ ~Handling(q)
    BY <1>0, <2>1 DEF Jobs, ProcOK, Writing, Handling
  <2> QED BY <1>0, <2>1, <2>2, BeginWriteOK
<1> QED BY <1>1, <1>2, <1>3, <1>4, <1>5, <1>6

\* The steps of atomicWriteContents before the rename, and every end of a
\* process, preserve the invariant.
LEMMA WriteStepsOK ==
    ASSUME StoreInv, NEW p \in Procs,
           \/ Stop(p) \/ WriteTemporary(p) \/ SyncFile(p) \/ WriteFails(p)
           \/ SyncBackupFails(p) \/ SyncStateFails(p)
    PROVE  StoreInv'
<1> DEFINE q == proc[p]
           s == visible["state"]
<1>0. q \in Proc /\ ProcOK(q, s.gen) /\ warned \in BOOLEAN /\ Missing \in Contents
  BY StoreAssumption
     DEF StoreAssumption, StoreInv, TypeOK, Files, ProcsOK, Missing, Contents
<1>1. CASE Stop(p)
  BY <1>0, <1>1, ExitOK, FilesUnchanged DEF Stop
<1>2. CASE WriteTemporary(p)
  <2> DEFINE r == [q EXCEPT !.pc = "sync"]
  <2>1. proc' = [proc EXCEPT ![p] = r] /\ q.pc = "write"
        /\ UNCHANGED <<visible, survives, lock, writes, acked, warned, outlived>>
    BY <1>2 DEF WriteTemporary
  <2> HIDE DEF q
  <2>2. r \in Proc /\ r.pc = "sync" /\ r.job = q.job /\ r.new = q.new /\ r.role = q.role
    BY <1>0 DEF Proc, PCs
  <2> HIDE DEF r
  <2>3. ProcOK(r, s.gen) /\ (Handling(q) => Handling(r))
    BY <1>0, <2>1, <2>2 DEF ProcOK, Writing, Handling
  <2> QED BY <1>0, <2>1, <2>3, LocalStepOK DEF q
<1>3. CASE SyncFile(p)
  <2> DEFINE r == [q EXCEPT !.pc = "rename", !.synced = TRUE]
  <2>1. proc' = [proc EXCEPT ![p] = r] /\ q.pc = "sync"
        /\ UNCHANGED <<visible, survives, lock, writes, acked, warned, outlived>>
    BY <1>3 DEF SyncFile
  <2> HIDE DEF q
  <2>2. r \in Proc /\ r.pc = "rename" /\ r.job = q.job /\ r.new = q.new /\ r.role = q.role
        /\ r.synced = TRUE
    BY <1>0 DEF Proc, PCs
  <2> HIDE DEF r
  <2>3. ProcOK(r, s.gen) /\ (Handling(q) => Handling(r))
    BY <1>0, <2>1, <2>2 DEF ProcOK, Writing, Handling
  <2> QED BY <1>0, <2>1, <2>3, LocalStepOK DEF q
<1>4. CASE WriteFails(p)
  <2>1. q.pc # "off" /\ UNCHANGED <<visible, survives, writes, acked, warned, outlived>>
    BY <1>4 DEF WriteFails
  <2>2. CASE q.job \in {"save", "initial"} /\ q.role = "server"
    <3> DEFINE r == [q EXCEPT !.pc = "serving", !.job = "none", !.new = Missing, !.old = Missing]
    <3>1. proc' = [proc EXCEPT ![p] = r] /\ UNCHANGED lock
      BY <1>4, <2>2 DEF WriteFails
    <3>0. q.role = "server"
      BY <2>2
    <3> HIDE DEF q
    <3>2. r \in Proc /\ r.pc = "serving" /\ r.job = "none" /\ r.role = q.role
      BY <1>0 DEF Proc, PCs, Jobs
    <3> HIDE DEF r
    <3>3. ProcOK(r, s.gen) /\ Handling(r)
      BY <3>2, <3>0 DEF ProcOK, Writing, Handling
    <3> QED BY <1>0, <2>1, <3>1, <3>3, LocalStepOK DEF q
  <2>3. CASE ~(q.job \in {"save", "initial"} /\ q.role = "server")
    <3>1. Exit(p)
      BY <1>4, <2>3 DEF WriteFails
    <3> QED BY <1>0, <2>1, <3>1, ExitOK, FilesUnchanged
  <2> QED BY <2>2, <2>3
<1>5. CASE SyncBackupFails(p)
  BY <1>0, <1>5, ExitOK, FilesUnchanged DEF SyncBackupFails
<1>6. CASE SyncStateFails(p)
  <2>1. /\ q.pc # "off" /\ Return(p, FALSE) /\ warned' = TRUE
        /\ UNCHANGED <<visible, survives, writes, acked, outlived>>
    BY <1>6 DEF SyncStateFails
  <2>2. /\ proc' \in [Procs -> Proc] /\ LockOK' /\ ProcsOK'
        /\ lock' \in Procs \cup {Nobody} /\ outlived' \in BOOLEAN
    BY <2>1, ReturnOK
  <2> QED BY <2>1, <2>2, FilesUnchanged
<1> QED BY <1>1, <1>2, <1>3, <1>4, <1>5, <1>6

\* What a rename does: the file was synchronised, so that it replaces its target
\* by n alone.
LEMMA RenameStep ==
    ASSUME StoreInv, NEW p \in Procs, Rename(p)
    PROVE  \E n, r :
               /\ n \in Contents /\ n.version = proc[p].new.version
               /\ n.version \in {"v3", "v4"} /\ n.source = proc[p].new.source
               /\ proc' = [proc EXCEPT ![p] = r] /\ r \in Proc /\ r.pc = "syncdir"
               /\ r.new = n /\ r.job = proc[p].job /\ r.role = proc[p].role
               /\ r.old = proc[p].old
               /\ visible' = [visible EXCEPT ![Target(p)] = n]
               /\ survives' = [survives EXCEPT ![Target(p)] = @ \cup {n}]
               /\ proc[p].job = "backup" => n = proc[p].new /\ writes' = writes
               /\ proc[p].job # "backup" =>
                      n.gen = writes + 1 /\ writes' = writes + 1 /\ writes < MaxWrites
<1> DEFINE q == proc[p]
           f == Target(p)
           g == IF f = "state" THEN writes + 1 ELSE q.new.gen
           n == [q.new EXCEPT !.gen = g]
           r == [q EXCEPT !.pc = "syncdir", !.new = n]
<1>0. /\ q \in Proc /\ ProcOK(q, visible["state"].gen) /\ writes \in 0..MaxWrites
      /\ MaxWrites \in Nat
  BY StoreAssumption DEF StoreAssumption, StoreInv, TypeOK, ProcsOK
<1>1. /\ q.pc = "rename" /\ (f = "state" => writes < MaxWrites)
      /\ visible' = [visible EXCEPT ![f] = n] /\ proc' = [proc EXCEPT ![p] = r]
      /\ writes' = (IF f = "state" THEN writes + 1 ELSE writes)
  BY DEF Rename
<1>2. q.synced /\ q.new \in Contents /\ q.new.version \in {"v3", "v4"}
  BY <1>0, <1>1 DEF ProcOK, Proc, Writing
<1>3. survives' = [survives EXCEPT ![f] = @ \cup {n}]
  BY <1>2 DEF Rename
<1>4. f = IF q.job = "backup" THEN "backup" ELSE "state"
  BY DEF Target
<1>5. g \in 0..MaxWrites
  <2>1. q.new.gen \in 0..MaxWrites
    BY <1>2 DEF Contents
  <2> QED BY <1>0, <1>1, <2>1
<1>6. n \in Contents /\ n.version = q.new.version /\ n.source = q.new.source /\ n.gen = g
  <2> HIDE DEF g, q
  <2> QED BY <1>2, <1>5 DEF Contents
<1>7. q.job = "backup" => n = q.new
  <2>1. q.job = "backup" => g = q.new.gen
    BY <1>4
  <2> HIDE DEF g, q
  <2> QED BY <1>2, <2>1 DEF Contents
<1>8. q.job = "backup" => writes' = writes
  BY <1>1, <1>4
<1>9. q.job # "backup" => n.gen = writes + 1 /\ writes' = writes + 1 /\ writes < MaxWrites
  BY <1>1, <1>4, <1>6
<1>10. r \in Proc /\ r.pc = "syncdir" /\ r.new = n /\ r.job = q.job /\ r.role = q.role
       /\ r.old = q.old
  <2> HIDE DEF n, q
  <2> QED BY <1>0, <1>6 DEF Proc, PCs
<1> HIDE DEF n, r, g
<1> QED BY <1>1, <1>2, <1>3, <1>6, <1>7, <1>8, <1>9, <1>10

\* The rename preserves the invariant: nothing torn can come back, and a
\* replacement of state.json has a number of its own.
LEMMA RenameOK == ASSUME StoreInv, NEW p \in Procs, Rename(p) PROVE StoreInv'
<1> DEFINE q == proc[p]
           f == Target(p)
<1>0. /\ q \in Proc /\ ProcOK(q, visible["state"].gen) /\ Entitled(q, p, lock, outlived)
      /\ writes \in 0..MaxWrites /\ acked \in 0..MaxWrites /\ MaxWrites \in Nat
      /\ visible \in [Files -> Contents] /\ survives \in [Files -> SUBSET Contents]
      /\ lock \in Procs \cup {Nobody} /\ warned \in BOOLEAN /\ outlived \in BOOLEAN
      /\ acked <= visible["state"].gen /\ visible["state"].gen <= writes
      /\ visible["state"].gen \in Nat
  BY StoreAssumption
     DEF StoreAssumption, StoreInv, TypeOK, ProcsOK, LockOK, FilesOK, Files, Contents
<1>1. PICK n, r :
          /\ n \in Contents /\ n.version \in {"v3", "v4"}
          /\ proc' = [proc EXCEPT ![p] = r] /\ r \in Proc /\ r.pc = "syncdir"
          /\ r.new = n /\ r.job = proc[p].job /\ r.role = proc[p].role
          /\ visible' = [visible EXCEPT ![f] = n]
          /\ survives' = [survives EXCEPT ![f] = @ \cup {n}]
          /\ proc[p].job = "backup" => writes' = writes
          /\ proc[p].job # "backup" =>
                 n.gen = writes + 1 /\ writes' = writes + 1 /\ writes < MaxWrites
  BY RenameStep
<1>2. q.pc = "rename" /\ UNCHANGED <<lock, acked, warned, outlived>>
  BY DEF Rename
<1>3. f \in Files /\ f = (IF q.job = "backup" THEN "backup" ELSE "state")
  BY DEF Target, Files
<1> HIDE DEF q, f
<1>4. writes' \in 0..MaxWrites /\ writes <= writes'
  BY <1>0, <1>1 DEF q
<1>5. visible' \in [Files -> Contents] /\ survives' \in [Files -> SUBSET Contents]
  BY <1>0, <1>1, <1>3
<1>6. visible'["state"] = IF q.job = "backup" THEN visible["state"] ELSE n
  BY <1>0, <1>1, <1>3 DEF Files
<1>7. visible'["state"].gen \in Nat /\ visible["state"].gen <= visible'["state"].gen
      /\ (q.job # "backup" => visible'["state"] = n)
  BY <1>0, <1>1, <1>6 DEF q
<1>8. ProcOK(r, visible'["state"].gen)
  BY <1>1, <1>7 DEF ProcOK, Writing, q
<1>9. Entitled(r, p, lock', outlived')
  BY <1>0, <1>1, <1>2 DEF Entitled, Handling, q
<1>10. proc' \in [Procs -> Proc] /\ LockOK' /\ ProcsOK'
  BY <1>0, <1>1, <1>2, <1>7, <1>8, <1>9, OneProcSteps
<1>11. FilesOK'
  <2>1. \A g \in Files : visible'[g] \in survives'[g]
    BY <1>0, <1>1, <1>3 DEF StoreInv, FilesOK
  <2>2. \A g \in Files : \A x \in survives'[g] : x \in survives[g] \/ (g = f /\ x = n)
    BY <1>0, <1>1, <1>3
  <2>3. \A g \in Files : \A x \in survives'[g] : x.version # "torn"
    BY <1>1, <2>2 DEF StoreInv, FilesOK
  <2>4. ASSUME NEW x \in survives'["state"] PROVE acked <= x.gen /\ x.gen <= writes'
    <3>1. CASE x \in survives["state"]
      <4>1. x.gen \in Nat
        BY <1>0, <3>1 DEF Files, Contents
      <4> QED BY <1>0, <1>4, <3>1, <4>1 DEF StoreInv, FilesOK
    <3>2. CASE f = "state" /\ x = n
      <4>1. x.gen = writes + 1 /\ writes' = writes + 1
        BY <1>1, <1>3, <3>2 DEF q
      <4> QED BY <1>0, <4>1
    <3> QED BY <2>2, <3>1, <3>2 DEF Files
  <2> QED BY <1>2, <2>1, <2>3, <2>4 DEF FilesOK
<1>12. TypeOK'
  BY <1>0, <1>2, <1>4, <1>5, <1>10, Zenon DEF TypeOK
<1> QED BY <1>10, <1>11, <1>12 DEF StoreInv

\* A successful synchronisation of the directory preserves the invariant.
LEMMA SyncStepsOK ==
    ASSUME StoreInv, NEW p \in Procs, SyncBackup(p) \/ SyncState(p)
    PROVE  StoreInv'
<1> DEFINE q == proc[p]
           s == visible["state"]
<1>0. /\ q \in Proc /\ s \in Contents /\ ProcOK(q, s.gen) /\ Entitled(q, p, lock, outlived)
      /\ s.gen \in Nat /\ acked \in Nat /\ lock \in Procs \cup {Nobody}
      /\ q.new.gen \in Nat /\ acked <= s.gen
  BY StoreAssumption
     DEF StoreAssumption, StoreInv, TypeOK, FilesOK, Files, ProcsOK, LockOK, Contents, Proc
<1>1. CASE SyncState(p)
  <2>1. /\ q.pc = "syncdir" /\ q.job # "backup" /\ survives' = [f \in Files |-> {visible[f]}]
        /\ acked' = Acked(p) /\ Return(p, TRUE) /\ UNCHANGED <<visible, writes, outlived>>
        /\ warned' = FALSE
    BY <1>1 DEF SyncState
  <2>2. q.new.gen <= s.gen
    BY <1>0, <2>1 DEF ProcOK
  <2>3. acked' \in Nat /\ acked' <= s.gen
    BY <1>0, <2>1, <2>2 DEF Acked
  <2>4. /\ proc' \in [Procs -> Proc] /\ LockOK' /\ ProcsOK' /\ lock' \in Procs \cup {Nobody}
    BY <2>1, ReturnOK
  <2> QED BY <2>1, <2>3, <2>4, DirectorySynced
<1>2. CASE SyncBackup(p)
  <2> DEFINE n == NewV4(q.old.source)
             r == [q EXCEPT !.pc = "write", !.job = "migrate", !.synced = FALSE,
                            !.new = n, !.confirmed = TRUE]
  <2>1. /\ q.pc = "syncdir" /\ q.job = "backup" /\ survives' = [f \in Files |-> {visible[f]}]
        /\ proc' = [proc EXCEPT ![p] = r] /\ warned' = FALSE
        /\ UNCHANGED <<visible, lock, writes, acked, outlived>>
    BY <1>2 DEF SyncBackup
  <2>2. n \in Contents /\ n.version = "v4"
    BY <1>0, NewV4OK DEF Proc, Contents
  <2>3. ~Handling(q)
    BY <2>1 DEF Handling
  <2> HIDE DEF q, n
  <2>4. r \in Proc /\ r.pc = "write" /\ r.job = "migrate" /\ r.new = n
    BY <1>0, <2>2 DEF Proc, PCs, Jobs
  <2> HIDE DEF r
  <2>5. ProcOK(r, s.gen) /\ Entitled(r, p, lock, outlived)
    BY <1>0, <2>1, <2>2, <2>3, <2>4 DEF ProcOK, Writing, Entitled
  <2>6. proc' \in [Procs -> Proc] /\ LockOK' /\ ProcsOK'
    BY <1>0, <2>1, <2>5, QuietSteps
  <2> QED BY <1>0, <2>1, <2>6, DirectorySynced
<1> QED BY <1>1, <1>2

\* After a power loss every process is off and every file holds contents that
\* could survive.
LEMMA PowerLossOK == StoreInv /\ PowerLoss => StoreInv'
<1> SUFFICES ASSUME StoreInv, PowerLoss PROVE StoreInv'
  OBVIOUS
<1>1. /\ visible' \in [Files -> UNION {survives[f] : f \in Files}]
      /\ \A f \in Files : visible'[f] \in survives[f]
      /\ survives' = [f \in Files |-> {visible'[f]}]
  BY DEF PowerLoss
<1>2. /\ proc' = [p \in Procs |-> Off] /\ lock' = Nobody
      /\ UNCHANGED <<writes, acked>> /\ warned' = FALSE /\ outlived' = FALSE
  BY DEF PowerLoss
<1>3. \A f \in Files : visible'[f] \in Contents
  BY <1>1 DEF StoreInv, TypeOK
<1>4. visible' \in [Files -> Contents]
  BY <1>1, <1>3
<1>5. survives' \in [Files -> SUBSET Contents]
  BY <1>1, <1>3
<1>6. FilesOK'
  BY <1>1, <1>2 DEF StoreInv, FilesOK, Files
<1>7. LockOK' /\ ProcsOK' /\ proc' \in [Procs -> Proc]
  BY <1>2, OffOK DEF LockOK, ProcsOK
<1>8. writes' \in 0..MaxWrites /\ acked' \in 0..MaxWrites
  BY <1>2 DEF StoreInv, TypeOK
<1>9. TypeOK'
  BY <1>2, <1>4, <1>5, <1>7, <1>8, Zenon DEF TypeOK
<1> QED BY <1>6, <1>7, <1>9 DEF StoreInv

-----------------------------------------------------------------------------
\* Every step of every process, and a power loss, preserve StoreInv.
THEOREM NextStoreInv == StoreInv /\ [Next]_vars => StoreInv'
<1> SUFFICES ASSUME StoreInv, [Next]_vars PROVE StoreInv'
  OBVIOUS
<1>1. ASSUME NEW p \in Procs, ProcStep(p) PROVE StoreInv'
  BY <1>1, BootStepsOK, OperationsOK, WriteStepsOK, RenameOK, SyncStepsOK DEF ProcStep
<1>2. CASE PowerLoss
  BY <1>2, PowerLossOK
<1>3. CASE UNCHANGED vars
  BY <1>3 DEF vars, StoreInv, TypeOK, FilesOK, LockOK, ProcsOK
<1> QED BY <1>1, <1>2, <1>3 DEF Next

\* The invariant of the state directory holds in every reachable state, for
\* any number of processes and writes.
THEOREM StoreInvariant == Spec => []StoreInv
<1> QED BY InitStoreInv, NextStoreInv, PTL DEF Spec

\* Every variable keeps its type.
THEOREM StoreTypeCorrect == Spec => []TypeOK
<1>1. StoreInv => TypeOK
  BY DEF StoreInv
<1> QED BY <1>1, StoreInvariant, PTL

\* A write reported as durable is never lost, whatever crashes or loses power
\* afterwards.
THEOREM ConfirmedWritesSurvive == Spec => []ConfirmedWriteSurvives
<1>1. StoreInv => ConfirmedWriteSurvives
  BY DEF StoreInv, TypeOK, FilesOK, ConfirmedWriteSurvives, Files, Contents
<1> QED BY <1>1, StoreInvariant, PTL

\* Every step of the state directory is a step of AtomicFile or leaves
\* state.json alone.
LEMMA StepRefines == StoreInv /\ [Next]_vars => [File!Next]_<<visible["state"], survives["state"]>>
<1> SUFFICES ASSUME StoreInv, [Next]_vars
             PROVE  \/ File!Next
                    \/ UNCHANGED <<visible["state"], survives["state"]>>
  OBVIOUS
<1>1. ASSUME UNCHANGED <<visible, survives>>
      PROVE  UNCHANGED <<visible["state"], survives["state"]>>
  BY <1>1
<1>2. ASSUME NEW p \in Procs, Rename(p)
      PROVE  File!Next \/ UNCHANGED <<visible["state"], survives["state"]>>
  <2>1. PICK n : /\ n \in Contents /\ n.version \in {"v3", "v4"}
                 /\ visible' = [visible EXCEPT ![Target(p)] = n]
                 /\ survives' = [survives EXCEPT ![Target(p)] = @ \cup {n}]
    BY <1>2, RenameStep
  <2>2. visible \in [Files -> Contents] /\ survives \in [Files -> SUBSET Contents]
    BY DEF StoreInv, TypeOK
  <2>3. CASE proc[p].job = "backup"
    BY <2>1, <2>2, <2>3 DEF Target, Files
  <2>4. CASE proc[p].job # "backup"
    <3>1. visible'["state"] = n /\ survives'["state"] = survives["state"] \cup {n}
      BY <2>1, <2>2, <2>4 DEF Target, Files
    <3>2. n \in {c \in Contents : c.version \in {"v3", "v4"}}
      BY <2>1
    <3> QED BY <3>1, <3>2 DEF File!Next, File!Commit
  <2> QED BY <2>3, <2>4
<1>3. ASSUME UNCHANGED visible, survives' = [f \in Files |-> {visible[f]}]
      PROVE  File!Next
  BY <1>3 DEF File!Next, File!Confirm, Files
<1>4. CASE PowerLoss
  <2>1. visible'["state"] \in survives["state"] /\ survives'["state"] = {visible'["state"]}
    BY <1>4 DEF PowerLoss, Files
  <2> QED BY <2>1 DEF File!Next, File!PowerLoss
<1>5. ASSUME NEW p \in Procs, ProcStep(p)
      PROVE  \/ UNCHANGED <<visible, survives>> \/ Rename(p)
             \/ UNCHANGED visible /\ survives' = [f \in Files |-> {visible[f]}]
  BY <1>5 DEF ProcStep, Open, BootServes, BootLoadsV3, CommitMigration, Load, Refuse, Save,
              CommitInitial, RestoreV3Backup, ReleaseLock, Stop, WriteTemporary, SyncFile, WriteFails, SyncBackup,
              SyncBackupFails, SyncState, SyncStateFails
<1>6. CASE UNCHANGED vars
  BY <1>1, <1>6 DEF vars
<1> QED BY <1>1, <1>2, <1>3, <1>4, <1>5, <1>6 DEF Next

\* atomicWriteContents implements an atomically replaced file: at no moment,
\* and after no crash or power loss, is state.json anything but a value that
\* was committed as a whole.
THEOREM StateFileIsAtomic == Spec => FileSpec
<1>1. Init => File!Init
  <2> SUFFICES ASSUME Init PROVE File!Init
    OBVIOUS
  <2>1. visible["state"] \in {Missing, OldState} /\ survives["state"] = {visible["state"]}
    BY DEF Init, Files
  <2> QED BY <2>1 DEF File!Init
<1> QED BY <1>1, StoreInvariant, StepRefines, PTL DEF Spec, FileSpec, File!Spec

-----------------------------------------------------------------------------
(* The backup of a migration.                                              *)

\* The v3 file b is a backup of x.
BacksUp(b, x) == b.version = "v3" /\ b.source = x.source

\* x may replace state.json while the backups bs may survive.
Covered(x, bs) == x.version = "v4" /\ x.source # 0 => \A b \in bs : BacksUp(b, x)

\* Descended from the only v3 file there is, or not v3 at all.
Descends(x) == x.version = "v3" => x.source = 1

\* A process r, while bs are the backups that may survive and b is the visible one.
WriterCovered(r, b, bs) ==
    /\ r.pc = "editing" => r.old.version = "v4" /\ Covered(r.old, bs)
    /\ r.pc \in Writing =>
           /\ Descends(r.new)
           /\ r.job = "backup" => r.new.version = "v3" /\ r.old = r.new
           /\ r.job # "backup" => Covered(r.new, bs)
           /\ r.job = "backup" /\ r.pc = "syncdir" => b = r.new

BackupInv ==
    /\ \A f \in Files : \A x \in survives[f] : Descends(x)
    /\ \A b \in survives["backup"] : b.version \in {"missing", "v3"}
    /\ \A x \in survives["state"] : Covered(x, survives["backup"])
    /\ \A p \in Procs : WriterCovered(proc[p], visible["backup"], survives["backup"])

\* The initial states satisfy BackupInv.
LEMMA InitBackupInv == Init => BackupInv
<1> SUFFICES ASSUME Init PROVE BackupInv
  OBVIOUS
<1>1. PICK s \in {Missing, OldState} :
          visible = [f \in Files |-> IF f = "state" THEN s ELSE Missing]
  BY DEF Init
<1>2. survives = [f \in Files |-> {visible[f]}] /\ proc = [p \in Procs |-> Off]
  BY DEF Init
<1>3. survives["state"] = {s} /\ survives["backup"] = {Missing}
  BY <1>1, <1>2 DEF Files
<1>4. /\ Missing.version = "missing" /\ OldState.version = "v3" /\ OldState.source = 1
  BY DEF Missing, OldState
<1>5. Off.pc = "off"
  BY OffOK
<1>6. \A p \in Procs : WriterCovered(proc[p], visible["backup"], survives["backup"])
  BY <1>2, <1>5 DEF WriterCovered, Writing
<1> QED BY <1>3, <1>4, <1>6 DEF BackupInv, Descends, Covered, Files

\* A step of p that leaves the files alone preserves BackupInv when the new
\* state of p does.
LEMMA WriterSteps ==
    ASSUME StoreInv, BackupInv, NEW p \in Procs, NEW r,
           proc' = [proc EXCEPT ![p] = r], UNCHANGED <<visible, survives>>,
           WriterCovered(r, visible["backup"], survives["backup"])
    PROVE  BackupInv'
<1>1. proc'[p] = r /\ \A q \in Procs \ {p} : proc'[q] = proc[q]
  BY DEF StoreInv, TypeOK
<1>2. (\A q \in Procs : WriterCovered(proc[q], visible["backup"], survives["backup"]))'
  BY <1>1 DEF BackupInv
<1> QED BY <1>2 DEF BackupInv

\* The beginning of a replacement of state.json or of the backup.
LEMMA BeginWriteCovered ==
    ASSUME StoreInv, BackupInv, NEW p \in Procs, NEW job, NEW contents, NEW old,
           BeginWrite(p, job, contents, old), UNCHANGED <<visible, survives>>,
           Descends(contents),
           job = "backup" => contents.version = "v3" /\ old = contents,
           job # "backup" => Covered(contents, survives["backup"])
    PROVE  BackupInv'
<1> DEFINE q == proc[p]
           r == [q EXCEPT !.pc = "write", !.job = job, !.new = contents, !.old = old,
                          !.synced = FALSE]
<1>1. q \in Proc
  BY DEF StoreInv, TypeOK
<1>2. proc' = [proc EXCEPT ![p] = r]
  BY DEF BeginWrite
<1> HIDE DEF q
<1>3. r.pc = "write" /\ r.job = job /\ r.new = contents /\ r.old = old
  BY <1>1 DEF Proc
<1> HIDE DEF r
<1>4. WriterCovered(r, visible["backup"], survives["backup"])
  BY <1>3 DEF WriterCovered
<1> QED BY <1>2, <1>4, WriterSteps

\* A step after which p neither edits nor writes.
LEMMA NotWriting ==
    ASSUME StoreInv, BackupInv, NEW p \in Procs, NEW r,
           proc' = [proc EXCEPT ![p] = r], r.pc \notin Writing \cup {"editing"}, UNCHANGED <<visible, survives>>
    PROVE  BackupInv'
<1>1. WriterCovered(r, visible["backup"], survives["backup"])
  BY DEF WriterCovered
<1> QED BY <1>1, WriterSteps

\* The steps that change no file preserve BackupInv.
LEMMA StillSteps ==
    ASSUME StoreInv, BackupInv, NEW p \in Procs,
           \/ \E role \in {"server", "tool"} : Open(p, role)
           \/ BootServes(p) \/ BootLoadsV3(p) \/ Load(p) \/ Refuse(p) \/ ReleaseLock(p)
           \/ Stop(p) \/ WriteTemporary(p) \/ SyncFile(p) \/ WriteFails(p)
           \/ SyncBackupFails(p) \/ SyncStateFails(p)
    PROVE  BackupInv'
<1> DEFINE q == proc[p]
           s == visible["state"]
<1>0. q \in Proc /\ WriterCovered(q, visible["backup"], survives["backup"])
  BY DEF StoreInv, TypeOK, BackupInv
<1>1. Off.pc \notin Writing \cup {"editing"}
  BY OffOK DEF Writing
<1>2. ASSUME Exit(p), UNCHANGED <<visible, survives>> PROVE BackupInv'
  BY <1>1, <1>2, NotWriting DEF Exit
<1>3. ASSUME NEW c, Return(p, c), UNCHANGED <<visible, survives>> PROVE BackupInv'
  <2> DEFINE r == [q EXCEPT !.pc = "serving", !.job = "none", !.new = Missing, !.old = Missing,
                            !.confirmed = c, !.wrote = TRUE]
  <2>1. CASE proc[p].role = "server"
    <3>1. proc' = [proc EXCEPT ![p] = r]
      BY <1>3, <2>1 DEF Return
    <3> HIDE DEF q
    <3>2. r.pc \notin Writing \cup {"editing"}
      BY <1>0 DEF Proc, Writing
    <3> HIDE DEF r
    <3> QED BY <1>3, <3>1, <3>2, NotWriting
  <2>2. CASE proc[p].role # "server"
    BY <1>2, <1>3, <2>2 DEF Return
  <2> QED BY <2>1, <2>2
<1>4. ASSUME NEW role \in {"server", "tool"}, Open(p, role) PROVE BackupInv'
  <2> DEFINE r == [Off EXCEPT !.pc = role, !.role = role]
  <2>1. r.pc \notin Writing \cup {"editing"}
    BY DEF Off, Writing
  <2>2. proc' = [proc EXCEPT ![p] = r] /\ UNCHANGED <<visible, survives>>
    BY <1>4 DEF Open
  <2> HIDE DEF r
  <2> QED BY <2>1, <2>2, NotWriting
<1>5. CASE BootServes(p)
  <2> DEFINE r == [q EXCEPT !.pc = "serving"]
  <2>1. proc' = [proc EXCEPT ![p] = r] /\ UNCHANGED <<visible, survives>>
    BY <1>5 DEF BootServes
  <2> HIDE DEF q
  <2>2. r.pc \notin Writing \cup {"editing"}
    BY <1>0 DEF Proc, Writing
  <2> HIDE DEF r
  <2> QED BY <2>1, <2>2, NotWriting
<1>6. CASE BootLoadsV3(p)
  <2> DEFINE r == [q EXCEPT !.pc = "loaded", !.old = s]
  <2>1. proc' = [proc EXCEPT ![p] = r] /\ UNCHANGED <<visible, survives>>
    BY <1>6 DEF BootLoadsV3
  <2> HIDE DEF q, s
  <2>2. r.pc \notin Writing \cup {"editing"}
    BY <1>0 DEF Proc, Writing
  <2> HIDE DEF r
  <2> QED BY <2>1, <2>2, NotWriting
<1>7. CASE WriteTemporary(p)
  <2> DEFINE r == [q EXCEPT !.pc = "sync"]
  <2>1. proc' = [proc EXCEPT ![p] = r] /\ q.pc = "write" /\ UNCHANGED <<visible, survives>>
    BY <1>7 DEF WriteTemporary
  <2> HIDE DEF q
  <2>2. r.pc = "sync" /\ r.job = q.job /\ r.new = q.new /\ r.old = q.old
    BY <1>0 DEF Proc
  <2> HIDE DEF r
  <2>3. WriterCovered(r, visible["backup"], survives["backup"])
    BY <1>0, <2>1, <2>2 DEF WriterCovered, Writing
  <2> QED BY <2>1, <2>3, WriterSteps
<1>8. CASE SyncFile(p)
  <2> DEFINE r == [q EXCEPT !.pc = "rename", !.synced = TRUE]
  <2>1. proc' = [proc EXCEPT ![p] = r] /\ q.pc = "sync" /\ UNCHANGED <<visible, survives>>
    BY <1>8 DEF SyncFile
  <2> HIDE DEF q
  <2>2. r.pc = "rename" /\ r.job = q.job /\ r.new = q.new /\ r.old = q.old
    BY <1>0 DEF Proc
  <2> HIDE DEF r
  <2>3. WriterCovered(r, visible["backup"], survives["backup"])
    BY <1>0, <2>1, <2>2 DEF WriterCovered, Writing
  <2> QED BY <2>1, <2>3, WriterSteps
<1>9. CASE WriteFails(p)
  <2> DEFINE r == [q EXCEPT !.pc = "serving", !.job = "none", !.new = Missing, !.old = Missing]
  <2>1. UNCHANGED <<visible, survives>> /\ (proc' = [proc EXCEPT ![p] = r] \/ Exit(p))
    BY <1>9 DEF WriteFails
  <2> HIDE DEF q
  <2>2. r.pc \notin Writing \cup {"editing"}
    BY <1>0 DEF Proc, Writing
  <2> HIDE DEF r
  <2> QED BY <1>2, <2>1, <2>2, NotWriting
<1>10. CASE Stop(p)
  BY <1>2, <1>10 DEF Stop
<1>11. CASE SyncBackupFails(p)
  BY <1>2, <1>11 DEF SyncBackupFails
<1>12. CASE SyncStateFails(p)
  BY <1>3, <1>12 DEF SyncStateFails
<1>13. CASE Load(p)
  <2> DEFINE r == [q EXCEPT !.pc = "editing", !.old = s]
  <2>1. proc' = [proc EXCEPT ![p] = r] /\ s.version = "v4" /\ UNCHANGED <<visible, survives>>
    BY <1>13 DEF Load
  <2>2. Covered(s, survives["backup"])
    BY DEF StoreInv, FilesOK, BackupInv, Files
  <2> HIDE DEF q, s
  <2>3. r.pc = "editing" /\ r.old = s
    BY <1>0 DEF Proc
  <2> HIDE DEF r
  <2>4. WriterCovered(r, visible["backup"], survives["backup"])
    BY <2>1, <2>2, <2>3 DEF WriterCovered, Writing
  <2> QED BY <2>1, <2>4, WriterSteps
<1>14. CASE Refuse(p)
  <2> DEFINE r == [q EXCEPT !.pc = "serving", !.old = Missing]
  <2>1. proc' = [proc EXCEPT ![p] = r] /\ UNCHANGED <<visible, survives>>
    BY <1>14 DEF Refuse
  <2> HIDE DEF q
  <2>2. r.pc \notin Writing \cup {"editing"}
    BY <1>0 DEF Proc, Writing
  <2> HIDE DEF r
  <2> QED BY <2>1, <2>2, NotWriting
<1>15. CASE ReleaseLock(p)
  BY <1>15 DEF ReleaseLock, BackupInv
<1> QED BY <1>4, <1>5, <1>6, <1>7, <1>8, <1>9, <1>10, <1>11, <1>12, <1>13, <1>14, <1>15

\* The operations that begin a replacement preserve BackupInv.
LEMMA OperationsCovered ==
    ASSUME StoreInv, BackupInv, NEW p \in Procs,
           CommitMigration(p) \/ Save(p) \/ CommitInitial(p) \/ RestoreV3Backup(p)
    PROVE  BackupInv'
<1> DEFINE s == visible["state"]
           b == visible["backup"]
           q == proc[p]
<1>0. /\ s \in Contents /\ b \in Contents /\ s \in survives["state"] /\ b \in survives["backup"]
      /\ Descends(s) /\ Descends(b) /\ ProcOK(q, s.gen)
      /\ WriterCovered(q, b, survives["backup"])
  BY DEF StoreInv, TypeOK, FilesOK, ProcsOK, BackupInv, Files
<1>1. \A src : NewV4(src).version = "v4" /\ NewV4(src).source = src
  BY DEF NewV4
<1>2. CASE CommitMigration(p)
  <2>1. /\ q.pc = "loaded" /\ s = q.old /\ BeginWrite(p, "backup", q.old, q.old)
        /\ UNCHANGED <<visible, survives>>
    BY <1>2 DEF CommitMigration
  <2>2. q.old.version = "v3" /\ Descends(q.old)
    BY <1>0, <2>1 DEF ProcOK
  <2> QED BY <2>1, <2>2, BeginWriteCovered
<1>3. CASE Save(p)
  <2> DEFINE n == NewV4(q.old.source)
  <2>1. q.pc = "editing" /\ BeginWrite(p, "save", n, q.old) /\ UNCHANGED <<visible, survives>>
    BY <1>3 DEF Save
  <2>2. q.old.version = "v4" /\ Covered(q.old, survives["backup"])
    BY <1>0, <2>1 DEF WriterCovered
  <2>3. Descends(n) /\ Covered(n, survives["backup"])
    BY <1>1, <2>2 DEF Descends, Covered, BacksUp
  <2> QED BY <2>1, <2>3, BeginWriteCovered
<1>4. CASE CommitInitial(p)
  <2>1. BeginWrite(p, "initial", NewV4(0), s) /\ UNCHANGED <<visible, survives>>
    BY <1>4 DEF CommitInitial
  <2>2. Descends(NewV4(0)) /\ Covered(NewV4(0), survives["backup"])
    BY <1>1 DEF Descends, Covered
  <2> QED BY <2>1, <2>2, BeginWriteCovered
<1>5. CASE RestoreV3Backup(p)
  <2>1. b.version = "v3" /\ BeginWrite(p, "restore", b, s) /\ UNCHANGED <<visible, survives>>
    BY <1>5 DEF RestoreV3Backup
  <2>2. Covered(b, survives["backup"])
    BY <2>1 DEF Covered
  <2> QED BY <1>0, <2>1, <2>2, BeginWriteCovered
<1> QED BY <1>2, <1>3, <1>4, <1>5

\* What covers a process still covers it when fewer backups may survive.
LEMMA FewerCover ==
    ASSUME NEW r, NEW b, NEW bs, NEW cs, WriterCovered(r, b, bs), cs \subseteq bs
    PROVE  WriterCovered(r, b, cs)
BY DEF WriterCovered, Covered

\* A step of p that leaves the visible backup alone and adds none that may
\* survive does not concern the other processes.
LEMMA OthersCovered ==
    ASSUME StoreInv, BackupInv, NEW p \in Procs, NEW r, proc' = [proc EXCEPT ![p] = r],
           visible'["backup"] = visible["backup"],
           survives'["backup"] \subseteq survives["backup"],
           WriterCovered(r, visible["backup"], survives'["backup"])
    PROVE  \A q \in Procs : WriterCovered(proc'[q], visible'["backup"], survives'["backup"])
<1>1. proc'[p] = r /\ \A q \in Procs \ {p} : proc'[q] = proc[q]
  BY DEF StoreInv, TypeOK
<1>2. ASSUME NEW q \in Procs \ {p}
      PROVE  WriterCovered(proc[q], visible["backup"], survives'["backup"])
  BY FewerCover DEF BackupInv
<1> QED BY <1>1, <1>2

\* Another copy of the only v3 file there is covers what was covered.
LEMMA MoreCover ==
    ASSUME NEW x \in Contents, NEW bs, Covered(x, bs), NEW n, n.version = "v3", n.source = 1
    PROVE  Covered(x, bs \cup {n})
<1> SUFFICES ASSUME x.version = "v4", x.source # 0, NEW b \in bs \cup {n} PROVE BacksUp(b, x)
  BY DEF Covered
<1>1. x.source = 1
  BY DEF Contents
<1> QED BY <1>1 DEF Covered, BacksUp

\* The rename of state.json preserves BackupInv.
LEMMA RenameStateCovered ==
    ASSUME StoreInv, BackupInv, NEW p \in Procs, Rename(p), proc[p].job # "backup"
    PROVE  BackupInv'
<1>0. /\ WriterCovered(proc[p], visible["backup"], survives["backup"]) /\ proc[p].pc = "rename"
      /\ visible \in [Files -> Contents] /\ survives \in [Files -> SUBSET Contents]
  BY DEF StoreInv, TypeOK, BackupInv, Rename
<1>1. PICK n, r :
          /\ n.version = proc[p].new.version /\ n.source = proc[p].new.source
          /\ proc' = [proc EXCEPT ![p] = r] /\ r.pc = "syncdir"
          /\ r.new = n /\ r.job = proc[p].job
          /\ visible' = [visible EXCEPT ![Target(p)] = n]
          /\ survives' = [survives EXCEPT ![Target(p)] = @ \cup {n}]
  BY RenameStep
<1>2. /\ visible'["backup"] = visible["backup"] /\ survives'["backup"] = survives["backup"]
      /\ survives'["state"] = survives["state"] \cup {n}
  BY <1>0, <1>1 DEF Target, Files
<1>3. Descends(n) /\ Covered(n, survives["backup"])
  BY <1>0, <1>1 DEF WriterCovered, Writing, Descends, Covered, BacksUp
<1>4. WriterCovered(r, visible["backup"], survives'["backup"])
  BY <1>1, <1>2, <1>3 DEF WriterCovered
<1>5. \A q \in Procs : WriterCovered(proc'[q], visible'["backup"], survives'["backup"])
  BY <1>1, <1>2, <1>4, OthersCovered
<1>6. \A f \in Files : \A x \in survives'[f] : Descends(x)
  BY <1>2, <1>3 DEF BackupInv, Files
<1>7. \A x \in survives'["state"] : Covered(x, survives'["backup"])
  BY <1>2, <1>3 DEF BackupInv
<1>8. \A b \in survives'["backup"] : b.version \in {"missing", "v3"}
  BY <1>2 DEF BackupInv
<1> QED BY <1>5, <1>6, <1>7, <1>8 DEF BackupInv

\* The rename of the backup preserves BackupInv: whoever runs besides is a
\* handler of another server, and writes no backup.
LEMMA RenameBackupCovered ==
    ASSUME StoreInv, BackupInv, NEW p \in Procs, Rename(p), proc[p].job = "backup"
    PROVE  BackupInv'
<1>0. /\ WriterCovered(proc[p], visible["backup"], survives["backup"]) /\ proc[p].pc = "rename"
      /\ visible \in [Files -> Contents] /\ survives \in [Files -> SUBSET Contents]
      /\ proc \in [Procs -> Proc]
  BY DEF StoreInv, TypeOK, BackupInv, Rename
<1>1. PICK n, r :
          /\ n \in Contents /\ n = proc[p].new
          /\ proc' = [proc EXCEPT ![p] = r] /\ r.pc = "syncdir"
          /\ r.new = n /\ r.job = proc[p].job /\ r.old = proc[p].old
          /\ visible' = [visible EXCEPT ![Target(p)] = n]
          /\ survives' = [survives EXCEPT ![Target(p)] = @ \cup {n}]
  BY RenameStep
<1>2. /\ visible'["backup"] = n /\ survives'["state"] = survives["state"]
      /\ survives'["backup"] = survives["backup"] \cup {n}
  BY <1>0, <1>1 DEF Target, Files
<1>3. n.version = "v3" /\ n.source = 1 /\ Descends(n) /\ proc[p].old = n
  BY <1>0, <1>1 DEF WriterCovered, Writing, Descends
<1>4. \A x \in Contents : Covered(x, survives["backup"]) => Covered(x, survives'["backup"])
  BY <1>2, <1>3, MoreCover
<1>5. WriterCovered(r, visible'["backup"], survives'["backup"])
  BY <1>1, <1>2, <1>3 DEF WriterCovered
<1>6. ASSUME NEW q \in Procs \ {p}
      PROVE  WriterCovered(proc[q], visible'["backup"], survives'["backup"])
  <2>1. WriterCovered(proc[q], visible["backup"], survives["backup"])
    BY DEF BackupInv
  <2>2. proc[q].old \in Contents /\ proc[q].new \in Contents
    BY <1>0 DEF Proc
  <2>3. proc[q].pc # "off" => Handling(proc[q])
    <3>1. lock = p
      BY <1>0 DEF StoreInv, LockOK, Entitled, Handling
    <3> QED BY <3>1 DEF StoreInv, LockOK, Entitled
  <2>4. proc[q].pc \in Writing => proc[q].job # "backup"
    BY <2>3 DEF Handling, Writing
  <2> QED BY <1>4, <2>1, <2>2, <2>4 DEF WriterCovered
<1>7. \A q \in Procs : WriterCovered(proc'[q], visible'["backup"], survives'["backup"])
  <2>1. proc'[p] = r /\ \A q \in Procs \ {p} : proc'[q] = proc[q]
    BY <1>0, <1>1
  <2> QED BY <1>5, <1>6, <2>1
<1>8. \A f \in Files : \A x \in survives'[f] : Descends(x)
  BY <1>2, <1>3 DEF BackupInv, Files
<1>9. \A x \in survives'["state"] : Covered(x, survives'["backup"])
  <2>1. \A x \in survives["state"] : x \in Contents
    BY <1>0 DEF Files
  <2> QED BY <1>2, <1>4, <2>1 DEF BackupInv
<1>10. \A b \in survives'["backup"] : b.version \in {"missing", "v3"}
  BY <1>2, <1>3 DEF BackupInv
<1> QED BY <1>7, <1>8, <1>9, <1>10 DEF BackupInv

\* Fewer contents can survive after a directory synchronisation or a power loss.
LEMMA FewerSurvive ==
    ASSUME BackupInv, \A f \in Files : survives'[f] \subseteq survives[f],
           \A p \in Procs : WriterCovered(proc'[p], visible'["backup"], survives'["backup"])
    PROVE  BackupInv'
<1>1. \A x \in survives'["state"] : Covered(x, survives'["backup"])
  BY DEF BackupInv, Covered, Files
<1> QED BY <1>1 DEF BackupInv, Files

\* A successful synchronisation of the directory preserves BackupInv: a backup
\* that was just written is the only one left.
LEMMA SyncCovered ==
    ASSUME StoreInv, BackupInv, NEW p \in Procs, SyncBackup(p) \/ SyncState(p)
    PROVE  BackupInv'
<1> DEFINE q == proc[p]
<1>0. q \in Proc /\ WriterCovered(q, visible["backup"], survives["backup"])
  BY DEF StoreInv, TypeOK, BackupInv
<1>1. /\ UNCHANGED visible /\ survives' = [f \in Files |-> {visible[f]}] /\ q.pc = "syncdir"
  BY DEF SyncBackup, SyncState
<1>2. \A f \in Files : survives'[f] \subseteq survives[f]
  BY <1>1 DEF StoreInv, FilesOK
<1>3. survives'["backup"] = {visible["backup"]} /\ survives'["backup"] \subseteq survives["backup"]
  BY <1>1, <1>2 DEF Files
<1>4. CASE SyncBackup(p)
  <2> DEFINE n == NewV4(q.old.source)
             r == [q EXCEPT !.pc = "write", !.job = "migrate", !.synced = FALSE,
                            !.new = n, !.confirmed = TRUE]
  <2>1. q.job = "backup" /\ proc' = [proc EXCEPT ![p] = r]
    BY <1>4 DEF SyncBackup
  <2>2. n.version = "v4" /\ n.source = q.old.source
    BY DEF NewV4
  <2>3. visible["backup"] = q.old /\ q.old.version = "v3"
    BY <1>0, <1>1, <2>1 DEF WriterCovered, Writing
  <2> HIDE DEF q, n
  <2>4. r.pc = "write" /\ r.job = "migrate" /\ r.new = n
    BY <1>0 DEF Proc
  <2> HIDE DEF r
  <2>5. WriterCovered(r, visible["backup"], survives'["backup"])
    BY <1>3, <2>2, <2>3, <2>4 DEF WriterCovered, Covered, BacksUp, Descends
  <2>6. \A p2 \in Procs : WriterCovered(proc'[p2], visible'["backup"], survives'["backup"])
    BY <1>1, <1>3, <2>1, <2>5, OthersCovered
  <2> QED BY <1>2, <2>6, FewerSurvive
<1>5. CASE SyncState(p)
  <2> DEFINE r == [q EXCEPT !.pc = "serving", !.job = "none", !.new = Missing, !.old = Missing,
                            !.confirmed = TRUE, !.wrote = TRUE]
  <2>1. proc' = [proc EXCEPT ![p] = r] \/ proc' = [proc EXCEPT ![p] = Off]
    BY <1>5 DEF SyncState, Return, Exit
  <2> HIDE DEF q
  <2>2. r.pc = "serving" /\ Off.pc = "off"
    BY <1>0, OffOK DEF Proc
  <2> HIDE DEF r
  <2>3. WriterCovered(r, visible["backup"], survives'["backup"])
        /\ WriterCovered(Off, visible["backup"], survives'["backup"])
    BY <2>2 DEF WriterCovered, Writing
  <2>4. \A p2 \in Procs : WriterCovered(proc'[p2], visible'["backup"], survives'["backup"])
    BY <1>1, <1>3, <2>1, <2>3, OthersCovered
  <2> QED BY <1>2, <2>4, FewerSurvive
<1> QED BY <1>4, <1>5

\* Every step preserves BackupInv.
LEMMA NextBackupInv == StoreInv /\ BackupInv /\ [Next]_vars => BackupInv'
<1> SUFFICES ASSUME StoreInv, BackupInv, [Next]_vars PROVE BackupInv'
  OBVIOUS
<1>1. ASSUME NEW p \in Procs, ProcStep(p) PROVE BackupInv'
  BY <1>1, StillSteps, OperationsCovered, RenameStateCovered, RenameBackupCovered, SyncCovered
     DEF ProcStep
<1>2. CASE PowerLoss
  <2>1. \A f \in Files : survives'[f] \subseteq survives[f]
    BY <1>2 DEF PowerLoss
  <2>2. \A p \in Procs : WriterCovered(proc'[p], visible'["backup"], survives'["backup"])
    BY <1>2, OffOK DEF PowerLoss, WriterCovered, Writing
  <2> QED BY <2>1, <2>2, FewerSurvive
<1>3. CASE UNCHANGED vars
  BY <1>3 DEF vars, BackupInv
<1> QED BY <1>1, <1>2, <1>3 DEF Next

\* A migrated state.json is never seen, not even after a power loss, unless
\* the v3 file it was migrated from is safe in the backup.
THEOREM MigrationKeepsBackup == Spec => []BackupBeforeMigration
<1>1. StoreInv /\ BackupInv => BackupBeforeMigration
  BY DEF StoreInv, FilesOK, BackupInv, Covered, BacksUp, BackupBeforeMigration, Files
<1> QED BY <1>1, InitBackupInv, NextBackupInv, StoreInvariant, PTL DEF Spec

-----------------------------------------------------------------------------
(* Changes are not overwritten.                                            *)

\* As long as no server has given up its lock early, one process runs.
LEMMA OthersOff ==
    ASSUME StoreInv, ~outlived, NEW p \in Procs, proc[p].pc # "off" \/ lock = Nobody
    PROVE  \A q \in Procs \ {p} : proc[q].pc = "off"
BY StoreAssumption DEF StoreAssumption, StoreInv, LockOK, Entitled

\* A process r that has read state.json and has not replaced it has read s.
Current(r, s) ==
    r.pc \in Replacing \/ (r.pc = "syncdir" /\ r.job = "backup") => s = r.old

AloneInv == ~outlived => \A p \in Procs : Current(proc[p], visible["state"])

\* A step of p preserves AloneInv when the new state of p does: the other
\* processes are off.
LEMMA AloneSteps ==
    ASSUME StoreInv, AloneInv, NEW p \in Procs, NEW r, proc' = [proc EXCEPT ![p] = r],
           proc[p].pc # "off" \/ lock = Nobody, UNCHANGED outlived,
           ~outlived => Current(r, visible'["state"])
    PROVE  AloneInv'
<1> SUFFICES ASSUME ~outlived, NEW q \in Procs PROVE Current(proc'[q], visible'["state"])
  BY DEF AloneInv
<1>1. proc'[p] = r /\ \A o \in Procs \ {p} : proc'[o] = proc[o]
  BY DEF StoreInv, TypeOK
<1>2. CASE q = p
  BY <1>1, <1>2
<1>3. CASE q # p
  <2>1. proc'[q].pc = "off"
    BY <1>1, <1>3, OthersOff
  <2> QED BY <2>1 DEF Current, Replacing
<1> QED BY <1>2, <1>3

\* The end of a process.
LEMMA ExitAlone ==
    ASSUME StoreInv, AloneInv, NEW p \in Procs, proc[p].pc # "off", Exit(p), UNCHANGED outlived
    PROVE  AloneInv'
<1>1. Current(Off, visible'["state"])
  BY OffOK DEF Current, Replacing
<1> QED BY <1>1, AloneSteps DEF Exit

\* The return of a replacement of state.json.
LEMMA ReturnAlone ==
    ASSUME StoreInv, AloneInv, NEW p \in Procs, proc[p].pc # "off", NEW c, Return(p, c),
           UNCHANGED outlived
    PROVE  AloneInv'
<1> DEFINE q == proc[p]
           r == [q EXCEPT !.pc = "serving", !.job = "none", !.new = Missing,
                          !.old = Missing, !.confirmed = c, !.wrote = TRUE]
<1>1. CASE q.role = "server"
  <2>1. proc' = [proc EXCEPT ![p] = r] /\ q \in Proc
    BY <1>1 DEF Return, StoreInv, TypeOK
  <2> HIDE DEF q
  <2>2. r.pc = "serving"
    BY <2>1 DEF Proc
  <2> HIDE DEF r
  <2>3. Current(r, visible'["state"])
    BY <2>2 DEF Current, Replacing
  <2> QED BY <2>1, <2>3, AloneSteps DEF q
<1>2. CASE q.role # "server"
  BY <1>2, ExitAlone DEF Return
<1> QED BY <1>1, <1>2

\* The beginning of a replacement of what p has read.
LEMMA BeginWriteAlone ==
    ASSUME StoreInv, AloneInv, NEW p \in Procs, proc[p].pc # "off", UNCHANGED <<visible, outlived>>,
           NEW job, NEW contents, NEW old, BeginWrite(p, job, contents, old),
           ~outlived => visible["state"] = old
    PROVE  AloneInv'
<1> DEFINE q == proc[p]
           r == [q EXCEPT !.pc = "write", !.job = job, !.new = contents, !.old = old,
                          !.synced = FALSE]
<1>1. proc' = [proc EXCEPT ![p] = r] /\ q \in Proc
  BY DEF BeginWrite, StoreInv, TypeOK
<1> HIDE DEF q
<1>2. r.old = old
  BY <1>1 DEF Proc
<1> HIDE DEF r
<1>3. ~outlived => Current(r, visible'["state"])
  BY <1>2 DEF Current
<1> QED BY <1>1, <1>3, AloneSteps DEF q

\* A step that leaves state.json, and what p has read of it, alone.
LEMMA StillCurrent ==
    ASSUME StoreInv, AloneInv, NEW p \in Procs, proc[p].pc # "off", UNCHANGED outlived,
           NEW r, proc' = [proc EXCEPT ![p] = r], visible'["state"] = visible["state"],
           r.old = proc[p].old,
           proc[p].pc \in Replacing \/ (proc[p].pc = "syncdir" /\ proc[p].job = "backup")
    PROVE  AloneInv'
<1>1. ~outlived => Current(r, visible'["state"])
  BY DEF AloneInv, Current
<1> QED BY <1>1, AloneSteps

\* Every step preserves AloneInv.
LEMMA NextAloneInv == StoreInv /\ AloneInv /\ [Next]_vars => AloneInv'
<1> SUFFICES ASSUME StoreInv, AloneInv, [Next]_vars PROVE AloneInv'
  OBVIOUS
<1>1. ASSUME NEW p \in Procs, ProcStep(p) PROVE AloneInv'
  <2> DEFINE q == proc[p]
             s == visible["state"]
  <2>0. q \in Proc /\ (~outlived => Current(q, s))
    BY DEF StoreInv, TypeOK, AloneInv
  <2>1. ASSUME NEW role \in {"server", "tool"}, Open(p, role) PROVE AloneInv'
    <3> DEFINE r == [Off EXCEPT !.pc = role, !.role = role]
    <3>1. r.pc = role
      BY DEF Off
    <3>2. proc' = [proc EXCEPT ![p] = r] /\ lock = Nobody /\ UNCHANGED outlived
      BY <2>1 DEF Open
    <3> HIDE DEF r
    <3>3. Current(r, visible'["state"])
      BY <3>1 DEF Current, Replacing
    <3> QED BY <3>2, <3>3, AloneSteps
  <2>2. CASE BootServes(p)
    <3> DEFINE r == [q EXCEPT !.pc = "serving"]
    <3>1. proc' = [proc EXCEPT ![p] = r] /\ q.pc = "server" /\ UNCHANGED outlived
      BY <2>2 DEF BootServes
    <3> HIDE DEF q
    <3>2. r.pc = "serving"
      BY <2>0 DEF Proc
    <3> HIDE DEF r
    <3>3. Current(r, visible'["state"])
      BY <3>2 DEF Current, Replacing
    <3> QED BY <3>1, <3>3, AloneSteps DEF q
  <2>3. CASE BootLoadsV3(p)
    <3> DEFINE r == [q EXCEPT !.pc = "loaded", !.old = s]
    <3>1. proc' = [proc EXCEPT ![p] = r] /\ q.pc = "server" /\ UNCHANGED <<visible, outlived>>
      BY <2>3 DEF BootLoadsV3
    <3> HIDE DEF q, s
    <3>2. r.old = s
      BY <2>0 DEF Proc
    <3> HIDE DEF r
    <3>3. Current(r, visible'["state"])
      BY <3>1, <3>2 DEF Current, s
    <3> QED BY <3>1, <3>3, AloneSteps DEF q
  <2>4. CASE CommitMigration(p)
    BY <2>4, BeginWriteAlone DEF CommitMigration
  <2>5. CASE Load(p)
    <3> DEFINE r == [q EXCEPT !.pc = "editing", !.old = s]
    <3>1. proc' = [proc EXCEPT ![p] = r] /\ q.pc \in {"serving", "tool"}
          /\ UNCHANGED <<visible, outlived>>
      BY <2>5 DEF Load
    <3> HIDE DEF q, s
    <3>2. r.old = s
      BY <2>0 DEF Proc
    <3> HIDE DEF r
    <3>3. Current(r, visible'["state"])
      BY <3>1, <3>2 DEF Current, s
    <3> QED BY <3>1, <3>3, AloneSteps DEF q
  <2>6. CASE Refuse(p)
    <3> DEFINE r == [q EXCEPT !.pc = "serving", !.old = Missing]
    <3>1. proc' = [proc EXCEPT ![p] = r] /\ q.pc = "editing" /\ UNCHANGED outlived
      BY <2>6 DEF Refuse
    <3> HIDE DEF q
    <3>2. r.pc = "serving"
      BY <2>0 DEF Proc
    <3> HIDE DEF r
    <3>3. Current(r, visible'["state"])
      BY <3>2 DEF Current, Replacing
    <3> QED BY <3>1, <3>3, AloneSteps DEF q
  <2>7. CASE Save(p)
    <3>1. /\ q.pc = "editing" /\ BeginWrite(p, "save", NewV4(q.old.source), q.old)
          /\ UNCHANGED <<visible, outlived>>
      BY <2>7 DEF Save
    <3>2. ~outlived => s = q.old
      BY <2>0, <3>1 DEF Current, Replacing
    <3> QED BY <3>1, <3>2, BeginWriteAlone
  <2>8. CASE CommitInitial(p)
    BY <2>8, BeginWriteAlone DEF CommitInitial
  <2>9. CASE RestoreV3Backup(p)
    BY <2>9, BeginWriteAlone DEF RestoreV3Backup
  <2>10. CASE ReleaseLock(p)
    BY <2>10 DEF ReleaseLock, AloneInv
  <2>11. CASE Stop(p)
    BY <2>11, ExitAlone DEF Stop
  <2>12. CASE WriteTemporary(p)
    <3> DEFINE r == [q EXCEPT !.pc = "sync"]
    <3>1. proc' = [proc EXCEPT ![p] = r] /\ q.pc = "write" /\ UNCHANGED <<visible, outlived>>
      BY <2>12 DEF WriteTemporary
    <3> HIDE DEF q
    <3>2. r.old = q.old
      BY <2>0 DEF Proc
    <3> HIDE DEF r
    <3> QED BY <3>1, <3>2, StillCurrent DEF q, Replacing
  <2>13. CASE SyncFile(p)
    <3> DEFINE r == [q EXCEPT !.pc = "rename", !.synced = TRUE]
    <3>1. proc' = [proc EXCEPT ![p] = r] /\ q.pc = "sync" /\ UNCHANGED <<visible, outlived>>
      BY <2>13 DEF SyncFile
    <3> HIDE DEF q
    <3>2. r.old = q.old
      BY <2>0 DEF Proc
    <3> HIDE DEF r
    <3> QED BY <3>1, <3>2, StillCurrent DEF q, Replacing
  <2>14. CASE Rename(p)
    <3>1. PICK n, r :
              /\ proc' = [proc EXCEPT ![p] = r] /\ r.pc = "syncdir" /\ r.job = q.job
              /\ r.old = q.old /\ visible' = [visible EXCEPT ![Target(p)] = n]
      BY <2>14, RenameStep
    <3>2. q.pc = "rename" /\ UNCHANGED outlived
      BY <2>14 DEF Rename
    <3>3. CASE q.job = "backup"
      <4>1. visible'["state"] = visible["state"]
        BY <3>1, <3>3 DEF Target, StoreInv, TypeOK, Files
      <4> QED BY <3>1, <3>2, <4>1, StillCurrent DEF Replacing
    <3>4. CASE q.job # "backup"
      <4>1. Current(r, visible'["state"])
        BY <3>1, <3>4 DEF Current, Replacing
      <4> QED BY <3>1, <3>2, <4>1, AloneSteps
    <3> QED BY <3>3, <3>4
  <2>15. CASE WriteFails(p)
    <3> DEFINE r == [q EXCEPT !.pc = "serving", !.job = "none", !.new = Missing, !.old = Missing]
    <3>1. q.pc \in {"write", "sync", "rename"} /\ UNCHANGED <<visible, outlived>>
          /\ (proc' = [proc EXCEPT ![p] = r] \/ Exit(p))
      BY <2>15 DEF WriteFails
    <3>2. CASE Exit(p)
      BY <3>1, <3>2, ExitAlone
    <3>3. CASE proc' = [proc EXCEPT ![p] = r]
      <4> HIDE DEF q
      <4>1. r.pc = "serving"
        BY <2>0 DEF Proc
      <4> HIDE DEF r
      <4>2. Current(r, visible'["state"])
        BY <4>1 DEF Current, Replacing
      <4> QED BY <3>1, <3>3, <4>2, AloneSteps DEF q
    <3> QED BY <3>1, <3>2, <3>3
  <2>16. CASE SyncBackup(p)
    <3> DEFINE n == NewV4(q.old.source)
               r == [q EXCEPT !.pc = "write", !.job = "migrate", !.synced = FALSE,
                              !.new = n, !.confirmed = TRUE]
    <3>1. proc' = [proc EXCEPT ![p] = r] /\ q.pc = "syncdir" /\ q.job = "backup"
          /\ UNCHANGED <<visible, outlived>>
      BY <2>16 DEF SyncBackup
    <3> HIDE DEF q, n
    <3>2. r.old = q.old
      BY <2>0 DEF Proc
    <3> HIDE DEF r
    <3> QED BY <3>1, <3>2, StillCurrent DEF q
  <2>17. CASE SyncBackupFails(p)
    BY <2>17, ExitAlone DEF SyncBackupFails
  <2>18. CASE SyncState(p)
    BY <2>18, ReturnAlone DEF SyncState
  <2>19. CASE SyncStateFails(p)
    BY <2>19, ReturnAlone DEF SyncStateFails
  <2> QED BY <1>1, <2>1, <2>2, <2>3, <2>4, <2>5, <2>6, <2>7, <2>8, <2>9, <2>10, <2>11, <2>12,
             <2>13, <2>14, <2>15, <2>16, <2>17, <2>18, <2>19 DEF ProcStep
<1>2. CASE PowerLoss
  <2>1. \A p \in Procs : Current(proc'[p], visible'["state"])
    BY <1>2, OffOK DEF PowerLoss, Current, Replacing
  <2> QED BY <2>1 DEF AloneInv
<1>3. CASE UNCHANGED vars
  BY <1>3 DEF vars, AloneInv
<1> QED BY <1>1, <1>2, <1>3 DEF Next

\* While no server has given up its lock before its handlers ended, the server
\* and the offline commands never overwrite each other's changes: state.json is
\* still what a process read when that process replaces it.
THEOREM NoUpdateLost == Spec => []NoLostUpdate
<1>1. Init => AloneInv
  <2> SUFFICES ASSUME Init, NEW p \in Procs PROVE Current(proc[p], visible["state"])
    BY DEF AloneInv
  <2>1. proc[p].pc = "off"
    BY OffOK DEF Init
  <2> QED BY <2>1 DEF Current, Replacing
<1>2. StoreInv /\ AloneInv => NoLostUpdate
  BY DEF AloneInv, Current, NoLostUpdate
<1> QED BY <1>1, <1>2, NextAloneInv, StoreInvariant, PTL DEF Spec

-----------------------------------------------------------------------------
(* What the server reports about durability.                               *)

\* A process r that has replaced state.json reports, except between the rename
\* and the return of its next replacement, what would survive; a process that
\* is off has replaced nothing.
Reports(r, held, w) ==
    /\ r.pc = "off" => ~r.wrote
    /\ r.wrote /\ r.pc # "syncdir" => /\ r.confirmed => held
                                      /\ r.confirmed <=> ~w

\* Only the visible state.json would survive a power loss.
Held == survives["state"] = {visible["state"]}

ReportInv == ~outlived => \A p \in Procs : Reports(proc[p], Held, warned)

\* A step of p preserves ReportInv when the new state of p does: the other
\* processes are off.
LEMMA ReporterSteps ==
    ASSUME StoreInv, ReportInv, NEW p \in Procs, NEW r, proc' = [proc EXCEPT ![p] = r],
           proc[p].pc # "off" \/ lock = Nobody, UNCHANGED outlived,
           ~outlived => Reports(r, Held', warned')
    PROVE  ReportInv'
<1> SUFFICES ASSUME ~outlived PROVE \A q \in Procs : Reports(proc'[q], Held', warned')
  BY DEF ReportInv
<1>1. proc'[p] = r /\ \A q \in Procs \ {p} : proc'[q] = proc[q]
  BY DEF StoreInv, TypeOK
<1>2. ASSUME NEW q \in Procs \ {p} PROVE Reports(proc'[q], Held', warned')
  <2>1. proc'[q].pc = "off"
    BY <1>1, OthersOff
  <2>2. ~proc'[q].wrote
    BY <1>1, <2>1 DEF ReportInv, Reports
  <2> QED BY <2>1, <2>2, Zenon DEF Reports
<1>3. Reports(proc'[p], Held', warned')
  BY <1>1
<1> QED BY <1>2, <1>3

\* A process that is off, or has replaced nothing, reports nothing.
LEMMA SilentReports ==
    ASSUME NEW r, ~r.wrote, NEW held, NEW w
    PROVE  Reports(r, held, w)
BY DEF Reports

\* A step that changes neither the files nor what p has reported.
LEMMA KeepsReport ==
    ASSUME StoreInv, ReportInv, NEW p \in Procs, NEW r, proc' = [proc EXCEPT ![p] = r],
           proc[p].pc \notin {"off", "syncdir"}, r.pc # "off",
           r.wrote = proc[p].wrote, r.confirmed = proc[p].confirmed,
           UNCHANGED <<visible, survives, warned, outlived>>
    PROVE  ReportInv'
<1>1. ~outlived => Reports(proc[p], Held, warned)
  BY DEF ReportInv
<1>2. Held' = Held /\ warned' = warned
  BY DEF Held
<1>3. ~outlived => Reports(r, Held', warned')
  BY <1>1, <1>2 DEF Reports
<1> QED BY <1>3, ReporterSteps

\* A step after which p has ended.
LEMMA ExitReports ==
    ASSUME StoreInv, ReportInv, NEW p \in Procs, proc[p].pc # "off", Exit(p), UNCHANGED outlived
    PROVE  ReportInv'
<1>1. ~Off.wrote
  BY DEF Off
<1>2. Reports(Off, Held', warned')
  BY <1>1, SilentReports
<1> QED BY <1>2, ReporterSteps DEF Exit

\* The return of a replacement of state.json.
LEMMA ReturnReports ==
    ASSUME StoreInv, ReportInv, NEW p \in Procs, proc[p].pc # "off", NEW c \in BOOLEAN,
           Return(p, c), UNCHANGED outlived, c => Held', c <=> ~warned'
    PROVE  ReportInv'
<1>1. CASE proc[p].role # "server"
  BY <1>1, ExitReports DEF Return
<1>2. CASE proc[p].role = "server"
  <2> DEFINE q == proc[p]
             r == [q EXCEPT !.pc = "serving", !.job = "none", !.new = Missing, !.old = Missing,
                            !.confirmed = c, !.wrote = TRUE]
  <2>1. q \in Proc
    BY DEF StoreInv, TypeOK
  <2>2. proc' = [proc EXCEPT ![p] = r]
    BY <1>2 DEF Return
  <2> HIDE DEF q
  <2>3. r.pc = "serving" /\ (r.confirmed <=> c)
    BY <2>1 DEF Proc
  <2> HIDE DEF r
  <2>4. Reports(r, Held', warned')
    BY <2>3, Zenon DEF Reports
  <2> QED BY <2>2, <2>4, ReporterSteps
<1> QED BY <1>1, <1>2

\* The beginning of a replacement reports nothing new.
LEMMA BeginWriteReports ==
    ASSUME StoreInv, ReportInv, NEW p \in Procs, NEW job, NEW contents, NEW old,
           proc[p].pc \notin {"off", "syncdir"}, BeginWrite(p, job, contents, old),
           UNCHANGED <<visible, survives, warned, outlived>>
    PROVE  ReportInv'
<1> DEFINE q == proc[p]
           r == [q EXCEPT !.pc = "write", !.job = job, !.new = contents, !.old = old,
                          !.synced = FALSE]
<1>1. q \in Proc
  BY DEF StoreInv, TypeOK
<1>2. proc' = [proc EXCEPT ![p] = r]
  BY DEF BeginWrite
<1> HIDE DEF q
<1>3. r.pc = "write" /\ r.wrote = q.wrote /\ r.confirmed = q.confirmed
  BY <1>1 DEF Proc
<1> HIDE DEF r
<1> QED BY <1>2, <1>3, KeepsReport DEF q

\* Every step preserves ReportInv.
LEMMA NextReportInv == StoreInv /\ ReportInv /\ [Next]_vars => ReportInv'
<1> SUFFICES ASSUME StoreInv, ReportInv, [Next]_vars PROVE ReportInv'
  OBVIOUS
<1>1. ASSUME NEW p \in Procs, ProcStep(p) PROVE ReportInv'
  <2> DEFINE q == proc[p]
             s == visible["state"]
  <2>0. q \in Proc
    BY DEF StoreInv, TypeOK
  <2>1. ASSUME NEW role \in {"server", "tool"}, Open(p, role) PROVE ReportInv'
    <3> DEFINE r == [Off EXCEPT !.pc = role, !.role = role]
    <3>1. ~r.wrote
      BY DEF Off
    <3>2. proc' = [proc EXCEPT ![p] = r] /\ lock = Nobody /\ UNCHANGED outlived
      BY <2>1 DEF Open
    <3> HIDE DEF r
    <3>3. Reports(r, Held', warned')
      BY <3>1, SilentReports
    <3> QED BY <3>2, <3>3, ReporterSteps
  <2>2. CASE BootServes(p)
    <3> DEFINE r == [q EXCEPT !.pc = "serving"]
    <3>1. /\ proc' = [proc EXCEPT ![p] = r] /\ q.pc = "server"
          /\ UNCHANGED <<visible, survives, warned, outlived>>
      BY <2>2 DEF BootServes
    <3> HIDE DEF q
    <3>2. r.pc = "serving" /\ r.wrote = q.wrote /\ r.confirmed = q.confirmed
      BY <2>0 DEF Proc
    <3> HIDE DEF r
    <3> QED BY <3>1, <3>2, KeepsReport DEF q
  <2>3. CASE BootLoadsV3(p)
    <3> DEFINE r == [q EXCEPT !.pc = "loaded", !.old = s]
    <3>1. /\ proc' = [proc EXCEPT ![p] = r] /\ q.pc = "server"
          /\ UNCHANGED <<visible, survives, warned, outlived>>
      BY <2>3 DEF BootLoadsV3
    <3> HIDE DEF q, s
    <3>2. r.pc = "loaded" /\ r.wrote = q.wrote /\ r.confirmed = q.confirmed
      BY <2>0 DEF Proc
    <3> HIDE DEF r
    <3> QED BY <3>1, <3>2, KeepsReport DEF q
  <2>4. CASE CommitMigration(p)
    BY <2>4, BeginWriteReports DEF CommitMigration
  <2>5. CASE Save(p)
    BY <2>5, BeginWriteReports DEF Save
  <2>6. CASE CommitInitial(p)
    BY <2>6, BeginWriteReports DEF CommitInitial
  <2>7. CASE RestoreV3Backup(p)
    BY <2>7, BeginWriteReports DEF RestoreV3Backup
  <2>8. CASE Stop(p)
    BY <2>8, ExitReports DEF Stop
  <2>9. CASE WriteTemporary(p)
    <3> DEFINE r == [q EXCEPT !.pc = "sync"]
    <3>1. /\ proc' = [proc EXCEPT ![p] = r] /\ q.pc = "write"
          /\ UNCHANGED <<visible, survives, warned, outlived>>
      BY <2>9 DEF WriteTemporary
    <3> HIDE DEF q
    <3>2. r.pc = "sync" /\ r.wrote = q.wrote /\ r.confirmed = q.confirmed
      BY <2>0 DEF Proc
    <3> HIDE DEF r
    <3> QED BY <3>1, <3>2, KeepsReport DEF q
  <2>10. CASE SyncFile(p)
    <3> DEFINE r == [q EXCEPT !.pc = "rename", !.synced = TRUE]
    <3>1. /\ proc' = [proc EXCEPT ![p] = r] /\ q.pc = "sync"
          /\ UNCHANGED <<visible, survives, warned, outlived>>
      BY <2>10 DEF SyncFile
    <3> HIDE DEF q
    <3>2. r.pc = "rename" /\ r.wrote = q.wrote /\ r.confirmed = q.confirmed
      BY <2>0 DEF Proc
    <3> HIDE DEF r
    <3> QED BY <3>1, <3>2, KeepsReport DEF q
  <2>11. CASE Rename(p)
    <3>1. q.pc = "rename" /\ UNCHANGED outlived
      BY <2>11 DEF Rename
    <3>2. PICK r : proc' = [proc EXCEPT ![p] = r] /\ r.pc = "syncdir"
      BY <2>11, RenameStep
    <3>3. Reports(r, Held', warned')
      BY <2>0, <3>2, Zenon DEF Reports
    <3> QED BY <3>1, <3>2, <3>3, ReporterSteps
  <2>12. CASE WriteFails(p)
    <3> DEFINE r == [q EXCEPT !.pc = "serving", !.job = "none", !.new = Missing, !.old = Missing]
    <3>1. q.pc \in {"write", "sync", "rename"} /\ UNCHANGED <<visible, survives, warned, outlived>>
      BY <2>12 DEF WriteFails
    <3>2. proc' = [proc EXCEPT ![p] = r] \/ Exit(p)
      BY <2>12 DEF WriteFails
    <3>3. CASE Exit(p)
      BY <3>1, <3>3, ExitReports
    <3>4. CASE proc' = [proc EXCEPT ![p] = r]
      <4> HIDE DEF q
      <4>1. r.pc = "serving" /\ r.wrote = q.wrote /\ r.confirmed = q.confirmed
        BY <2>0 DEF Proc
      <4> HIDE DEF r
      <4> QED BY <3>1, <3>4, <4>1, KeepsReport DEF q
    <3> QED BY <3>2, <3>3, <3>4
  <2>13. CASE SyncBackup(p)
    <3> DEFINE n == NewV4(q.old.source)
               r == [q EXCEPT !.pc = "write", !.job = "migrate", !.synced = FALSE,
                              !.new = n, !.confirmed = TRUE]
    <3>1. proc' = [proc EXCEPT ![p] = r] /\ q.pc = "syncdir" /\ UNCHANGED outlived
      BY <2>13 DEF SyncBackup
    <3>2. Held' /\ ~warned'
      BY <2>13 DEF SyncBackup, Held, Files
    <3> HIDE DEF q, n
    <3>3. r.pc = "write" /\ r.confirmed
      BY <2>0 DEF Proc
    <3> HIDE DEF r
    <3>4. Reports(r, Held', warned')
      BY <3>2, <3>3, Zenon DEF Reports
    <3> QED BY <3>1, <3>4, ReporterSteps DEF q
  <2>14. CASE SyncBackupFails(p)
    BY <2>14, ExitReports DEF SyncBackupFails
  <2>15. CASE SyncState(p)
    <3>1. q.pc = "syncdir" /\ Return(p, TRUE) /\ Held' /\ ~warned'
          /\ UNCHANGED outlived
      BY <2>15 DEF SyncState, Held, Files
    <3> QED BY <3>1, ReturnReports
  <2>16. CASE SyncStateFails(p)
    <3>1. q.pc = "syncdir" /\ Return(p, FALSE) /\ warned' /\ UNCHANGED outlived
      BY <2>16 DEF SyncStateFails
    <3> QED BY <3>1, ReturnReports
  <2>17. CASE Load(p)
    <3> DEFINE r == [q EXCEPT !.pc = "editing", !.old = s]
    <3>1. /\ proc' = [proc EXCEPT ![p] = r] /\ q.pc \in {"serving", "tool"}
          /\ UNCHANGED <<visible, survives, warned, outlived>>
      BY <2>17 DEF Load
    <3> HIDE DEF q, s
    <3>2. r.pc = "editing" /\ r.wrote = q.wrote /\ r.confirmed = q.confirmed
      BY <2>0 DEF Proc
    <3> HIDE DEF r
    <3> QED BY <3>1, <3>2, KeepsReport DEF q
  <2>18. CASE Refuse(p)
    <3> DEFINE r == [q EXCEPT !.pc = "serving", !.old = Missing]
    <3>1. /\ proc' = [proc EXCEPT ![p] = r] /\ q.pc = "editing"
          /\ UNCHANGED <<visible, survives, warned, outlived>>
      BY <2>18 DEF Refuse
    <3> HIDE DEF q
    <3>2. r.pc = "serving" /\ r.wrote = q.wrote /\ r.confirmed = q.confirmed
      BY <2>0 DEF Proc
    <3> HIDE DEF r
    <3> QED BY <3>1, <3>2, KeepsReport DEF q
  <2>19. CASE ReleaseLock(p)
    BY <2>19 DEF ReleaseLock, ReportInv
  <2> QED BY <1>1, <2>1, <2>2, <2>3, <2>4, <2>5, <2>6, <2>7, <2>8, <2>9, <2>10, <2>11, <2>12,
             <2>13, <2>14, <2>15, <2>16, <2>17, <2>18, <2>19 DEF ProcStep
<1>2. CASE PowerLoss
  <2>1. \A p \in Procs : ~proc'[p].wrote
    BY <1>2 DEF PowerLoss, Off
  <2>2. \A p \in Procs : Reports(proc'[p], Held', warned')
    BY <2>1, SilentReports
  <2> QED BY <2>2 DEF ReportInv
<1>3. CASE UNCHANGED vars
  BY <1>3 DEF vars, ReportInv, Held
<1> QED BY <1>1, <1>2, <1>3 DEF Next

\* A server that has replaced state.json, while none goes on without the lock,
\* reports it as durable exactly when no directory synchronisation has failed
\* since the last that succeeded, and then state.json would survive a power loss.
THEOREM DurabilityHonest == Spec => []ReportedDurability
<1>1. Init => ReportInv
  <2> SUFFICES ASSUME Init PROVE ReportInv
    OBVIOUS
  <2>1. \A p \in Procs : ~proc[p].wrote
    BY DEF Init, Off
  <2> QED BY <2>1, SilentReports DEF ReportInv
<1>2. StoreInv /\ ReportInv => ReportedDurability
  <2> SUFFICES ASSUME StoreInv, ReportInv, NEW p \in Procs, ~outlived,
                      proc[p].pc \in {"serving", "editing"}, proc[p].wrote
               PROVE  /\ proc[p].confirmed => survives["state"] = {visible["state"]}
                      /\ proc[p].confirmed = ~warned
    BY DEF ReportedDurability
  <2>1. (proc[p].confirmed => Held) /\ (proc[p].confirmed <=> ~warned)
    BY DEF ReportInv, Reports
  <2>2. proc[p].confirmed \in BOOLEAN /\ warned \in BOOLEAN
    BY DEF StoreInv, TypeOK, Proc
  <2>3. proc[p].confirmed = ~warned
    BY <2>1, <2>2, Zenon
  <2> QED BY <2>1, <2>3 DEF Held
<1> QED BY <1>1, <1>2, NextReportInv, StoreInvariant, PTL DEF Spec
=============================================================================
