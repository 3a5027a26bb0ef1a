----------------------------- MODULE StateStore -----------------------------
(***************************************************************************)
(* The private state directory of internal/platform/state (Store, Lock)    *)
(* and the processes that write to it: the server (internal/app New and    *)
(* Run) and the offline commands "state restore-v3-backup" and             *)
(* "admin-origin".                                                         *)
(*                                                                         *)
(* A file replacement is a temporary file, its synchronisation, a rename   *)
(* and the synchronisation of the directory; each of these is a step that  *)
(* may fail, and the process or the machine may stop between any two of    *)
(* them.  Inside one process Store.mu allows one replacement at a time,    *)
(* and changeMu one handler between its load and its Save; setup commits   *)
(* only where there is no file to load.                                    *)
(*                                                                         *)
(* The server gives up its lock in a defer of Run, also when Shutdown ran  *)
(* out of time: handlers that are still under way go on without it until   *)
(* the process ends.                                                       *)
(*                                                                         *)
(* The contents of a file are a record: its schema version, the v3 file    *)
(* its data descends from (0 for none), and gen, the number of the write   *)
(* that made it visible.  After a power loss a file holds one of survives[f]:  *)
(* the contents at the last synchronisation of the directory or any later  *)
(* one.  Renames of different files survive independently.                 *)
(***************************************************************************)
EXTENDS Integers, FiniteSets

CONSTANTS
    Procs,      \* processes that may open the directory
    Nobody,     \* holder of a free lock
    MaxWrites   \* bound on the number of replacements of state.json

ASSUME StoreAssumption == Nobody \notin Procs /\ MaxWrites \in Nat

VARIABLES
    visible,    \* [Files -> Contents], what open and stat see
    survives,   \* [Files -> SUBSET Contents]
    lock,       \* holder of the flock on state.lock
    proc,       \* local state of each process
    writes,     \* number of replacements of state.json
    acked,      \* gen of the last write reported as durable
    warned,     \* a write was reported as not durable, and no directory
                \* synchronisation has succeeded since
    outlived    \* a server gave up the lock while its handlers went on, since
                \* the last power loss

vars == <<visible, survives, lock, proc, writes, acked, warned, outlived>>

Files == {"state", "backup"}
Contents == [version : {"missing", "v3", "v4", "torn"}, source : {0, 1}, gen : 0..MaxWrites]

Missing == [version |-> "missing", source |-> 0, gen |-> 0]
Torn == [version |-> "torn", source |-> 0, gen |-> 0]
OldState == [version |-> "v3", source |-> 1, gen |-> 0]

Jobs == {"none", "save", "initial", "backup", "migrate", "restore"}

\* off, started (lock held), loaded (a v3 state was read at the start), serving,
\* editing (a v4 state was read, to be replaced), and the steps of
\* atomicWriteContents.
PCs == {"off", "server", "tool", "loaded", "serving", "editing",
        "write", "sync", "rename", "syncdir"}

Proc == [pc : PCs, job : Jobs, role : {"server", "tool"}, new : Contents, old : Contents,
         synced : BOOLEAN, confirmed : BOOLEAN, wrote : BOOLEAN]

Off == [pc |-> "off", job |-> "none", role |-> "server", new |-> Missing, old |-> Missing,
        synced |-> FALSE, confirmed |-> TRUE, wrote |-> FALSE]

Init ==
    /\ \E s \in {Missing, OldState} :
           visible = [f \in Files |-> IF f = "state" THEN s ELSE Missing]
    /\ survives = [f \in Files |-> {visible[f]}]
    /\ lock = Nobody
    /\ proc = [p \in Procs |-> Off]
    /\ writes = 0
    /\ acked = 0
    /\ warned = FALSE
    /\ outlived = FALSE

-----------------------------------------------------------------------------
(* Processes.                                                              *)

\* Mutant: the lock is not exclusive.
OpenUnlocked(p, role) ==
    /\ proc[p].pc = "off"
    /\ lock' = p
    /\ proc' = [proc EXCEPT ![p] = [Off EXCEPT !.pc = role, !.role = role]]
    /\ UNCHANGED <<visible, survives, writes, acked, warned, outlived>>

\* NewStore and AcquireLock: LOCK_EX|LOCK_NB.  A process that finds the lock
\* taken exits, which changes nothing.
Open(p, role) ==
    /\ proc[p].pc = "off"
    /\ lock = Nobody
    /\ lock' = p
    /\ proc' = [proc EXCEPT ![p] = [Off EXCEPT !.pc = role, !.role = role]]
    /\ UNCHANGED <<visible, survives, writes, acked, warned, outlived>>

\* The process ends; closing the descriptor releases the lock.
Exit(p) ==
    /\ lock' = (IF lock = p THEN Nobody ELSE lock)
    /\ proc' = [proc EXCEPT ![p] = Off]

\* What handlers of the server do: wait for requests, edit, commit.
Handling(r) ==
    /\ r.role = "server"
    /\ r.pc \in {"serving", "editing"} \/ r.job \in {"save", "initial"}

\* Run returns although Shutdown ran out of time: its defer closes the lock,
\* and the handlers that are left go on.
ReleaseLock(p) ==
    /\ lock = p /\ Handling(proc[p])
    /\ lock' = Nobody
    /\ outlived' = TRUE
    /\ UNCHANGED <<visible, survives, proc, writes, acked, warned>>

\* A v4 state is activated and a missing one leads to setup_required.
BootServes(p) ==
    /\ proc[p].pc = "server"
    /\ visible["state"].version \in {"missing", "v4"}
    /\ proc' = [proc EXCEPT ![p] = [@ EXCEPT !.pc = "serving"]]
    /\ UNCHANGED <<visible, survives, lock, writes, acked, warned, outlived>>

\* LoadCompatible converts a v3 state in memory.
BootLoadsV3(p) ==
    /\ proc[p].pc = "server"
    /\ visible["state"].version = "v3"
    /\ proc' = [proc EXCEPT ![p] = [@ EXCEPT !.pc = "loaded", !.old = visible["state"]]]
    /\ UNCHANGED <<visible, survives, lock, writes, acked, warned, outlived>>

\* Enter atomicWriteContents(file, contents) for a file that was read as old.
BeginWrite(p, job, contents, old) ==
    proc' = [proc EXCEPT ![p] = [@ EXCEPT !.pc = "write", !.job = job, !.new = contents,
                                             !.old = old, !.synced = FALSE]]

\* The contents of a v4 write; Rename gives it its number.
NewV4(source) == [version |-> "v4", source |-> source, gen |-> 0]

\* The start of CommitMigration: the file must still be what was loaded, and
\* is saved as the backup first.
CommitMigration(p) ==
    /\ proc[p].pc = "loaded"
    /\ visible["state"] = proc[p].old
    /\ BeginWrite(p, "backup", proc[p].old, proc[p].old)
    /\ UNCHANGED <<visible, survives, lock, writes, acked, warned, outlived>>

\* A handler of the server (under changeMu), or the command admin-origin, loads
\* the state it is going to change.
Load(p) ==
    /\ proc[p].pc \in {"serving", "tool"}
    /\ visible["state"].version = "v4"
    /\ proc' = [proc EXCEPT ![p] = [@ EXCEPT !.pc = "editing", !.old = visible["state"]]]
    /\ UNCHANGED <<visible, survives, lock, writes, acked, warned, outlived>>

\* The handler refuses the change, or its test of the upstream fails.  A
\* command that refuses ends: Stop.
Refuse(p) ==
    /\ proc[p].pc = "editing" /\ proc[p].role = "server"
    /\ proc' = [proc EXCEPT ![p] = [@ EXCEPT !.pc = "serving", !.old = Missing]]
    /\ UNCHANGED <<visible, survives, lock, writes, acked, warned, outlived>>

\* Save: the file must exist; what it holds by now is not looked at.
Save(p) ==
    /\ proc[p].pc = "editing"
    /\ visible["state"].version # "missing"
    /\ BeginWrite(p, "save", NewV4(proc[p].old.source), proc[p].old)
    /\ UNCHANGED <<visible, survives, lock, writes, acked, warned, outlived>>

\* CommitInitial: the file must not exist.
CommitInitial(p) ==
    /\ proc[p].pc = "serving"
    /\ visible["state"].version = "missing"
    /\ BeginWrite(p, "initial", NewV4(0), visible["state"])
    /\ UNCHANGED <<visible, survives, lock, writes, acked, warned, outlived>>

\* RestoreV3Backup: the state is v4 and the backup v3.
RestoreV3Backup(p) ==
    /\ proc[p].pc = "tool"
    /\ visible["state"].version = "v4" /\ visible["backup"].version = "v3"
    /\ BeginWrite(p, "restore", visible["backup"], visible["state"])
    /\ UNCHANGED <<visible, survives, lock, writes, acked, warned, outlived>>

\* The process stops: a refused start or command, a shutdown, or a crash at
\* any point (SIGKILL).  Temporary files it leaves are never read.
Stop(p) ==
    /\ proc[p].pc # "off"
    /\ Exit(p)
    /\ UNCHANGED <<visible, survives, writes, acked, warned, outlived>>

-----------------------------------------------------------------------------
(* atomicWriteContents.                                                    *)

Target(p) == IF proc[p].job = "backup" THEN "backup" ELSE "state"

\* The temporary file is created and written.
WriteTemporary(p) ==
    /\ proc[p].pc = "write"
    /\ proc' = [proc EXCEPT ![p] = [@ EXCEPT !.pc = "sync"]]
    /\ UNCHANGED <<visible, survives, lock, writes, acked, warned, outlived>>

\* Mutant: the synchronisation of the file is skipped.
SkipSyncFile(p) ==
    /\ proc[p].pc = "sync"
    /\ proc' = [proc EXCEPT ![p] = [@ EXCEPT !.pc = "rename"]]
    /\ UNCHANGED <<visible, survives, lock, writes, acked, warned, outlived>>

\* syncFile and Close succeed.
SyncFile(p) ==
    /\ proc[p].pc = "sync"
    /\ proc' = [proc EXCEPT ![p] = [@ EXCEPT !.pc = "rename", !.synced = TRUE]]
    /\ UNCHANGED <<visible, survives, lock, writes, acked, warned, outlived>>

\* The rename is visible at once; it numbers a replacement of state.json.  A
\* file whose data was not synchronised could come back torn.
Rename(p) ==
    LET f == Target(p)
        g == IF f = "state" THEN writes + 1 ELSE proc[p].new.gen
        n == [proc[p].new EXCEPT !.gen = g]
    IN  /\ proc[p].pc = "rename"
        /\ f = "state" => writes < MaxWrites
        /\ visible' = [visible EXCEPT ![f] = n]
        /\ survives' = [survives EXCEPT ![f] = @ \cup {n}
                                                 \cup (IF proc[p].synced THEN {} ELSE {Torn})]
        /\ proc' = [proc EXCEPT ![p] = [@ EXCEPT !.pc = "syncdir", !.new = n]]
        /\ writes' = (IF f = "state" THEN writes + 1 ELSE writes)
        /\ UNCHANGED <<lock, acked, warned, outlived>>

\* A step before the rename fails.  The handlers answer 500 and go on; a
\* migration or an offline command ends the process.
WriteFails(p) ==
    /\ proc[p].pc \in {"write", "sync", "rename"}
    /\ IF proc[p].job \in {"save", "initial"} /\ proc[p].role = "server"
       THEN /\ proc' = [proc EXCEPT ![p] = [@ EXCEPT !.pc = "serving", !.job = "none",
                                                     !.new = Missing, !.old = Missing]]
            /\ UNCHANGED lock
       ELSE Exit(p)
    /\ UNCHANGED <<visible, survives, writes, acked, warned, outlived>>

\* What the process does when a replacement of state.json has returned.
Return(p, confirmed) ==
    IF proc[p].role = "server"
    THEN /\ proc' = [proc EXCEPT ![p] = [@ EXCEPT !.pc = "serving", !.job = "none",
                                                  !.new = Missing, !.old = Missing,
                                                  !.confirmed = confirmed, !.wrote = TRUE]]
         /\ UNCHANGED lock
    ELSE Exit(p)

\* syncDirectory succeeds after a backup: CommitMigration writes the v4 state.
SyncBackup(p) ==
    /\ proc[p].pc = "syncdir" /\ proc[p].job = "backup"
    /\ survives' = [f \in Files |-> {visible[f]}]
    /\ proc' = [proc EXCEPT ![p] = [@ EXCEPT !.pc = "write", !.job = "migrate", !.synced = FALSE,
                                             !.new = NewV4(proc[p].old.source), !.confirmed = TRUE]]
    /\ warned' = FALSE
    /\ UNCHANGED <<visible, lock, writes, acked, outlived>>

\* The last write that is known to be durable.
Acked(p) == IF acked < proc[p].new.gen THEN proc[p].new.gen ELSE acked

\* syncDirectory succeeds after a replacement of state.json.
SyncState(p) ==
    /\ proc[p].pc = "syncdir" /\ proc[p].job # "backup"
    /\ survives' = [f \in Files |-> {visible[f]}]
    /\ acked' = Acked(p)
    /\ Return(p, TRUE)
    /\ warned' = FALSE
    /\ UNCHANGED <<visible, writes, outlived>>

\* Mutant: an unconfirmed backup does not stop the migration.
SyncBackupIgnored(p) ==
    /\ proc[p].pc = "syncdir" /\ proc[p].job = "backup"
    /\ proc' = [proc EXCEPT ![p] = [@ EXCEPT !.pc = "write", !.job = "migrate", !.synced = FALSE,
                                             !.new = NewV4(proc[p].old.source)]]
    /\ UNCHANGED <<visible, survives, lock, writes, acked, warned, outlived>>

\* syncDirectory fails after a backup: the migration is refused.
SyncBackupFails(p) ==
    /\ proc[p].pc = "syncdir" /\ proc[p].job = "backup"
    /\ Exit(p)
    /\ UNCHANGED <<visible, survives, writes, acked, warned, outlived>>

\* Mutant: the result of the directory synchronisation is ignored.
SyncStateIgnored(p) ==
    /\ proc[p].pc = "syncdir" /\ proc[p].job # "backup"
    /\ acked' = Acked(p)
    /\ Return(p, TRUE)
    /\ warned' = FALSE
    /\ UNCHANGED <<visible, survives, writes, outlived>>

\* Mutant: the warning of an earlier write is not recorded.
SyncStateUnrecorded(p) ==
    /\ proc[p].pc = "syncdir" /\ proc[p].job # "backup"
    /\ Return(p, proc[p].confirmed)
    /\ warned' = TRUE
    /\ UNCHANGED <<visible, survives, writes, acked, outlived>>

\* syncDirectory fails after a replacement of state.json: the write counts as
\* committed, with a warning.
SyncStateFails(p) ==
    /\ proc[p].pc = "syncdir" /\ proc[p].job # "backup"
    /\ Return(p, FALSE)
    /\ warned' = TRUE
    /\ UNCHANGED <<visible, survives, writes, acked, outlived>>

-----------------------------------------------------------------------------
\* The machine stops: every file holds one of the contents that may survive.
PowerLoss ==
    /\ visible' \in {v \in [Files -> UNION {survives[f] : f \in Files}] :
                       \A f \in Files : v[f] \in survives[f]}
    /\ survives' = [f \in Files |-> {visible'[f]}]
    /\ proc' = [p \in Procs |-> Off]
    /\ lock' = Nobody
    /\ warned' = FALSE /\ outlived' = FALSE
    /\ UNCHANGED <<writes, acked>>

ProcStep(p) ==
    \/ \E role \in {"server", "tool"} : Open(p, role)
    \/ BootServes(p) \/ BootLoadsV3(p) \/ CommitMigration(p)
    \/ Load(p) \/ Refuse(p) \/ Save(p) \/ CommitInitial(p) \/ RestoreV3Backup(p)
    \/ ReleaseLock(p) \/ Stop(p)
    \/ WriteTemporary(p) \/ SyncFile(p) \/ Rename(p) \/ WriteFails(p)
    \/ SyncBackup(p) \/ SyncBackupFails(p) \/ SyncState(p) \/ SyncStateFails(p)

Next == (\E p \in Procs : ProcStep(p)) \/ PowerLoss

Spec == Init /\ [][Next]_vars

-----------------------------------------------------------------------------
(* Properties.                                                             *)

\* Every variable keeps its type, and no write is numbered beyond MaxWrites.
TypeOK ==
    /\ visible \in [Files -> Contents]
    /\ survives \in [Files -> SUBSET Contents]
    /\ lock \in Procs \cup {Nobody}
    /\ proc \in [Procs -> Proc]
    /\ writes \in 0..MaxWrites /\ acked \in 0..MaxWrites
    /\ warned \in BOOLEAN /\ outlived \in BOOLEAN

\* state.json is never seen half written, neither by a reader at any moment
\* nor after a crash or a power loss at any step of atomicWriteContents: it
\* changes as one step of AtomicFile.
File == INSTANCE AtomicFile WITH
            Values <- {c \in Contents : c.version \in {"v3", "v4"}},
            Initial <- {Missing, OldState},
            current <- visible["state"],
            possible <- survives["state"]

FileSpec == File!Spec

\* A write reported with DurabilityConfirmed is never lost: neither a crash
\* nor a power loss brings back an older state.json, or none.
ConfirmedWriteSurvives ==
    \A c \in survives["state"] \cup {visible["state"]} : c.gen >= acked

\* A state.json migrated from v3 is never seen, not even after a power loss,
\* unless the v3 file it was migrated from is safe in the backup.
BackupBeforeMigration ==
    \A c \in survives["state"] \cup {visible["state"]} :
        c.version = "v4" /\ c.source # 0 =>
            \A b \in survives["backup"] \cup {visible["backup"]} :
                b.version = "v3" /\ b.source = c.source

\* Between reading state.json and replacing it.
Replacing == {"loaded", "editing", "write", "sync", "rename"}

\* Nobody replaces state.json between the moment a process reads it and the
\* moment that process replaces it, so that no change is overwritten.  This
\* holds over any sequence of starts, commands, crashes and power losses as
\* long as no server has given up its lock before its handlers ended: a handler
\* that outlives Shutdown may replace what a command has just written, which
\* docs/architecture.md:78 excludes without that condition.
NoLostUpdate ==
    ~outlived => \A p \in Procs : proc[p].pc \in Replacing => visible["state"] = proc[p].old

\* The state interface of a server that has written since it started reports
\* state_durability: confirmed only if state.json would survive a power loss;
\* as docs/architecture.md says, a failed directory synchronisation turns the
\* report to unconfirmed, and the next complete one turns it back.  Two servers
\* that write at once, one of them past its Shutdown, know nothing of each
\* other's synchronisations.
ReportedDurability ==
    \A p \in Procs :
        ~outlived /\ proc[p].pc \in {"serving", "editing"} /\ proc[p].wrote =>
            /\ proc[p].confirmed => survives["state"] = {visible["state"]}
            /\ proc[p].confirmed = ~warned
=============================================================================
