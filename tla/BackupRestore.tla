---------------------------- MODULE BackupRestore ----------------------------
(***************************************************************************)
(* Backups under the directory lock, retention, the temp-directory cleanup *)
(* and a restore (app/services/maintenance.py).                            *)
(*                                                                         *)
(* The web process and the maintenance command run the same code over one  *)
(* set of directories.  The content of the database and of the uploads is  *)
(* a version number; uploads that are gone are version Nothing.            *)
(***************************************************************************)
EXTENDS Naturals, FiniteSets

CONSTANTS
    Procs,       \* processes that make backups
    Restorer,    \* the one of them that also restores
    Retention,   \* BACKUP_RETENTION
    LastStamp,   \* bound: backups are named 1..LastStamp in time order
    MaxFaults    \* bound: failures and deaths in one behaviour

VARIABLES
    live,     \* the database and the uploads directory
    shelf,    \* the backup directories, by stamp
    clock,    \* the stamp of the next backup
    lock,     \* who made the lock directory, or Free
    oldLock,  \* the lock directory is older than the stale limit
    proc,     \* where each process stands
    rest,     \* the restore's temp directories and what it must deliver
    faults,   \* failures and deaths so far
    note      \* history: "death", "together", "double", "cleanedStaged", "cleanedSaved", "snapMid"

backupVars == <<live, shelf, clock, lock, oldLock, proc, rest, faults, note>>

Nothing == 0
Versions == 1..2
Free == "free"
Dead == "dead"      \* a lock whose owner is no longer alive
Stamps == 1..LastStamp

ASSUME BackupAssumption ==
    /\ Restorer \in Procs /\ Procs \cap {Free, Dead} = {}
    /\ Retention \in Nat \ {0} /\ LastStamp \in Nat \ {0} /\ MaxFaults \in Nat

NoBackup == [st |-> "none", db |-> Nothing, up |-> Nothing, aged |-> FALSE]
IdleProc == [pc |-> "idle", stamp |-> 0, db |-> Nothing, up |-> Nothing, todo |-> {}]
NoRestore == [on |-> FALSE, staged |-> FALSE, aged |-> FALSE, from |-> [db |-> Nothing, up |-> Nothing],
              saved |-> Nothing, savedAged |-> FALSE, safety |-> 0,
              was |-> [db |-> Nothing, up |-> Nothing]]

Valid == {b \in Stamps : shelf[b].st = "valid"}

\* Two good backups of different times, the older one more than a day old.
BackupInit ==
    /\ live = [db |-> 2, up |-> 2, aged |-> FALSE]
    /\ shelf = [b \in Stamps |->
           CASE b = 1 -> [st |-> "valid", db |-> 1, up |-> 1, aged |-> TRUE]
             [] b = 2 -> [st |-> "valid", db |-> 2, up |-> 2, aged |-> FALSE]
             [] OTHER -> NoBackup]
    /\ clock = 3 /\ lock = Free /\ oldLock = FALSE
    /\ proc = [p \in Procs |-> IdleProc]
    /\ rest = NoRestore /\ faults = 0 /\ note = {}

At(p, pc) == proc[p].pc = pc
StepTo(p, pc) == proc' = [proc EXCEPT ![p].pc = pc]
\* The processes inside backup_lock.
Inside == {p \in Procs : proc[p].pc \in {"copyDb", "copyUp", "publish", "list", "prune", "leave"}}
\* A process enters while another is inside.
Together == note' = note \cup IF Inside = {} THEN {} ELSE {"together"}
Restoring == rest.on
\* A restore whose safety backup fails is over before it touched anything.
GivenUp(p) == IF Restoring /\ p = Restorer THEN NoRestore ELSE rest
\* Only the order of the names matters: a stamp nobody used is handed out again.
ClockWithout(p) == IF proc[p].stamp + 1 = clock THEN proc[p].stamp ELSE clock

------------------------------------------------------------------------------
\* backup_due or the command line; the stamp is taken before the lock.
BackupBegin(p) ==
    /\ At(p, "idle") \/ At(p, "safety")
    /\ clock \in Stamps
    /\ proc' = [proc EXCEPT ![p] = [IdleProc EXCEPT !.pc = "begun", !.stamp = clock]]
    /\ clock' = clock + 1
    /\ UNCHANGED <<live, shelf, lock, oldLock, rest, faults, note>>

\* backup_lock: the directory is made at once.
LockTake(p) ==
    /\ At(p, "begun") /\ lock = Free
    /\ lock' = p /\ oldLock' = FALSE
    /\ StepTo(p, "copyDb") /\ Together
    /\ UNCHANGED <<live, shelf, clock, rest, faults>>

\* BackupBusy: the restore, which takes its safety backup first, gives up too.
LockBusy(p) ==
    /\ At(p, "begun") /\ lock # Free /\ ~(oldLock /\ lock = Dead)
    /\ StepTo(p, "idle")
    /\ rest' = GivenUp(p) /\ clock' = ClockWithout(p)
    /\ UNCHANGED <<live, shelf, lock, oldLock, faults, note>>

\* Faulty variant: an old lock is stale even while its owner works.
LockJudgeByAge(p) ==
    /\ At(p, "begun") /\ lock # Free /\ oldLock
    /\ StepTo(p, "recover")
    /\ UNCHANGED <<live, shelf, clock, lock, oldLock, rest, faults, note>>

\* Faulty variant: a stale lock is never taken over.
LockJudgeNever(p) == FALSE /\ At(p, "begun") /\ UNCHANGED backupVars

\* The lock is judged stale: old, and its owner is not alive.
LockJudge(p) ==
    /\ At(p, "begun") /\ lock = Dead /\ oldLock
    /\ StepTo(p, "recover")
    /\ UNCHANGED <<live, shelf, clock, lock, oldLock, rest, faults, note>>

\* rmtree and mkdir: whatever lock is there by now is removed; one that is gone
\* already makes rmtree fail.
LockRecover(p) ==
    /\ At(p, "recover")
    /\ IF lock = Free
       THEN /\ StepTo(p, "idle") /\ rest' = GivenUp(p) /\ clock' = ClockWithout(p)
            /\ UNCHANGED <<lock, note>>
       ELSE /\ lock' = p /\ StepTo(p, "copyDb") /\ Together
            /\ UNCHANGED <<rest, clock>>
    /\ oldLock' = FALSE
    /\ UNCHANGED <<live, shelf, faults>>

CopyDatabase(p) ==
    /\ At(p, "copyDb")
    /\ proc' = [proc EXCEPT ![p].pc = "copyUp", ![p].db = live.db]
    /\ UNCHANGED <<live, shelf, clock, lock, oldLock, rest, faults, note>>

\* _copy_uploads; no uploads directory copies as none.
CopyUploads(p) ==
    /\ At(p, "copyUp")
    /\ proc' = [proc EXCEPT ![p].pc = "publish", ![p].up = live.up]
    /\ note' = note \cup IF live.up = Nothing THEN {"snapMid"} ELSE {}
    /\ UNCHANGED <<live, shelf, clock, lock, oldLock, rest, faults>>

\* The staging directory is validated and renamed into place, then validated again.
Publish(p) ==
    /\ At(p, "publish")
    /\ shelf' = [shelf EXCEPT ![proc[p].stamp] =
           [st |-> "valid", db |-> proc[p].db, up |-> proc[p].up, aged |-> FALSE]]
    /\ StepTo(p, "list")
    /\ UNCHANGED <<live, clock, lock, oldLock, rest, faults, note>>

\* _prune_after_success: valid[:-retention], in name order.
PruneList(p) ==
    /\ At(p, "list")
    /\ proc' = [proc EXCEPT ![p].pc = "prune", ![p].todo =
           {b \in Valid : Cardinality({c \in Valid : c > b}) >= Retention}]
    /\ UNCHANGED <<live, shelf, clock, lock, oldLock, rest, faults, note>>

Oldest(p) == {b \in proc[p].todo : \A c \in proc[p].todo : b <= c}

\* One rmtree, oldest first.
PruneOne(p) ==
    /\ At(p, "prune")
    /\ \E b \in Oldest(p) :
        /\ shelf[b].st # "none"
        /\ shelf' = [shelf EXCEPT ![b] = NoBackup]
        /\ proc' = [proc EXCEPT ![p].todo = @ \ {b}]
    /\ UNCHANGED <<live, clock, lock, oldLock, rest, faults, note>>

PruneEnd(p) ==
    /\ At(p, "prune") /\ proc[p].todo = {}
    /\ StepTo(p, "leave")
    /\ UNCHANGED <<live, shelf, clock, lock, oldLock, rest, faults, note>>

\* The finally clause removes the lock directory, whoever made it.
Leave(p) ==
    /\ At(p, "leave")
    /\ lock' = Free /\ oldLock' = FALSE
    /\ IF Restoring /\ p = Restorer
       THEN proc' = [proc EXCEPT ![p] = [IdleProc EXCEPT !.pc = "restoreDb"]]
            /\ rest' = [rest EXCEPT !.safety = proc[p].stamp]
       ELSE proc' = [proc EXCEPT ![p] = IdleProc] /\ UNCHANGED rest
    /\ UNCHANGED <<live, shelf, clock, faults, note>>

\* A failing step of create_backup: the published backup is withdrawn, the lock
\* directory removed.  A failing rmtree leaves a backup that no longer validates;
\* an rmtree of what another process has just removed fails by itself.
BackupFails(p) ==
    /\ p \in Inside /\ ~At(p, "leave")
    /\ \E removing \in SUBSET Oldest(p) :
        LET gone == \E b \in Oldest(p) : shelf[b].st = "none" IN
        /\ gone \/ faults < MaxFaults
        /\ faults' = IF gone THEN faults ELSE faults + 1
        /\ shelf' = [b \in Stamps |->
               CASE b = proc[p].stamp -> NoBackup
                 [] b # proc[p].stamp /\ b \in removing /\ shelf[b].st = "valid" ->
                        [shelf[b] EXCEPT !.st = "broken"]
                 [] OTHER -> shelf[b]]
    /\ lock' = Free /\ oldLock' = FALSE
    /\ rest' = GivenUp(p)
    /\ proc' = [proc EXCEPT ![p] = IdleProc]
    /\ clock' = ClockWithout(p)
    /\ UNCHANGED <<live, note>>

\* The process dies; its lock and temp directories stay.
BackupDies(p) ==
    /\ p \in Inside /\ faults < MaxFaults
    /\ faults' = faults + 1
    /\ lock' = IF lock = p THEN Dead ELSE lock
    /\ proc' = [proc EXCEPT ![p] = IdleProc]
    /\ rest' = GivenUp(p)
    /\ note' = note \cup {"death"}
    /\ UNCHANGED <<live, shelf, clock, oldLock>>

------------------------------------------------------------------------------
\* restore_backup: the source is validated and copied to a temp directory, which
\* keeps the source's modification time (copytree copies it).  Bound: what a dead
\* restore left behind is cleaned up first.
RestoreBegin(b) ==
    /\ At(Restorer, "idle") /\ ~Restoring /\ rest.saved = Nothing
    /\ b \in Valid
    /\ rest' = [NoRestore EXCEPT !.on = TRUE, !.staged = TRUE, !.aged = shelf[b].aged,
                    !.from = [db |-> shelf[b].db, up |-> shelf[b].up],
                    !.was = [db |-> live.db, up |-> live.up]]
    /\ StepTo(Restorer, "safety")
    /\ UNCHANGED <<live, shelf, clock, lock, oldLock, faults, note>>

\* source.backup(live) and the check after it.
RestoreDatabase ==
    /\ At(Restorer, "restoreDb") /\ rest.staged
    /\ live' = [live EXCEPT !.db = rest.from.db]
    /\ StepTo(Restorer, "moveUp")
    /\ UNCHANGED <<shelf, clock, lock, oldLock, rest, faults, note>>

\* os.replace(upload_root, old_uploads): a rename keeps the modification time.
MoveUploads ==
    /\ At(Restorer, "moveUp")
    /\ rest' = [rest EXCEPT !.saved = live.up, !.savedAged = live.aged]
    /\ live' = [live EXCEPT !.up = Nothing, !.aged = FALSE]
    /\ StepTo(Restorer, "fillUp")
    /\ UNCHANGED <<shelf, clock, lock, oldLock, faults, note>>

\* Faulty variant: the uploads of the backup are not copied back.
FillUploadsFromSaved ==
    /\ At(Restorer, "fillUp")
    /\ live' = [live EXCEPT !.up = rest.saved]
    /\ StepTo(Restorer, "restored")
    /\ UNCHANGED <<shelf, clock, lock, oldLock, rest, faults, note>>

\* The staged uploads are copied; if they are not there, an empty directory is made.
FillUploads ==
    /\ At(Restorer, "fillUp")
    /\ live' = [live EXCEPT !.up = IF rest.staged THEN rest.from.up ELSE Nothing,
                    !.aged = rest.staged /\ rest.aged]
    /\ StepTo(Restorer, "restored")
    /\ UNCHANGED <<shelf, clock, lock, oldLock, rest, faults, note>>

\* Any step of the restore fails; without the staged copy the database step does.
RestoreFails ==
    /\ proc[Restorer].pc \in {"restoreDb", "moveUp", "fillUp"}
    /\ LET missing == At(Restorer, "restoreDb") /\ ~rest.staged IN
        /\ missing \/ faults < MaxFaults
        /\ faults' = IF missing THEN faults ELSE faults + 1
    /\ StepTo(Restorer, "undo")
    /\ UNCHANGED <<live, shelf, clock, lock, oldLock, rest, note>>

\* The safety backup's database and the uploads that were moved aside return.
Undo ==
    /\ At(Restorer, "undo") /\ rest.safety \in Valid
    /\ live' = [live EXCEPT !.db = shelf[rest.safety].db,
                    !.up = IF rest.saved # Nothing THEN rest.saved ELSE @,
                    !.aged = IF rest.saved # Nothing THEN rest.savedAged ELSE @]
    /\ rest' = [rest EXCEPT !.saved = Nothing]
    /\ StepTo(Restorer, "recovered")
    /\ UNCHANGED <<shelf, clock, lock, oldLock, faults, note>>

\* The recovery fails too; the finally clause removes the old uploads.
UndoFails ==
    /\ At(Restorer, "undo")
    /\ rest.safety \notin Valid \/ faults < MaxFaults
    /\ faults' = IF rest.safety \in Valid THEN faults + 1 ELSE faults
    /\ StepTo(Restorer, "failed")
    /\ note' = note \cup {"double"}
    /\ UNCHANGED <<live, shelf, clock, lock, oldLock, rest>>

\* The answer; the temp directories are removed.
RestoreAnswer ==
    /\ proc[Restorer].pc \in {"restored", "recovered", "failed"}
    /\ rest' = NoRestore
    /\ proc' = [proc EXCEPT ![Restorer] = IdleProc]
    /\ UNCHANGED <<live, shelf, clock, lock, oldLock, faults, note>>

\* The restoring process dies: what was moved aside stays in the temp root.
RestoreDies ==
    /\ proc[Restorer].pc \in {"restoreDb", "moveUp", "fillUp", "undo"} /\ faults < MaxFaults
    /\ faults' = faults + 1
    /\ proc' = [proc EXCEPT ![Restorer] = IdleProc]
    /\ rest' = [rest EXCEPT !.on = FALSE]
    /\ note' = note \cup {"death"}
    /\ UNCHANGED <<live, shelf, clock, lock, oldLock>>

\* cleanup_owned_temp, in each round of the scheduler: temp directories whose
\* modification time is a day old, in use or not.
CleanTemp ==
    \/ /\ rest.staged /\ rest.aged
       /\ rest' = [rest EXCEPT !.staged = FALSE]
       /\ note' = note \cup {"cleanedStaged"}
       /\ UNCHANGED <<live, shelf, clock, lock, oldLock, proc, faults>>
    \/ /\ rest.saved # Nothing /\ rest.savedAged
       /\ rest' = [rest EXCEPT !.saved = Nothing]
       /\ note' = note \cup {"cleanedSaved"}
       /\ UNCHANGED <<live, shelf, clock, lock, oldLock, proc, faults>>

\* Users change rows and files, outside the maintenance window.
UserWrites ==
    /\ ~Restoring
    /\ live' = [db |-> 2, up |-> 2, aged |-> FALSE]
    /\ UNCHANGED <<shelf, clock, lock, oldLock, proc, rest, faults, note>>

\* BACKUP_LOCK_STALE_SECONDS pass, under a live owner or a dead one.
LockAges ==
    /\ lock # Free /\ ~oldLock
    /\ oldLock' = TRUE
    /\ UNCHANGED <<live, shelf, clock, lock, proc, rest, faults, note>>

\* A day passes while nothing runs (bound: not during a restore).
DayPasses ==
    /\ ~Restoring /\ Inside = {}
    /\ live' = [live EXCEPT !.aged = TRUE]
    /\ shelf' = [b \in Stamps |-> [shelf[b] EXCEPT !.aged = @ \/ shelf[b].st # "none"]]
    /\ rest' = [rest EXCEPT !.savedAged = rest.saved # Nothing, !.aged = rest.staged]
    /\ UNCHANGED <<clock, lock, oldLock, proc, faults, note>>

BackupStep(p) ==
    LockTake(p) \/ LockBusy(p) \/ LockJudge(p) \/ LockRecover(p) \/ CopyDatabase(p)
    \/ CopyUploads(p) \/ Publish(p) \/ PruneList(p) \/ PruneOne(p) \/ PruneEnd(p)
    \/ Leave(p) \/ BackupFails(p)

RestoreStep ==
    (\E b \in Stamps : RestoreBegin(b)) \/ RestoreDatabase \/ MoveUploads \/ FillUploads
    \/ RestoreFails \/ Undo \/ UndoFails \/ RestoreAnswer \/ RestoreDies

BackupNext ==
    \/ \E p \in Procs : BackupBegin(p) \/ BackupStep(p) \/ BackupDies(p)
    \/ RestoreStep \/ CleanTemp \/ UserWrites \/ LockAges \/ DayPasses

\* The schedulers poll for ever, a process that has begun goes on, time passes.
BackupFairness ==
    /\ WF_backupVars(LockAges)
    /\ \A p \in Procs : WF_backupVars(BackupBegin(p)) /\ WF_backupVars(BackupStep(p))

BackupSpec == BackupInit /\ [][BackupNext]_backupVars /\ BackupFairness

------------------------------------------------------------------------------
\* Two processes are inside the lock only after one died holding it, however long
\* a backup takes and whoever removes the directory (maintenance.py:85-121).
ExclusiveUnlessDeath == Cardinality(Inside) >= 2 => "death" \in note

\* There is always a good backup: a retention of two or more and a withdrawn backup
\* never remove the last one between them, even when they fail half-way or die, unless
\* two processes were inside the lock together (maintenance.py:216-293).
\* A restore that answers "ok" delivered the backup's database and uploads, and one
\* that answers "recovered" put both back, unless the cleanup of a scheduler took
\* a directory of the running restore (maintenance.py:347-411).  The uploads are gone
\* only after a restore and its recovery both failed, after such a cleanup, or when a
\* backup was taken while a restore had moved them away; a death alone leaves them in
\* the temp root.
RestoreHonest ==
    /\ Retention >= 2 /\ "together" \notin note => Valid # {}
    /\ At(Restorer, "restored") /\ "cleanedStaged" \notin note
           => live.db = rest.from.db /\ live.up = rest.from.up
    /\ At(Restorer, "recovered") /\ "cleanedSaved" \notin note
           => live.db = rest.was.db /\ live.up = rest.was.up
    /\ live.up = Nothing /\ ~Restoring =>
           \/ rest.saved # Nothing
           \/ note \cap {"double", "cleanedStaged", "cleanedSaved", "snapMid"} # {}

\* The lock of a dead process does not stop the backups for good, as long as a new
\* one may begin (clock is within its bound).
LockRecovered == (lock = Dead /\ clock \in Stamps) ~> (lock # Dead)
=============================================================================
