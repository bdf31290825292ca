------------------------------ MODULE MCLocks ------------------------------
(* The two locks: the row that guards the wipe, with a finite set of          *)
(* requests, and the directory that guards the backups.  They share no state: *)
(* a behaviour exercises one.                                                 *)
EXTENDS SystemLock, BackupRestore

VARIABLE which    \* the one this behaviour exercises

LocksInit == Init /\ BackupInit /\ which \in {"row", "directory"}

LocksNext ==
    /\ which' = which
    /\ \/ which = "row" /\ Next /\ UNCHANGED backupVars
       \/ which = "directory" /\ BackupNext /\ UNCHANGED vars

\* The fairness of both, where only a behaviour of the directory can begin a backup.
LocksFairness ==
    /\ WF_vars(Expire) /\ WF_backupVars(LockAges)
    /\ \A r \in Requests : WF_vars(Proceed(r))
    /\ \A p \in Procs : /\ WF_backupVars(which = "directory" /\ BackupBegin(p))
                        /\ WF_backupVars(BackupStep(p))

LocksSpec == LocksInit /\ [][LocksNext]_<<vars, backupVars, which>> /\ LocksFairness

\* Backups are followed until the second event that may excuse them.
Followed == Cardinality(note) <= 1
=============================================================================
