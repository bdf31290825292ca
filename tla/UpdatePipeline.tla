--------------------------- MODULE UpdatePipeline ---------------------------
(***************************************************************************)
(* The database update pipeline: UpdatePipeline.run and its steps          *)
(* (app/services/dbupdate/runner.py), the migration ledger (ledger.py) and *)
(* the revision states (migrations.py).  It runs at the start of every     *)
(* worker and from the command line; no lock keeps two runs apart.         *)
(*                                                                         *)
(* A revision's upgrade, the schema version and the ledger row are three   *)
(* commits.  Every step may fail and the process may die between any two.  *)
(***************************************************************************)
EXTENDS Integers, FiniteSets, FiniteSetsExt

CONSTANTS
    Runs,       \* processes that run the pipeline in apply mode
    N,          \* number of revisions; 1..N is the order sort_revisions gives them
    Breakable,  \* revisions a deployed release may get wrong
    Undoable,   \* revisions that declare undo()
    Overlap,    \* runs may overlap
    MaxFaults   \* bound on failing steps and dying processes

ASSUME RevisionAssumption == N \in Nat /\ Breakable \subseteq 1..N /\ Undoable \subseteq 1..N
ASSUME BoundAssumption == MaxFaults \in Nat /\ Overlap \in BOOLEAN

VARIABLES
    policy,   \* the policy of the installation: backup required, legacy chain permitted
    broken,   \* revisions that need attention: lint, kind, checksum, dependency
    drift,    \* the schema lacks objects that no revision creates
    applied,  \* how often each revision's upgrade has been committed and not undone
    partial,  \* revisions whose failed upgrade may have left objects behind
    ledger,   \* ams_schema_migration: status of each revision
    version,  \* PRAGMA user_version
    run,      \* where each process stands
    faults,   \* how many faults have happened
    lost      \* history: revisions whose application the ledger or its reader lost

db == <<drift, applied, partial, ledger, version>>
code == <<policy, broken>>
vars == <<code, db, run, faults, lost>>

Revisions == 1..N
Off == [at |-> "off", todo |-> {}, stopped |-> FALSE, backup |-> "none", verdict |-> "none"]

Init ==
    /\ policy \in [backup : BOOLEAN, legacy : BOOLEAN]
    /\ broken \in SUBSET Breakable
    /\ drift \in BOOLEAN
    /\ applied = [r \in Revisions |-> 0]
    /\ partial = {}
    /\ ledger = [r \in Revisions |-> "none"]
    /\ version = 0
    /\ run = [p \in Runs |-> Off]
    /\ faults = 0
    /\ lost = {}

Current(p) == Min(run[p].todo)
Goto(p, at) == run' = [run EXCEPT ![p].at = at]
\* _block: the run goes on to its report, dependent steps see stopped.
Block(p, at) == run' = [run EXCEPT ![p].at = at, ![p].stopped = TRUE]
Fault == faults < MaxFaults /\ faults' = faults + 1

------------------------------------------------------------------------------
\* A release is deployed between two runs: revision files break or are mended.
Deploy ==
    /\ \A p \in Runs : run[p].at = "off"
    /\ broken' \in SUBSET Breakable
    /\ UNCHANGED <<policy, db, run, faults, lost>>

\* A process starts the pipeline.
Start(p) ==
    /\ run[p].at = "off"
    /\ Overlap \/ \A q \in Runs : run[q].at = "off"
    /\ run' = [run EXCEPT ![p] = [Off EXCEPT !.at = "ledger"]]
    /\ UNCHANGED <<code, db, faults, lost>>

\* _step_ledger: the ledger table is there, or the run is blocked and goes on.
EnsureLedger(p) ==
    /\ run[p].at = "ledger"
    /\ \/ Goto(p, "collect") /\ UNCHANGED faults
       \/ Fault /\ Block(p, "collect")
    /\ UNCHANGED <<code, db, lost>>

\* Faulty variant: a row of any status counts as applied.
AppliedAnyStatus == {r \in Revisions : ledger[r] # "none"}

\* applied_revisions.
AppliedRevisions == {r \in Revisions : ledger[r] = "APPLIED"}

\* The steps from detect_requirements to dependencies: what is pending, and
\* what stops the run (drift nobody may close, revisions that need attention).
Collected(p, known) ==
    run' = [run EXCEPT ![p].at = "backup",
                       ![p].todo = (Revisions \ known) \ broken,
                       ![p].stopped = @ \/ broken # {} \/ (drift /\ ~policy.legacy)]

Collect(p) ==
    /\ run[p].at = "collect"
    /\ Collected(p, AppliedRevisions)
    /\ UNCHANGED <<code, db, faults, lost>>

\* applied_revisions swallows a failing SELECT and returns nothing: every
\* revision is pending again.
CollectUnread(p) ==
    /\ run[p].at = "collect" /\ Fault
    /\ Collected(p, {})
    /\ lost' = lost \cup AppliedRevisions
    /\ UNCHANGED <<code, db>>

\* _step_backup: only if something will change; a refused or unvalidated
\* backup blocks where the policy requires one, any other exception always.
Backup(p) ==
    /\ run[p].at = "backup"
    /\ \/ /\ run[p].todo = {} /\ ~drift
          /\ run' = [run EXCEPT ![p].at = "baseline", ![p].backup = "SKIPPED"]
          /\ UNCHANGED faults
       \/ /\ run[p].todo # {} \/ drift
          /\ run' = [run EXCEPT ![p].at = "baseline", ![p].backup = "PASS"]
          /\ UNCHANGED faults
       \/ /\ (run[p].todo # {} \/ drift) /\ Fault
          /\ \E always \in BOOLEAN :
               run' = [run EXCEPT ![p].at = "baseline", ![p].backup = "FAIL",
                                  ![p].stopped = @ \/ always \/ policy.backup]
    /\ UNCHANGED <<code, db, lost>>

\* _step_baseline: create_all and the ensure-chain, whatever stopped says.  A
\* failing chain only warns; a ledger row that cannot be written ends the run.
Baseline(p) ==
    /\ run[p].at = "baseline"
    /\ IF ~policy.legacy
       THEN Goto(p, "apply") /\ UNCHANGED <<drift, faults>>
       ELSE \/ /\ drift' = FALSE
               /\ Goto(p, "apply") /\ UNCHANGED faults
            \/ Fault /\ Goto(p, "apply") /\ UNCHANGED <<drift>>
            \/ /\ drift' = FALSE
               /\ Fault /\ Block(p, "finish")
    /\ UNCHANGED <<code, applied, partial, ledger, version, lost>>

\* _step_apply_migrations, nothing left to apply or the run is stopped.
ApplyDone(p) ==
    /\ run[p].at = "apply" /\ (run[p].stopped \/ run[p].todo = {})
    /\ Goto(p, "verify")
    /\ UNCHANGED <<code, db, faults, lost>>

\* _apply_one: the upgrade of the next revision, its verification, the commit.
Upgrade(p) ==
    /\ run[p].at = "apply" /\ ~run[p].stopped /\ run[p].todo # {}
    /\ applied' = [applied EXCEPT ![Current(p)] = @ + 1]
    /\ partial' = partial \ {Current(p)}
    /\ Goto(p, "committed")
    /\ UNCHANGED <<code, drift, ledger, version, faults, lost>>

\* The upgrade or its verification raises: ROLLBACK, which may leave the
\* objects that DDL had created.
UpgradeFails(p) ==
    /\ run[p].at = "apply" /\ ~run[p].stopped /\ run[p].todo # {} /\ Fault
    /\ partial' \in {partial, partial \cup {Current(p)}}
    /\ Goto(p, "undo")
    /\ UNCHANGED <<code, drift, applied, ledger, version, lost>>

\* undo(connection), where it is declared; it takes away whatever the revision
\* made, an earlier application included, or fails and is logged.
Undo(p) ==
    /\ run[p].at = "undo"
    /\ \/ /\ Current(p) \in Undoable
          /\ partial' = partial \ {Current(p)}
          /\ applied' = [applied EXCEPT ![Current(p)] = 0]
          /\ UNCHANGED faults
       \/ /\ Current(p) \notin Undoable
          /\ UNCHANGED <<partial, applied, faults>>
       \/ /\ Current(p) \in Undoable /\ Fault
          /\ UNCHANGED <<partial, applied>>
    /\ Goto(p, "failed")
    /\ UNCHANGED <<code, drift, ledger, version, lost>>

\* The FAILED row replaces whatever the ledger said; the loop breaks.
RecordFailed(p) ==
    /\ run[p].at = "failed"
    /\ \/ /\ ledger' = [ledger EXCEPT ![Current(p)] = "FAILED"]
          /\ Block(p, "verify") /\ UNCHANGED faults
       \/ Fault /\ Block(p, "finish") /\ UNCHANGED ledger
    /\ UNCHANGED <<code, drift, applied, partial, version, lost>>

\* _next_schema_version counts what is applied and what is still pending.
WriteVersion(p) ==
    /\ run[p].at = "committed"
    /\ \/ version' = Max({N - Cardinality(broken), 1}) /\ UNCHANGED faults
       \/ Fault /\ UNCHANGED version
    /\ Goto(p, "versioned")
    /\ UNCHANGED <<code, drift, applied, partial, ledger, lost>>

\* Faulty variant: a ledger row that cannot be written is passed over.
RecordAppliedSwallowed(p) ==
    /\ run[p].at = "versioned"
    /\ \/ ledger' = [ledger EXCEPT ![Current(p)] = "APPLIED"] /\ UNCHANGED faults
       \/ Fault /\ UNCHANGED ledger
    /\ run' = [run EXCEPT ![p].at = "apply", ![p].todo = @ \ {Current(p)}]
    /\ UNCHANGED <<code, drift, applied, partial, version, lost>>

\* LEDGER.record of the applied revision, the last of the three commits.
RecordApplied(p) ==
    /\ run[p].at = "versioned"
    /\ \/ /\ ledger' = [ledger EXCEPT ![Current(p)] = "APPLIED"]
          /\ run' = [run EXCEPT ![p].at = "apply", ![p].todo = @ \ {Current(p)}]
          /\ UNCHANGED <<faults, lost>>
       \/ /\ Fault /\ Block(p, "finish")
          /\ lost' = lost \cup {Current(p)}
          /\ UNCHANGED ledger
    /\ UNCHANGED <<code, drift, applied, partial, version>>

\* Faulty variant: remaining drift is only reported.
VerifyReportOnly(p) ==
    /\ run[p].at = "verify"
    /\ Goto(p, "finish")
    /\ UNCHANGED <<code, db, faults, lost>>

\* The steps from verify_schema to regression: remaining drift blocks, and so
\* does any failing check.
Verify(p) ==
    /\ run[p].at = "verify"
    /\ \/ ~drift /\ Goto(p, "finish") /\ UNCHANGED faults
       \/ drift /\ Block(p, "finish") /\ UNCHANGED faults
       \/ Fault /\ Block(p, "finish")
    /\ UNCHANGED <<code, db, lost>>

\* _finish: the verdict.
Finish(p) ==
    /\ run[p].at = "finish"
    /\ run' = [run EXCEPT ![p] =
                 [Off EXCEPT !.verdict = IF run[p].stopped THEN "ATTENTION" ELSE "READY"]]
    /\ UNCHANGED <<code, db, faults, lost>>

\* The process dies; a revision it had committed and not recorded is lost.
Crash(p) ==
    /\ run[p].at # "off" /\ Fault
    /\ lost' = IF run[p].at \in {"committed", "versioned"}
               THEN lost \cup {Current(p)} ELSE lost
    /\ run' = [run EXCEPT ![p] = Off]
    /\ UNCHANGED <<code, db>>

Proceed(p) ==
    \/ Start(p) \/ EnsureLedger(p) \/ Collect(p) \/ Backup(p) \/ Baseline(p)
    \/ ApplyDone(p) \/ Upgrade(p) \/ Undo(p) \/ RecordFailed(p)
    \/ WriteVersion(p) \/ RecordApplied(p) \/ Verify(p) \/ Finish(p)

Next ==
    \/ \E p \in Runs : Proceed(p) \/ CollectUnread(p) \/ UpgradeFails(p) \/ Crash(p)
    \/ Deploy

\* A run is one thread, and every restart of the application starts another.
Spec == Init /\ [][Next]_vars
FairSpec == Spec /\ \A p \in Runs : WF_vars(Proceed(p))

------------------------------------------------------------------------------
Quiet == \A p \in Runs : run[p].at = "off"

\* Between runs the ledger is the truth: unless a death, an unwritten row or an
\* unread ledger lost it, a revision is recorded as applied exactly if its
\* upgrade is in the database, once.  A revision runs only on top of all revisions
\* before it, through failures, restarts and half-finished runs, as long as no
\* application was lost (runner.py:566-690, ledger.py:241).  And a run about to report
\* READY leaves nothing to do: every revision recorded, the schema without drift.
LedgerExact ==
    /\ Quiet => \A r \in Revisions \ lost :
                 applied[r] = (IF ledger[r] = "APPLIED" THEN 1 ELSE 0)
    /\ lost = {} => \A r \in Revisions : applied[r] > 0 =>
                     \A q \in 1..(r - 1) : applied[q] > 0
    /\ \A p \in Runs : run[p].at = "finish" /\ ~run[p].stopped =>
                     (\A r \in Revisions : ledger[r] = "APPLIED") /\ ~drift

\* Once faults cease and the releases carry no broken revision, restarting
\* brings the database up to date for good, if the policy may close the drift.
Converges ==
    (drift => policy.legacy) /\ <>[](broken = {})
        => <>[]((\A r \in Revisions : ledger[r] = "APPLIED") /\ ~drift)
=============================================================================
