----------------------------- MODULE GitDeploy -----------------------------
(***************************************************************************)
(* A deployment or a code rollback from git, run inside the web process    *)
(* while the application serves requests (deploy/deployer.py).             *)
(*                                                                         *)
(* The deploy lock is a lock of one process: runs of different processes   *)
(* share the working tree and the preserve directory.  The database file   *)
(* is not tracked by git, so a reset leaves it alone.  Both copies, aside  *)
(* and back, go file by file, and nothing keeps users from writing.        *)
(***************************************************************************)
EXTENDS Naturals, FiniteSets

CONSTANTS
    Runners,      \* processes that may deploy or roll back
    LastCommit,   \* the branch is commits 1..LastCommit
    MaxWrites     \* bound on the committed writes of users

VARIABLES
    remote,   \* the branch at the remote
    ref,      \* the remote-tracking branch, as last fetched
    head,     \* the commit checked out
    data,     \* the committed writes the live database holds
    whole,    \* the live database is not torn: its files belong together
    written,  \* how many writes users have committed
    keep,     \* the preserve directory: the writes it holds, or Absent
    keepWhole,\* the preserve directory holds the whole of a whole database
    record,   \* the last entry of .deploy_state.json
    run,      \* where each process stands
    before,   \* history: the commit the last deployment replaced
    happened  \* history: "overlap", "unrecorded"; "crossed": a user wrote during a copy;
              \* "torn": a copy back stopped midway

deployVars ==
    <<remote, ref, head, data, whole, written, keep, keepWhole, record, run, before, happened>>

Commits == 1..LastCommit
Writes == 1..MaxWrites
Absent == {0}
NoRecord == [prev |-> 0, dep |-> 0]
\* ok: no git command has failed
IdleRun == [pc |-> "idle", kind |-> "deploy", prev |-> 0, start |-> {}, ok |-> TRUE]

DeployInit ==
    /\ remote = 1 /\ ref = 1 /\ head = 1
    /\ data = {} /\ whole = TRUE /\ written = 0 /\ record = NoRecord
    /\ keep = Absent /\ keepWhole = FALSE
    /\ run = [r \in Runners |-> IdleRun]
    /\ before = 0 /\ happened = {}

RunAt(r, pc) == run[r].pc = pc
RunTo(r, pc) == run' = [run EXCEPT ![r].pc = pc]
Ended(r) == run' = [run EXCEPT ![r] = IdleRun]
Running == {r \in Runners : run[r].pc # "idle"}
Synced(r) == run[r].ok /\ run[r].pc \in {"putback", "putting", "validate", "record"}

\* The writes that each copy of the database holds for certain.
Live == IF whole THEN data ELSE {}
Preserved == IF keepWhole THEN keep ELSE {}

\* The copy back is over, well or not: its failure is only logged.
AfterCopy(r) == IF run[r].ok THEN RunTo(r, "validate") ELSE Ended(r)

------------------------------------------------------------------------------
Push ==
    /\ remote < LastCommit /\ remote' = remote + 1
    /\ UNCHANGED <<ref, head, data, whole, written, keep, keepWhole, record, run, before, happened>>

\* A user's request commits; the application serves during a deployment.
UserCommits ==
    /\ written < MaxWrites
    /\ written' = written + 1 /\ data' = data \cup {written + 1}
    /\ happened' = happened \cup IF \E r \in Runners : run[r].pc \in {"copying", "putting"}
                                THEN {"crossed"} ELSE {}
    /\ UNCHANGED <<remote, ref, head, whole, keep, keepWhole, record, run, before>>

\* deploy takes the lock of its process and records HEAD; rollback takes none and
\* reads its target from the state file.
RunBegin(r, kind) ==
    /\ RunAt(r, "idle")
    /\ kind = "rollback" => record # NoRecord
    /\ run' = [run EXCEPT ![r] = [IdleRun EXCEPT !.pc = "clear", !.kind = kind, !.start = Live,
           !.prev = IF kind = "deploy" THEN head ELSE record.prev]]
    /\ happened' = happened \cup IF Running = {} THEN {} ELSE {"overlap"}
    /\ UNCHANGED <<remote, ref, head, data, whole, written, keep, keepWhole, record, before>>

\* Faulty variant: what an earlier deployment preserved is not removed, and passes
\* for the copy of this one.
KeepEarlier(r) ==
    /\ RunAt(r, "clear")
    /\ RunTo(r, IF keep = Absent THEN "copy" ELSE "fetch")
    /\ UNCHANGED <<remote, ref, head, data, whole, written, keep, keepWhole, record, before, happened>>

\* preserve_runtime_data: rmtree(ignore_errors) of the earlier copy, or of a part.
ClearKeep(r) ==
    /\ RunAt(r, "clear")
    /\ keep' \in {Absent, keep}
    /\ keepWhole' \in {FALSE, keepWhole /\ keep' # Absent}
    /\ RunTo(r, "copy")
    /\ UNCHANGED <<remote, ref, head, data, whole, written, record, before, happened>>

\* copytree begins: it fails on a directory that is still there.
CopyKeep(r) ==
    /\ RunAt(r, "copy")
    /\ \/ keep = Absent /\ keep' = data /\ RunTo(r, "copying")
       \/ keep' = keep /\ Ended(r)
    /\ UNCHANGED <<remote, ref, head, data, whole, written, keepWhole, record, before, happened>>

\* Its last file.  A database that was written meanwhile may be copied with it, or torn.
\* After a failure nothing is reset.
CopyEnds(r) ==
    /\ RunAt(r, "copying")
    /\ \/ keep # Absent /\ RunTo(r, "fetch") /\ keep' = data /\ keepWhole' = whole
       \/ keep # Absent /\ RunTo(r, "fetch") /\ keep # data /\ UNCHANGED <<keep, keepWhole>>
       \/ Ended(r) /\ UNCHANGED <<keep, keepWhole>>
    /\ UNCHANGED <<remote, ref, head, data, whole, written, record, before, happened>>

Fetch(r) ==
    /\ RunAt(r, "fetch")
    /\ ref' = remote
    /\ RunTo(r, "sync")
    /\ UNCHANGED <<remote, head, data, whole, written, keep, keepWhole, record, before, happened>>

\* git checkout and reset --hard to the fetched branch
Sync(r) ==
    /\ RunAt(r, "sync") /\ run[r].kind = "deploy"
    /\ head' = ref /\ before' = head
    /\ RunTo(r, "putback")
    /\ UNCHANGED <<remote, ref, data, whole, written, keep, keepWhole, record, happened>>

\* rollback: reset --hard to the commit of the state file
SyncBack(r) ==
    /\ RunAt(r, "sync") /\ run[r].kind = "rollback"
    /\ head' = run[r].prev
    /\ RunTo(r, "putback")
    /\ UNCHANGED <<remote, ref, data, whole, written, keep, keepWhole, record, before, happened>>

\* A git command fails.  deploy copies the data back; rollback returns at once.
GitFails(r) ==
    /\ run[r].pc \in {"fetch", "sync"}
    /\ IF run[r].kind = "deploy"
       THEN run' = [run EXCEPT ![r].pc = "putback", ![r].ok = FALSE] ELSE Ended(r)
    /\ UNCHANGED <<remote, ref, head, data, whole, written, keep, keepWhole, record, before, happened>>

\* restore_runtime_data opens the first live file to write over it, unless it fails
\* before or the directory is gone.  From here the live database is neither of the two.
RestoreData(r) ==
    /\ RunAt(r, "putback")
    /\ \/ keep # Absent /\ RunTo(r, "putting") /\ whole' = FALSE
       \/ AfterCopy(r) /\ UNCHANGED whole
    /\ UNCHANGED <<remote, ref, head, data, written, keep, keepWhole, record, before, happened>>

\* The last file is written.
RestoreEnds(r) ==
    /\ RunAt(r, "putting") /\ keep # Absent
    /\ data' = keep
    /\ whole' \in {keepWhole} \cup IF "crossed" \in happened THEN {FALSE} ELSE {}
    /\ AfterCopy(r)
    /\ UNCHANGED <<remote, ref, head, written, keep, keepWhole, record, before, happened>>

\* A file cannot be read or written, or the disk is full: the run goes on.
RestoreBreaks(r) ==
    /\ RunAt(r, "putting")
    /\ AfterCopy(r)
    /\ whole' = FALSE
    /\ happened' = happened \cup {"torn"}
    /\ UNCHANGED <<remote, ref, head, data, written, keep, keepWhole, record, before>>

\* The application imports and the update gate, if strict, agrees.
Validate(r) ==
    /\ RunAt(r, "validate")
    /\ IF run[r].kind = "deploy" THEN RunTo(r, "record") ELSE Ended(r)
    /\ UNCHANGED <<remote, ref, head, data, whole, written, keep, keepWhole, record, before, happened>>

\* The import, the pip run or the strict gate fails: the new code stays, unrecorded.
ValidateFails(r) ==
    /\ RunAt(r, "validate")
    /\ Ended(r)
    /\ happened' = happened \cup IF run[r].kind = "deploy" THEN {"unrecorded"} ELSE {}
    /\ UNCHANGED <<remote, ref, head, data, whole, written, keep, keepWhole, record, before>>

\* Faulty variant: the commit before is read when the deployment is over.
RecordStateLate(r) ==
    /\ RunAt(r, "record")
    /\ record' = [prev |-> head, dep |-> head]
    /\ Ended(r)
    /\ UNCHANGED <<remote, ref, head, data, whole, written, keep, keepWhole, before, happened>>

\* touch_wsgi and record_state
RecordState(r) ==
    /\ RunAt(r, "record")
    /\ record' = [prev |-> run[r].prev, dep |-> head]
    /\ Ended(r)
    /\ UNCHANGED <<remote, ref, head, data, whole, written, keep, keepWhole, before, happened>>

\* The worker is killed in the middle.
RunnerDies(r) ==
    /\ r \in Running
    /\ happened' = happened \cup (IF run[r].kind = "deploy" /\ Synced(r) THEN {"unrecorded"} ELSE {})
                             \cup (IF RunAt(r, "putting") THEN {"torn"} ELSE {})
    /\ Ended(r)
    /\ UNCHANGED <<remote, ref, head, data, whole, written, keep, keepWhole, record, before>>

RunStep(r) ==
    ClearKeep(r) \/ CopyKeep(r) \/ CopyEnds(r) \/ Fetch(r) \/ Sync(r) \/ SyncBack(r) \/ GitFails(r)
    \/ RestoreData(r) \/ RestoreEnds(r) \/ RestoreBreaks(r) \/ Validate(r) \/ ValidateFails(r) \/ RecordState(r)

DeployNext ==
    \/ Push \/ UserCommits
    \/ \E r \in Runners : \/ \E kind \in {"deploy", "rollback"} : RunBegin(r, kind)
                          \/ RunStep(r) \/ RunnerDies(r)

DeploySpec == DeployInit /\ [][DeployNext]_deployVars

------------------------------------------------------------------------------
\* A deployment or rollback that overlaps no other, and during whose copies nobody
\* wrote, loses at most what was written since it began: the copy it puts back is its
\* own (deployer.py:136-183).  While it writes that copy over the live files, and when it
\* dies or fails in the middle of that, the live database is torn, but the preserve
\* directory holds what it held, until the next run removes it (140).
EarlierWritesKept ==
    [][\A r \in Runners :
          run[r].pc \in {"fetch", "sync", "putback", "putting"} /\ happened' \cap {"overlap", "crossed"} = {}
              => \/ run[r].start \subseteq Live'
                 \/ /\ run'[r].pc = "putting" \/ (run[r].pc = "putting" /\ "torn" \in happened')
                    /\ run[r].start \subseteq Preserved']_deployVars

\* A rollback returns to the commit that the last deployment replaced, unless that
\* deployment failed after its reset and was never recorded, or two runs overlapped
\* (deployer.py:531-572).
RollbackUndoesLast ==
    \A r \in Runners :
        RunAt(r, "putback") /\ run[r].kind = "rollback" =>
            head = before \/ happened \cap {"unrecorded", "overlap"} # {}
=============================================================================
