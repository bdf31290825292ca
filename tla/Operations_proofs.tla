--------------------------- MODULE Operations_proofs ---------------------------
(***************************************************************************)
(* Proofs about the operator's tools: what a deployment keeps and a        *)
(* rollback returns to, who holds the backup lock and the system lock,     *)
(* what a restore answers and what a merged archive brings back, for any   *)
(* number of processes, commits, backups, clients, deaths and faults.      *)
(***************************************************************************)
EXTENDS SystemLock, GitDeploy, BackupRestore, DataRestore, SumTheorems,
        SequenceTheorems, WellFoundedInduction, FiniteSetTheorems, TLAPS

-----------------------------------------------------------------------------
(* Deployments and rollbacks.                                              *)

RunStages ==
    {"idle", "clear", "copy", "copying", "fetch", "sync", "putback", "putting", "validate", "record"}
RunRecords == [pc : RunStages, kind : {"deploy", "rollback"}, prev : Nat, start : SUBSET Nat, ok : BOOLEAN]
RunsTyped ==
    /\ run \in [Runners -> RunRecords]
    /\ data \in SUBSET Nat /\ keep \in SUBSET Nat /\ written \in Nat
    /\ whole \in BOOLEAN /\ keepWhole \in BOOLEAN
HeadsTyped ==
    /\ {remote, ref, head, before} \subseteq Nat
    /\ record \in [prev : Nat, dep : Nat]

\* Without an overlap one run is at work at most.
OneRun == \A r, q \in Running : r = q

\* While nobody writes during a copy: nothing a run found when it began is lost before
\* it copies back, what it copies aside is what is live, and once it has done so the
\* directory it puts back holds all it found.
Holding(r) ==
    /\ run[r].pc \in {"clear", "copy", "copying", "fetch", "sync", "putback"} => run[r].start \subseteq Live
    /\ run[r].pc = "copying" => keep = data
    /\ run[r].pc \in {"fetch", "sync", "putback", "putting"} => run[r].start \subseteq Preserved
CopyIsOwn == \A r \in Runners : Holding(r)

\* The commit that the last deployment replaced is in the state file, or in the
\* deployment that is about to write it there.
TargetKnown ==
    /\ (\A r \in Runners : run[r].kind = "deploy" => ~Synced(r)) => record.prev = before
    /\ \A r \in Running :
          /\ run[r].kind = "rollback" => /\ run[r].prev = record.prev /\ run[r].ok
                                         /\ Synced(r) => head = before
          /\ run[r].kind = "deploy" /\ run[r].ok =>
                run[r].prev = IF Synced(r) THEN before ELSE head
          /\ run[r].ok \/ run[r].pc \in {"putback", "putting"}

DeployInv ==
    /\ RunsTyped /\ HeadsTyped
    /\ "overlap" \notin happened => OneRun
    /\ happened \cap {"overlap", "crossed"} = {} => CopyIsOwn
    /\ happened \cap {"unrecorded", "overlap"} = {} => TargetKnown

LEMMA DeployInitInv == DeployInit => DeployInv
<1> SUFFICES ASSUME DeployInit PROVE DeployInv
  OBVIOUS
<1>1. IdleRun \in RunRecords /\ Running = {} /\ \A r \in Runners : run[r] = IdleRun
  BY DEF DeployInit, IdleRun, RunRecords, RunStages, Running
<1>2. RunsTyped /\ HeadsTyped
  <2>1. run \in [Runners -> RunRecords]
    BY <1>1 DEF DeployInit
  <2>2. whole \in BOOLEAN /\ keepWhole \in BOOLEAN
    BY Zenon DEF DeployInit
  <2>3. data \in SUBSET Nat /\ keep \in SUBSET Nat /\ written \in Nat
    BY DEF DeployInit, Absent
  <2>4. HeadsTyped
    BY DEF DeployInit, HeadsTyped, NoRecord
  <2> QED BY <2>1, <2>2, <2>3, <2>4 DEF RunsTyped
<1>3. OneRun /\ CopyIsOwn /\ TargetKnown
  BY <1>1 DEF DeployInit, OneRun, CopyIsOwn, Holding, TargetKnown, IdleRun, NoRecord
<1> QED
  BY <1>2, <1>3 DEF DeployInv

\* What a run that goes on, or ends, becomes, and that the others stand still.
Stood(r) == \A q \in Runners \ {r} : run'[q] = run[q]
Moved(r, st) ==
    /\ run' \in [Runners -> RunRecords] /\ Stood(r)
    /\ run'[r].pc = st /\ run'[r].kind = run[r].kind /\ run'[r].prev = run[r].prev
    /\ run'[r].start = run[r].start /\ run'[r].ok = run[r].ok
Stopped(r) ==
    /\ run' \in [Runners -> RunRecords] /\ Stood(r)
    /\ run'[r].pc = "idle" /\ run'[r].kind = "deploy" /\ run'[r].ok

LEMMA RunMoves ==
    ASSUME RunsTyped, NEW r \in Runners
    PROVE  /\ \A st \in RunStages : RunTo(r, st) => Moved(r, st)
           /\ Ended(r) => Stopped(r)
           /\ AfterCopy(r) => (run[r].ok /\ Moved(r, "validate")) \/ (~run[r].ok /\ Stopped(r))
<1>1. ASSUME NEW st \in RunStages, RunTo(r, st) PROVE Moved(r, st)
  <2>1. [run[r] EXCEPT !.pc = st] \in RunRecords
    BY DEF RunsTyped, RunRecords
  <2> QED
    BY <1>1, <2>1 DEF RunTo, Moved, Stood, RunsTyped, RunRecords
<1>2. ASSUME Ended(r) PROVE Stopped(r)
  <2>1. IdleRun \in RunRecords
    BY DEF IdleRun, RunRecords, RunStages
  <2> QED
    BY <1>2, <2>1 DEF Ended, Stopped, Stood, RunsTyped, IdleRun
<1>3. "validate" \in RunStages
  BY DEF RunStages
<1> QED
  BY <1>1, <1>2, <1>3 DEF AfterCopy

\* How each step of a run, its beginning and its death move it.
LEMMA StepMoves ==
    ASSUME RunsTyped, NEW r \in Runners
    PROVE  /\ ClearKeep(r) => Moved(r, "copy")
           /\ CopyKeep(r) => Moved(r, "copying") \/ Stopped(r)
           /\ CopyEnds(r) => Moved(r, "fetch") \/ Stopped(r)
           /\ Fetch(r) => Moved(r, "sync")
           /\ Sync(r) \/ SyncBack(r) => Moved(r, "putback")
           /\ RestoreData(r) => Moved(r, "putting") \/ (run[r].ok /\ Moved(r, "validate")) \/ (~run[r].ok /\ Stopped(r))
           /\ RestoreEnds(r) \/ RestoreBreaks(r) =>
                 (run[r].ok /\ Moved(r, "validate")) \/ (~run[r].ok /\ Stopped(r))
           /\ Validate(r) => (run[r].kind = "deploy" /\ Moved(r, "record")) \/ (run[r].kind # "deploy" /\ Stopped(r))
           /\ ValidateFails(r) \/ RecordState(r) \/ RunnerDies(r) => Stopped(r)
<1>1. {"copy", "copying", "fetch", "sync", "putback", "putting", "validate", "record"} \subseteq RunStages
  BY DEF RunStages
<1>2. /\ ClearKeep(r) => RunTo(r, "copy")
      /\ CopyKeep(r) => RunTo(r, "copying") \/ Ended(r)
      /\ CopyEnds(r) => RunTo(r, "fetch") \/ Ended(r)
      /\ Fetch(r) => RunTo(r, "sync")
      /\ Sync(r) \/ SyncBack(r) => RunTo(r, "putback")
      /\ RestoreData(r) => RunTo(r, "putting") \/ AfterCopy(r)
      /\ RestoreEnds(r) \/ RestoreBreaks(r) => AfterCopy(r)
  BY DEF ClearKeep, CopyKeep, CopyEnds, Fetch, Sync, SyncBack, RestoreData, RestoreEnds, RestoreBreaks
<1>3. /\ Validate(r) => (run[r].kind = "deploy" /\ RunTo(r, "record")) \/ (run[r].kind # "deploy" /\ Ended(r))
      /\ ValidateFails(r) \/ RecordState(r) \/ RunnerDies(r) => Ended(r)
  BY DEF Validate, ValidateFails, RecordState, RunnerDies
<1> QED
  BY <1>1, <1>2, <1>3, RunMoves

LEMMA GitFailsMoves ==
    ASSUME RunsTyped, NEW r \in Runners, GitFails(r)
    PROVE  \/ Stopped(r) /\ run[r].kind = "rollback"
           \/ /\ run' \in [Runners -> RunRecords] /\ Stood(r) /\ run[r].kind = "deploy"
              /\ run'[r].pc = "putback" /\ run'[r].kind = "deploy" /\ ~run'[r].ok
              /\ run'[r].start = run[r].start
<1>1. run[r].kind \in {"deploy", "rollback"}
  BY DEF RunsTyped, RunRecords
<1>2. CASE run[r].kind = "deploy"
  <2>1. run' = [run EXCEPT ![r].pc = "putback", ![r].ok = FALSE]
    BY <1>2 DEF GitFails
  <2>2. [run[r] EXCEPT !.pc = "putback", !.ok = FALSE] \in RunRecords
    BY DEF RunsTyped, RunRecords, RunStages
  <2> QED BY <1>2, <2>1, <2>2 DEF RunsTyped, RunRecords, Stood
<1>3. CASE run[r].kind # "deploy"
  BY <1>1, <1>3, RunMoves DEF GitFails
<1> QED BY <1>2, <1>3

LEMMA BeginMoves ==
    ASSUME RunsTyped, HeadsTyped, NEW r \in Runners, NEW kind \in {"deploy", "rollback"}, RunBegin(r, kind)
    PROVE  /\ run' \in [Runners -> RunRecords] /\ Stood(r)
           /\ run'[r].pc = "clear" /\ run'[r].kind = kind /\ run'[r].start = Live /\ run'[r].ok
           /\ run'[r].prev = IF kind = "deploy" THEN head ELSE record.prev
<1>1. PICK v : /\ v = [IdleRun EXCEPT !.pc = "clear", !.kind = kind, !.start = Live,
                                      !.prev = IF kind = "deploy" THEN head ELSE record.prev]
               /\ run' = [run EXCEPT ![r] = v]
  BY DEF RunBegin
<1>2. v \in RunRecords /\ v.pc = "clear" /\ v.kind = kind /\ v.start = Live /\ v.ok
      /\ v.prev = IF kind = "deploy" THEN head ELSE record.prev
  BY <1>1 DEF IdleRun, RunRecords, RunStages, RunsTyped, HeadsTyped, Live
<1> QED BY <1>1, <1>2 DEF RunsTyped, Stood

LEMMA DeployTypeStep == DeployInv /\ [DeployNext]_deployVars => RunsTyped' /\ HeadsTyped'
<1> SUFFICES ASSUME DeployInv, [DeployNext]_deployVars PROVE RunsTyped' /\ HeadsTyped'
  OBVIOUS
<1>t. RunsTyped /\ HeadsTyped
  BY DEF DeployInv
<1>0. CASE UNCHANGED deployVars
  BY <1>t, <1>0 DEF deployVars, RunsTyped, HeadsTyped
<1>1. CASE Push
  BY <1>t, <1>1 DEF Push, RunsTyped, HeadsTyped
<1>2. CASE UserCommits
  BY <1>t, <1>2 DEF UserCommits, RunsTyped, HeadsTyped
<1> SUFFICES ASSUME NEW r \in Runners,
                    (\E kind \in {"deploy", "rollback"} : RunBegin(r, kind)) \/ RunStep(r) \/ RunnerDies(r)
             PROVE  RunsTyped' /\ HeadsTyped'
  BY <1>0, <1>1, <1>2 DEF DeployNext
<1>3. run' \in [Runners -> RunRecords]
  BY <1>t, StepMoves, GitFailsMoves, BeginMoves DEF RunStep, Moved, Stopped
<1>4. HeadsTyped'
  <2>1. CASE \E kind \in {"deploy", "rollback"} : RunBegin(r, kind)
    BY <1>t, <2>1 DEF RunBegin, HeadsTyped
  <2>2. CASE Fetch(r) \/ Sync(r)
    BY <1>t, <2>2 DEF Fetch, Sync, HeadsTyped
  <2>3. run[r].prev \in Nat
    BY <1>t DEF RunsTyped, RunRecords
  <2>4. CASE SyncBack(r) \/ RecordState(r)
    BY <1>t, <2>3, <2>4 DEF SyncBack, RecordState, HeadsTyped
  <2>5. UNCHANGED <<remote, ref, head, before, record>> \/ Fetch(r) \/ Sync(r) \/ SyncBack(r)
          \/ RecordState(r) \/ \E kind \in {"deploy", "rollback"} : RunBegin(r, kind)
    BY DEF RunStep, ClearKeep, CopyKeep, CopyEnds, GitFails, RestoreData, RestoreEnds, RestoreBreaks,
           Validate, ValidateFails, RunnerDies
  <2> QED
    BY <1>t, <2>1, <2>2, <2>4, <2>5 DEF HeadsTyped
<1>5. written' = written /\ data' \in SUBSET Nat /\ keep' \in SUBSET Nat
  <2>1. written' = written
    BY DEF RunStep, RunBegin, ClearKeep, CopyKeep, CopyEnds, Fetch, Sync, SyncBack, GitFails,
           RestoreData, RestoreEnds, RestoreBreaks, Validate, ValidateFails, RecordState, RunnerDies
  <2>2. data' \in {data, keep}
    BY DEF RunStep, RunBegin, ClearKeep, CopyKeep, CopyEnds, Fetch, Sync, SyncBack, GitFails,
           RestoreData, RestoreEnds, RestoreBreaks, Validate, ValidateFails, RecordState, RunnerDies
  <2>3. keep' \in {data, keep, Absent}
    BY DEF RunStep, RunBegin, ClearKeep, CopyKeep, CopyEnds, Fetch, Sync, SyncBack, GitFails,
           RestoreData, RestoreEnds, RestoreBreaks, Validate, ValidateFails, RecordState, RunnerDies
  <2> QED
    BY <1>t, <2>1, <2>2, <2>3 DEF RunsTyped, Absent
<1>6. whole' \in BOOLEAN /\ keepWhole' \in BOOLEAN
  BY <1>t, Zenon DEF RunStep, RunBegin, ClearKeep, CopyKeep, CopyEnds, Fetch, Sync, SyncBack, GitFails,
         RestoreData, RestoreEnds, RestoreBreaks, Validate, ValidateFails, RecordState, RunnerDies,
         RunsTyped
<1> QED
  BY <1>t, <1>3, <1>4, <1>5, <1>6 DEF RunsTyped

\* What happened stays happened.
LEMMA HappenedStays == [DeployNext]_deployVars => happened \subseteq happened'
  BY DEF DeployNext, RunStep, deployVars, Push, UserCommits, RunBegin, ClearKeep, CopyKeep, CopyEnds, Fetch,
         Sync, SyncBack, GitFails, RestoreData, RestoreEnds, RestoreBreaks, Validate, ValidateFails,
         RecordState, RunnerDies

\* What a step of a run does to the other runs.
LEMMA OthersStand ==
    ASSUME RunsTyped, HeadsTyped, NEW r \in Runners,
           (\E kind \in {"deploy", "rollback"} : RunBegin(r, kind)) \/ RunStep(r) \/ RunnerDies(r)
    PROVE  Stood(r)
  BY StepMoves, GitFailsMoves, BeginMoves DEF RunStep, Moved, Stopped

LEMMA OneRunStep == DeployInv /\ [DeployNext]_deployVars /\ "overlap" \notin happened' => OneRun'
<1> SUFFICES ASSUME DeployInv, [DeployNext]_deployVars, "overlap" \notin happened' PROVE OneRun'
  OBVIOUS
<1>h. OneRun /\ RunsTyped /\ HeadsTyped
  BY HappenedStays DEF DeployInv
<1>1. CASE UNCHANGED deployVars \/ Push \/ UserCommits
  BY <1>h, <1>1 DEF deployVars, Push, UserCommits, OneRun, Running
<1> SUFFICES ASSUME NEW r \in Runners,
                    (\E kind \in {"deploy", "rollback"} : RunBegin(r, kind)) \/ RunStep(r) \/ RunnerDies(r)
             PROVE  OneRun'
  BY <1>1 DEF DeployNext
<1>2. \A q \in Runners \ {r} : run'[q] = run[q]
  BY <1>h, OthersStand DEF Stood
<1>3. Running \subseteq {r}
  <2>1. CASE \E kind \in {"deploy", "rollback"} : RunBegin(r, kind)
    BY <2>1 DEF RunBegin
  <2>2. CASE ~\E kind \in {"deploy", "rollback"} : RunBegin(r, kind)
    <3>1. r \in Running
      BY <2>2 DEF RunStep, ClearKeep, CopyKeep, CopyEnds, Fetch, Sync, SyncBack, GitFails,
             RestoreData, RestoreEnds, RestoreBreaks, Validate, ValidateFails, RecordState, RunnerDies,
             Running, RunAt
    <3> QED BY <1>h, <3>1 DEF OneRun
  <2> QED BY <2>1, <2>2
<1> QED
  BY <1>2, <1>3 DEF OneRun, Running

\* No step of a run that is alone loses what the run found when it began.
LEMMA CopyStep ==
    DeployInv /\ RunsTyped' /\ [DeployNext]_deployVars /\ happened' \cap {"overlap", "crossed"} = {}
        => CopyIsOwn'
<1> SUFFICES ASSUME DeployInv, RunsTyped', [DeployNext]_deployVars,
                    happened' \cap {"overlap", "crossed"} = {}
             PROVE  CopyIsOwn'
  OBVIOUS
<1>h. CopyIsOwn /\ OneRun /\ OneRun' /\ RunsTyped /\ HeadsTyped /\ "crossed" \notin happened
  BY HappenedStays, OneRunStep DEF DeployInv
<1>1. CASE UNCHANGED deployVars \/ Push
  BY <1>h, <1>1 DEF deployVars, Push, CopyIsOwn, Holding, Live, Preserved
<1>2. CASE UserCommits
  <2>1. \A r \in Runners : run[r].pc \notin {"copying", "putting"}
    BY <1>2 DEF UserCommits
  <2>2. UNCHANGED <<run, whole, keep, keepWhole>> /\ data \subseteq data'
    BY <1>2 DEF UserCommits
  <2> QED
    BY <1>h, <2>1, <2>2 DEF CopyIsOwn, Holding, Live, Preserved
<1> SUFFICES ASSUME NEW r \in Runners,
                    (\E kind \in {"deploy", "rollback"} : RunBegin(r, kind)) \/ RunStep(r) \/ RunnerDies(r)
             PROVE  CopyIsOwn'
  BY <1>1, <1>2 DEF DeployNext
<1> SUFFICES Holding(r)'
  <2>1. \A q \in Runners \ {r} : run'[q] = run[q]
    BY <1>h, OthersStand DEF Stood
  <2>2. r \in Running \/ Running = {}
    BY DEF RunStep, RunBegin, ClearKeep, CopyKeep, CopyEnds, Fetch, Sync, SyncBack, GitFails,
           RestoreData, RestoreEnds, RestoreBreaks, Validate, ValidateFails, RecordState, RunnerDies,
           Running, RunAt, OneRun
  <2>3. \A q \in Runners \ {r} : run'[q].pc = "idle"
    BY <1>h, <2>1, <2>2 DEF OneRun, Running
  <2> QED
    BY <2>3 DEF CopyIsOwn, Holding
<1>r. Holding(r)
  BY <1>h DEF CopyIsOwn
<1> USE <1>r, <1>h DEF Holding, Live, Preserved, Moved, Stopped
<1>3. CASE \E kind \in {"deploy", "rollback"} : RunBegin(r, kind)
  BY <1>3, BeginMoves DEF RunBegin
<1>4. CASE ClearKeep(r)
  BY <1>4, StepMoves DEF ClearKeep, RunAt
<1>5. CASE CopyKeep(r)
  <2>1. run[r].pc = "copy" /\ UNCHANGED <<data, whole>>
    BY <1>5 DEF CopyKeep, RunAt
  <2>2. Stopped(r) \/ (Moved(r, "copying") /\ keep' = data)
    <3>1. Ended(r) \/ (RunTo(r, "copying") /\ keep' = data)
      BY <1>5 DEF CopyKeep
    <3> QED BY <3>1, RunMoves DEF RunStages
  <2> QED
    BY <2>1, <2>2
<1>6. CASE CopyEnds(r)
  <2>1. run[r].pc = "copying" /\ keep = data /\ run[r].start \subseteq Live /\ UNCHANGED <<data, whole>>
    BY <1>6 DEF CopyEnds, RunAt
  <2>2. Stopped(r) \/ (Moved(r, "fetch") /\ keep' = data /\ keepWhole' = whole)
    <3>1. Ended(r) \/ (RunTo(r, "fetch") /\ keep' = data /\ keepWhole' = whole)
      BY <1>6, <2>1 DEF CopyEnds
    <3> QED BY <3>1, RunMoves DEF RunStages
  <2> QED
    BY <2>1, <2>2
<1>7. CASE Fetch(r) \/ Sync(r) \/ SyncBack(r)
  BY <1>7, StepMoves DEF Fetch, Sync, SyncBack, RunAt
<1>8. CASE GitFails(r)
  BY <1>8, GitFailsMoves DEF GitFails
<1>9. CASE RestoreData(r)
  BY <1>9, StepMoves DEF RestoreData, RunAt
<1>10. CASE RestoreEnds(r) \/ RestoreBreaks(r)
  BY <1>10, StepMoves
<1>11. CASE Validate(r) \/ ValidateFails(r) \/ RecordState(r) \/ RunnerDies(r)
  BY <1>11, StepMoves
<1> QED
  BY <1>3, <1>4, <1>5, <1>6, <1>7, <1>8, <1>9, <1>10, <1>11 DEF RunStep

\* The same, of one run when no other is at work.
TargetOf(r) ==
    /\ run[r].pc = "idle" \/ (run[r].kind = "deploy" /\ ~Synced(r)) => record.prev = before
    /\ run[r].pc # "idle" /\ run[r].kind = "rollback" =>
          record.prev = before /\ run[r].prev = before /\ run[r].ok /\ (Synced(r) => head = before)
    /\ run[r].pc # "idle" /\ run[r].kind = "deploy" /\ run[r].ok =>
          run[r].prev = IF Synced(r) THEN before ELSE head
    /\ run[r].pc = "idle" \/ run[r].ok \/ run[r].pc \in {"putback", "putting"}

\* The commit to return to is kept through every step of a run that is alone, unless
\* a deployment ends between its reset and its record.
LEMMA TargetStep ==
    DeployInv /\ RunsTyped' /\ HeadsTyped' /\ [DeployNext]_deployVars
        /\ happened' \cap {"unrecorded", "overlap"} = {} => TargetKnown'
<1> SUFFICES ASSUME DeployInv, RunsTyped', HeadsTyped', [DeployNext]_deployVars,
                    happened' \cap {"unrecorded", "overlap"} = {}
             PROVE  TargetKnown'
  OBVIOUS
<1>k. TargetKnown /\ OneRun /\ RunsTyped /\ HeadsTyped
  BY HappenedStays DEF DeployInv
<1>1. CASE UNCHANGED deployVars \/ Push \/ UserCommits
  BY <1>k, <1>1 DEF deployVars, Push, UserCommits, TargetKnown, Running, Synced
<1> SUFFICES ASSUME NEW r \in Runners,
                    (\E kind \in {"deploy", "rollback"} : RunBegin(r, kind)) \/ RunStep(r) \/ RunnerDies(r)
             PROVE  TargetKnown'
  BY <1>1 DEF DeployNext
<1>o. /\ \A q \in Runners \ {r} : run'[q] = run[q] /\ run[q].pc = "idle"
      /\ Running = {} \/ Running = {r}
  <2>1. r \in Running \/ Running = {}
    BY DEF RunStep, RunBegin, ClearKeep, CopyKeep, CopyEnds, Fetch, Sync, SyncBack, GitFails,
           RestoreData, RestoreEnds, RestoreBreaks, Validate, ValidateFails, RecordState, RunnerDies,
           Running, RunAt
  <2>2. \A q \in Runners \ {r} : q \notin Running /\ run'[q] = run[q]
    BY <1>k, <2>1, OthersStand DEF Stood, OneRun
  <2> QED
    BY <2>1, <2>2 DEF Running
<1>y. run[r].kind \in {"deploy", "rollback"} /\ run[r].ok \in BOOLEAN
  BY <1>k DEF RunsTyped, RunRecords
<1>d. TargetOf(r)
  BY <1>k, <1>o, <1>y DEF TargetKnown, TargetOf, Running, Synced
<1>z. run'[r].kind \in {"deploy", "rollback"} /\ run'[r].ok \in BOOLEAN
  BY DEF RunsTyped, RunRecords
<1>e. TargetOf(r)' => TargetKnown'
  BY <1>o, <1>z DEF TargetKnown, TargetOf, Running, Synced
<1> SUFFICES TargetOf(r)'
  BY <1>e
<1> USE <1>d, <1>k, <1>y DEF TargetOf, Synced, Moved, Stopped, RunAt
<1>2. CASE \E kind \in {"deploy", "rollback"} : RunBegin(r, kind)
  BY <1>2, BeginMoves DEF RunBegin
<1>3. CASE ClearKeep(r) \/ Fetch(r)
  BY <1>3, StepMoves DEF ClearKeep, Fetch
<1>4. CASE CopyKeep(r) \/ CopyEnds(r)
  BY <1>4, StepMoves DEF CopyKeep, CopyEnds
<1>5. CASE Sync(r)
  BY <1>5, StepMoves DEF Sync
<1>6. CASE SyncBack(r)
  BY <1>6, StepMoves DEF SyncBack
<1>7. CASE GitFails(r)
  BY <1>7, GitFailsMoves DEF GitFails
<1>8. CASE RestoreData(r)
  BY <1>8, StepMoves DEF RestoreData
<1>9. CASE RestoreEnds(r) \/ RestoreBreaks(r)
  BY <1>9, StepMoves DEF RestoreEnds, RestoreBreaks
<1>10. CASE Validate(r)
  BY <1>10, StepMoves DEF Validate
<1>11. CASE ValidateFails(r) \/ RunnerDies(r)
  BY <1>11, StepMoves DEF ValidateFails, RunnerDies
<1>12. CASE RecordState(r)
  BY <1>12, StepMoves DEF RecordState
<1> QED
  BY <1>2, <1>3, <1>4, <1>5, <1>6, <1>7, <1>8, <1>9, <1>10, <1>11, <1>12 DEF RunStep

LEMMA DeployStepInv == DeployInv /\ [DeployNext]_deployVars => DeployInv'
  BY DeployTypeStep, OneRunStep, CopyStep, TargetStep DEF DeployInv

\* A rollback that has reset the tree stands on the commit that the last deployment
\* replaced, whatever was pushed, deployed, fetched in vain or rolled back before.
THEOREM RollbackReturns == DeploySpec => []RollbackUndoesLast
<1>1. DeployInv => RollbackUndoesLast
  BY DEF DeployInv, TargetKnown, RollbackUndoesLast, Running, Synced, RunAt
<1> QED
  BY <1>1, DeployInitInv, DeployStepInv, PTL DEF DeploySpec

\* No step of any process loses a write that was there when a run at work began, as long
\* as runs do not overlap and nobody writes during a copy; while or after a copy back is
\* left half done, the preserve directory has it.
THEOREM DeploymentsKeepWrites == DeploySpec => EarlierWritesKept
<1>1. DeployInv /\ [DeployNext]_deployVars =>
         \A r \in Runners :
            run[r].pc \in {"fetch", "sync", "putback", "putting"} /\ happened' \cap {"overlap", "crossed"} = {}
               => \/ run[r].start \subseteq Live'
                  \/ /\ run'[r].pc = "putting" \/ (run[r].pc = "putting" /\ "torn" \in happened')
                     /\ run[r].start \subseteq Preserved'
  <2> SUFFICES ASSUME DeployInv, [DeployNext]_deployVars, NEW r \in Runners,
                      run[r].pc \in {"fetch", "sync", "putback", "putting"},
                      happened' \cap {"overlap", "crossed"} = {}
               PROVE  \/ run[r].start \subseteq Live'
                      \/ /\ run'[r].pc = "putting" \/ (run[r].pc = "putting" /\ "torn" \in happened')
                         /\ run[r].start \subseteq Preserved'
    OBVIOUS
  <2>1. Holding(r) /\ OneRun /\ r \in Running /\ RunsTyped /\ "crossed" \notin happened
    BY HappenedStays DEF Running, DeployInv, CopyIsOwn
  <2>2. CASE UNCHANGED deployVars \/ Push \/ UserCommits
    BY <2>1, <2>2 DEF deployVars, Push, UserCommits, Holding, Live, Preserved
  <2>3. CASE \E q \in Runners, kind \in {"deploy", "rollback"} : RunBegin(q, kind)
    BY <2>1, <2>3 DEF RunBegin, Running
  <2>4. CASE RunStep(r) \/ RunnerDies(r)
    <3> USE <2>1 DEF Holding, Live, Preserved, RunAt, Moved, Stopped
    <3>1. CASE Fetch(r) \/ Sync(r) \/ SyncBack(r) \/ GitFails(r)
      BY <3>1 DEF Fetch, Sync, SyncBack, GitFails
    <3>2. CASE RestoreData(r)
      <4>1. run[r].start \subseteq Live /\ UNCHANGED <<data, keep, keepWhole>>
        BY <3>2 DEF RestoreData
      <4>2. RunTo(r, "putting") \/ UNCHANGED whole
        BY <3>2 DEF RestoreData
      <4>3. RunTo(r, "putting") => run'[r].pc = "putting"
        BY RunMoves DEF RunStages
      <4> QED BY <4>1, <4>2, <4>3
    <3>3. CASE RestoreEnds(r)
      BY <3>3 DEF RestoreEnds
    <3>4. CASE RestoreBreaks(r)
      BY <3>4 DEF RestoreBreaks
    <3>5. CASE RunnerDies(r)
      BY <3>5 DEF RunnerDies
    <3> QED
      BY <2>4, <3>1, <3>2, <3>3, <3>4, <3>5
         DEF RunStep, ClearKeep, CopyKeep, CopyEnds, Validate, ValidateFails, RecordState
  <2>5. ASSUME NEW q \in Runners, RunStep(q) \/ RunnerDies(q) PROVE q = r
    <3>1. q \in Running
      BY <2>5 DEF RunStep, ClearKeep, CopyKeep, CopyEnds, Fetch, Sync, SyncBack, GitFails,
             RestoreData, RestoreEnds, RestoreBreaks, Validate, ValidateFails, RecordState, RunnerDies,
             Running, RunAt
    <3> QED BY <2>1, <3>1 DEF OneRun
  <2> QED
    BY <2>2, <2>3, <2>4, <2>5 DEF DeployNext
<1> QED
  BY <1>1, DeployInitInv, DeployStepInv, PTL DEF DeploySpec, EarlierWritesKept

-----------------------------------------------------------------------------
(* Backups and restores.                                                   *)

InsideAt == {"copyDb", "copyUp", "publish", "list", "prune", "leave"}
BackingAt == {"begun", "recover"} \cup InsideAt
RestoringAt == {"restoreDb", "moveUp", "fillUp", "undo", "restored", "recovered", "failed"}
Stages == {"idle", "safety"} \cup BackingAt \cup RestoringAt
Notes == {"death", "together", "double", "cleanedStaged", "cleanedSaved", "snapMid"}

ProcRecord == [pc : Stages, stamp : Nat, db : Nat, up : Nat, todo : SUBSET Stamps]
ProcTyped ==
    proc \in [Procs -> ProcRecord]
ShelfTyped ==
    shelf \in [Stamps -> [st : {"none", "valid", "broken"}, db : Nat, up : Nat, aged : BOOLEAN]]
RestTyped ==
    rest \in [on : BOOLEAN, staged : BOOLEAN, aged : BOOLEAN, from : [db : Nat, up : Nat],
              saved : Nat, savedAged : BOOLEAN, safety : Nat, was : [db : Nat, up : Nat]]
LiveTyped == live \in [db : Nat, up : Nat, aged : BOOLEAN]
OtherTyped ==
    /\ clock \in Nat /\ lock \in Procs \cup {Free, Dead} /\ oldLock \in BOOLEAN
    /\ faults \in Nat /\ note \in SUBSET Notes
BackupTyped == ProcTyped /\ ShelfTyped /\ RestTyped /\ LiveTyped /\ OtherTyped

\* Until a process dies the lock names the one inside, and nobody recovers it.
LockHeld ==
    "death" \notin note =>
        /\ lock # Dead
        /\ \A p \in Procs : /\ proc[p].pc \in InsideAt => lock = p
                            /\ proc[p].pc # "recover"

\* A stamp is one process's own, and names nothing until that process publishes.
StampsOwn ==
    /\ \A b \in Stamps : b >= clock => shelf[b].st = "none"
    /\ \A p \in Procs : proc[p].pc \in BackingAt =>
          /\ proc[p].stamp \in Stamps /\ proc[p].stamp < clock
          /\ \A q \in Procs : q # p /\ proc[q].pc \in BackingAt => proc[q].stamp # proc[p].stamp
          /\ proc[p].pc \notin {"list", "prune", "leave"} => shelf[proc[p].stamp].st = "none"
    /\ proc[Restorer].pc \in RestoringAt =>
          /\ rest.safety < clock
          /\ \A q \in Procs : proc[q].pc \in BackingAt => proc[q].stamp # rest.safety

\* Only the restorer restores, from the first step to the answer.
OneRestorer ==
    /\ \A p \in Procs : proc[p].pc \in {"safety"} \cup RestoringAt => p = Restorer /\ rest.on
    /\ rest.on => proc[Restorer].pc # "idle"

\* While processes enter one by one, a good backup remains apart from the one that may
\* yet be withdrawn and those that retention may take.
Alone == \A p, q \in Procs : proc[p].pc \in InsideAt /\ proc[q].pc \in InsideAt => p = q
Lasting ==
    /\ Alone /\ Valid # {}
    /\ \A p \in Procs :
          /\ proc[p].pc \in {"begun", "recover", "copyDb", "copyUp", "publish", "list"} => proc[p].todo = {}
          /\ proc[p].pc \in {"list", "prune"} =>
                \E b \in Valid : b # proc[p].stamp /\ b \notin proc[p].todo

\* Why the uploads may be gone for good.
Excuses == {"double", "cleanedStaged", "cleanedSaved", "snapMid"}
Excused == note \cap Excuses # {}

EmptyCopies ==
    /\ \A b \in Stamps : shelf[b].st = "valid" /\ shelf[b].up = Nothing => "snapMid" \in note
    /\ \A p \in Procs : proc[p].pc = "publish" /\ proc[p].up = Nothing => "snapMid" \in note
    /\ rest.on /\ rest.from.up = Nothing => "snapMid" \in note
    /\ rest.on /\ rest.was.up = Nothing => Excused
    /\ rest.on /\ ~rest.staged => "cleanedStaged" \in note
    /\ ~rest.on /\ live.up = Nothing => rest.saved # Nothing \/ Excused

\* The safety backup holds the database as it was, if it is still good.
SafetyGood ==
    LET mine == proc[Restorer] IN
    rest.on =>
        /\ mine.pc \in {"copyUp", "publish"} => mine.db = rest.was.db
        /\ mine.pc \in {"list", "prune", "leave"} /\ mine.stamp \in Valid
              => shelf[mine.stamp].db = rest.was.db
        /\ mine.pc \in RestoringAt /\ rest.safety \in Valid => shelf[rest.safety].db = rest.was.db

\* Where the live database and uploads are at each stage of a restore.
Progress ==
    LET step == proc[Restorer].pc IN
    rest.on =>
        /\ step \in {"safety", "restoreDb"} \cup BackingAt =>
              live.db = rest.was.db /\ live.up = rest.was.up /\ rest.saved = Nothing
        /\ step = "moveUp" => live.db = rest.from.db /\ live.up = rest.was.up /\ rest.saved = Nothing
        /\ step = "fillUp" =>
              /\ live.db = rest.from.db /\ live.up = Nothing
              /\ "cleanedSaved" \notin note => rest.saved = rest.was.up
        /\ step = "undo" /\ "cleanedSaved" \notin note =>
              IF rest.saved = Nothing THEN live.up = rest.was.up ELSE rest.saved = rest.was.up
        /\ step = "restored" /\ "cleanedStaged" \notin note =>
              live.db = rest.from.db /\ live.up = rest.from.up
        /\ step = "recovered" /\ "cleanedSaved" \notin note =>
              live.db = rest.was.db /\ live.up = rest.was.up
        /\ step = "failed" => "double" \in note

BackupInv ==
    /\ BackupTyped /\ LockHeld /\ StampsOwn /\ OneRestorer /\ EmptyCopies /\ SafetyGood /\ Progress
    /\ Retention >= 2 /\ "together" \notin note => Lasting

\* Every action keeps the record of each process well formed.
LEMMA ProcTypeStep ==
 ASSUME BackupTyped, [BackupNext]_backupVars
 PROVE  ProcTyped'
<1>. USE DEF BackupTyped, ProcTyped, OtherTyped, LiveTyped, Stages, BackingAt, InsideAt,
    RestoringAt, Stamps
<1>a. Restorer \in Procs
  BY BackupAssumption
<1>b. IdleProc \in ProcRecord
  BY DEF IdleProc, ProcRecord, Nothing
<1>c. \A r \in ProcRecord, s \in Stages : [r EXCEPT !.pc = s] \in ProcRecord
  BY DEF ProcRecord
<1>d. \A r \in ProcRecord, n \in Nat : /\ [r EXCEPT !.stamp = n] \in ProcRecord
                                      /\ [r EXCEPT !.db = n] \in ProcRecord
                                      /\ [r EXCEPT !.up = n] \in ProcRecord
  BY DEF ProcRecord
<1>e. \A r \in ProcRecord, S \in SUBSET Stamps : [r EXCEPT !.todo = S] \in ProcRecord
  BY DEF ProcRecord
<1>f. \A p \in Procs, r \in ProcRecord : proc' = [proc EXCEPT ![p] = r] => ProcTyped'
  OBVIOUS
<1>g. ASSUME NEW p \in Procs, NEW s \in Stages, StepTo(p, s) PROVE ProcTyped'
  <2>1. [proc[p] EXCEPT !.pc = s] \in ProcRecord
    BY <1>c
  <2>2. QED BY <2>1, <1>g, <1>f DEF StepTo
<1>1. ASSUME NEW p \in Procs, BackupBegin(p) PROVE ProcTyped'
  BY <1>1, <1>a, <1>b, <1>c, <1>d, <1>e, <1>f, <1>g DEF BackupBegin
<1>2. ASSUME NEW p \in Procs, LockTake(p) PROVE ProcTyped'
  BY <1>2, <1>a, <1>b, <1>c, <1>d, <1>e, <1>f, <1>g DEF LockTake
<1>3. ASSUME NEW p \in Procs, LockBusy(p) PROVE ProcTyped'
  BY <1>3, <1>a, <1>b, <1>c, <1>d, <1>e, <1>f, <1>g DEF LockBusy
<1>4. ASSUME NEW p \in Procs, LockJudge(p) PROVE ProcTyped'
  BY <1>4, <1>a, <1>b, <1>c, <1>d, <1>e, <1>f, <1>g DEF LockJudge
<1>5. ASSUME NEW p \in Procs, LockRecover(p) PROVE ProcTyped'
  BY <1>5, <1>a, <1>b, <1>c, <1>d, <1>e, <1>f, <1>g DEF LockRecover
<1>6. ASSUME NEW p \in Procs, CopyDatabase(p) PROVE ProcTyped'
  BY <1>6, <1>a, <1>b, <1>c, <1>d, <1>e, <1>f, <1>g DEF CopyDatabase
<1>7. ASSUME NEW p \in Procs, CopyUploads(p) PROVE ProcTyped'
  BY <1>7, <1>a, <1>b, <1>c, <1>d, <1>e, <1>f, <1>g DEF CopyUploads
<1>8. ASSUME NEW p \in Procs, Publish(p) PROVE ProcTyped'
  BY <1>8, <1>a, <1>b, <1>c, <1>d, <1>e, <1>f, <1>g DEF Publish
<1>9. ASSUME NEW p \in Procs, PruneList(p) PROVE ProcTyped'
  BY <1>9, <1>a, <1>b, <1>c, <1>d, <1>e, <1>f, <1>g DEF PruneList, Valid
<1>10. ASSUME NEW p \in Procs, PruneOne(p) PROVE ProcTyped'
  <2>1. PICK b \in Oldest(p) : proc' = [proc EXCEPT ![p].todo = @ \ {b}]
    BY <1>10 DEF PruneOne
  <2>2. proc[p].todo \ {b} \in SUBSET Stamps
    BY DEF ProcRecord
  <2>3. QED BY <2>1, <2>2, <1>e, <1>f
<1>11. ASSUME NEW p \in Procs, PruneEnd(p) PROVE ProcTyped'
  BY <1>11, <1>a, <1>b, <1>c, <1>d, <1>e, <1>f, <1>g DEF PruneEnd
<1>12. ASSUME NEW p \in Procs, Leave(p) PROVE ProcTyped'
  BY <1>12, <1>a, <1>b, <1>c, <1>d, <1>e, <1>f, <1>g DEF Leave
<1>13. ASSUME NEW p \in Procs, BackupFails(p) PROVE ProcTyped'
  BY <1>13, <1>a, <1>b, <1>c, <1>d, <1>e, <1>f, <1>g DEF BackupFails
<1>14. ASSUME NEW p \in Procs, BackupDies(p) PROVE ProcTyped'
  BY <1>14, <1>a, <1>b, <1>c, <1>d, <1>e, <1>f, <1>g DEF BackupDies
<1>15. ASSUME NEW b \in Stamps, RestoreBegin(b) PROVE ProcTyped'
  BY <1>15, <1>a, <1>b, <1>c, <1>d, <1>e, <1>f, <1>g DEF RestoreBegin
<1>16. ASSUME RestoreDatabase PROVE ProcTyped'
  BY <1>16, <1>a, <1>b, <1>c, <1>d, <1>e, <1>f, <1>g DEF RestoreDatabase
<1>17. ASSUME MoveUploads PROVE ProcTyped'
  BY <1>17, <1>a, <1>b, <1>c, <1>d, <1>e, <1>f, <1>g DEF MoveUploads
<1>18. ASSUME FillUploads PROVE ProcTyped'
  BY <1>18, <1>a, <1>b, <1>c, <1>d, <1>e, <1>f, <1>g DEF FillUploads
<1>19. ASSUME RestoreFails PROVE ProcTyped'
  BY <1>19, <1>a, <1>b, <1>c, <1>d, <1>e, <1>f, <1>g DEF RestoreFails
<1>20. ASSUME Undo PROVE ProcTyped'
  BY <1>20, <1>a, <1>b, <1>c, <1>d, <1>e, <1>f, <1>g DEF Undo
<1>21. ASSUME UndoFails PROVE ProcTyped'
  BY <1>21, <1>a, <1>b, <1>c, <1>d, <1>e, <1>f, <1>g DEF UndoFails
<1>22. ASSUME RestoreAnswer PROVE ProcTyped'
  BY <1>22, <1>a, <1>b, <1>c, <1>d, <1>e, <1>f, <1>g DEF RestoreAnswer
<1>23. ASSUME RestoreDies PROVE ProcTyped'
  BY <1>23, <1>a, <1>b, <1>c, <1>d, <1>e, <1>f, <1>g DEF RestoreDies
<1>24. ASSUME CleanTemp PROVE ProcTyped'
  BY <1>24, <1>a, <1>b, <1>c, <1>d, <1>e, <1>f, <1>g DEF CleanTemp
<1>25. ASSUME UserWrites PROVE ProcTyped'
  BY <1>25, <1>a, <1>b, <1>c, <1>d, <1>e, <1>f, <1>g DEF UserWrites
<1>26. ASSUME LockAges PROVE ProcTyped'
  BY <1>26, <1>a, <1>b, <1>c, <1>d, <1>e, <1>f, <1>g DEF LockAges
<1>27. ASSUME DayPasses PROVE ProcTyped'
  BY <1>27, <1>a, <1>b, <1>c, <1>d, <1>e, <1>f, <1>g DEF DayPasses
<1>28. CASE UNCHANGED backupVars
  BY <1>28, <1>a, <1>b, <1>c, <1>d, <1>e, <1>f, <1>g DEF backupVars
<1>29. QED
  BY <1>1, <1>2, <1>3, <1>4, <1>5, <1>6, <1>7, <1>8, <1>9, <1>10, <1>11, <1>12, <1>13, <1>14,
     <1>15, <1>16, <1>17, <1>18, <1>19, <1>20, <1>21, <1>22, <1>23, <1>24, <1>25, <1>26, <1>27, <1>28
  DEF BackupNext, BackupStep, RestoreStep

\* Every action keeps the shelf of backups well formed.
LEMMA ShelfTypeStep ==
 ASSUME BackupTyped, [BackupNext]_backupVars
 PROVE  ShelfTyped'
<1>. USE DEF BackupTyped, ShelfTyped, ProcTyped, OtherTyped, LiveTyped, ProcRecord
<1>1. ASSUME NEW p \in Procs, BackupBegin(p) PROVE ShelfTyped'
  BY <1>1 DEF BackupBegin
<1>2. ASSUME NEW p \in Procs, LockTake(p) PROVE ShelfTyped'
  BY <1>2 DEF LockTake
<1>3. ASSUME NEW p \in Procs, LockBusy(p) PROVE ShelfTyped'
  BY <1>3 DEF LockBusy
<1>4. ASSUME NEW p \in Procs, LockJudge(p) PROVE ShelfTyped'
  BY <1>4 DEF LockJudge
<1>5. ASSUME NEW p \in Procs, LockRecover(p) PROVE ShelfTyped'
  BY <1>5 DEF LockRecover
<1>6. ASSUME NEW p \in Procs, CopyDatabase(p) PROVE ShelfTyped'
  BY <1>6 DEF CopyDatabase
<1>7. ASSUME NEW p \in Procs, CopyUploads(p) PROVE ShelfTyped'
  BY <1>7 DEF CopyUploads
<1>8. ASSUME NEW p \in Procs, Publish(p) PROVE ShelfTyped'
  BY <1>8 DEF Publish
<1>9. ASSUME NEW p \in Procs, PruneList(p) PROVE ShelfTyped'
  BY <1>9 DEF PruneList
<1>10. ASSUME NEW p \in Procs, PruneOne(p) PROVE ShelfTyped'
  <2>1. PICK b \in Oldest(p) : shelf' = [shelf EXCEPT ![b] = NoBackup]
    BY <1>10 DEF PruneOne
  <2>2. QED BY <2>1 DEF NoBackup, Nothing
<1>11. ASSUME NEW p \in Procs, PruneEnd(p) PROVE ShelfTyped'
  BY <1>11 DEF PruneEnd
<1>12. ASSUME NEW p \in Procs, Leave(p) PROVE ShelfTyped'
  BY <1>12 DEF Leave
<1>13. ASSUME NEW p \in Procs, BackupFails(p) PROVE ShelfTyped'
  BY <1>13, SMTT(20) DEF BackupFails, NoBackup, Nothing
<1>14. ASSUME NEW p \in Procs, BackupDies(p) PROVE ShelfTyped'
  BY <1>14 DEF BackupDies
<1>15. ASSUME NEW b \in Stamps, RestoreBegin(b) PROVE ShelfTyped'
  BY <1>15 DEF RestoreBegin
<1>16. ASSUME RestoreDatabase PROVE ShelfTyped'
  BY <1>16 DEF RestoreDatabase
<1>17. ASSUME MoveUploads PROVE ShelfTyped'
  BY <1>17 DEF MoveUploads
<1>18. ASSUME FillUploads PROVE ShelfTyped'
  BY <1>18 DEF FillUploads
<1>19. ASSUME RestoreFails PROVE ShelfTyped'
  BY <1>19 DEF RestoreFails
<1>20. ASSUME Undo PROVE ShelfTyped'
  BY <1>20 DEF Undo
<1>21. ASSUME UndoFails PROVE ShelfTyped'
  BY <1>21 DEF UndoFails
<1>22. ASSUME RestoreAnswer PROVE ShelfTyped'
  BY <1>22 DEF RestoreAnswer
<1>23. ASSUME RestoreDies PROVE ShelfTyped'
  BY <1>23 DEF RestoreDies
<1>24. ASSUME CleanTemp PROVE ShelfTyped'
  BY <1>24 DEF CleanTemp
<1>25. ASSUME UserWrites PROVE ShelfTyped'
  BY <1>25 DEF UserWrites
<1>26. ASSUME LockAges PROVE ShelfTyped'
  BY <1>26 DEF LockAges
<1>27. ASSUME DayPasses PROVE ShelfTyped'
  BY <1>27 DEF DayPasses
<1>28. CASE UNCHANGED backupVars
  BY <1>28 DEF backupVars
<1>29. QED
  BY <1>1, <1>2, <1>3, <1>4, <1>5, <1>6, <1>7, <1>8, <1>9, <1>10, <1>11, <1>12, <1>13, <1>14,
     <1>15, <1>16, <1>17, <1>18, <1>19, <1>20, <1>21, <1>22, <1>23, <1>24, <1>25, <1>26, <1>27, <1>28
  DEF BackupNext, BackupStep, RestoreStep

\* Every action keeps the restore's record well formed.
LEMMA RestTypeStep ==
 ASSUME BackupTyped, [BackupNext]_backupVars
 PROVE  RestTyped'
<1>. USE DEF BackupTyped, RestTyped, ProcTyped, OtherTyped, LiveTyped, ProcRecord, ShelfTyped,
    NoRestore, Nothing, GivenUp
<1>1. ASSUME NEW p \in Procs, BackupBegin(p) PROVE RestTyped'
  BY <1>1 DEF BackupBegin
<1>2. ASSUME NEW p \in Procs, LockTake(p) PROVE RestTyped'
  BY <1>2 DEF LockTake
<1>3. ASSUME NEW p \in Procs, LockBusy(p) PROVE RestTyped'
  BY <1>3 DEF LockBusy
<1>4. ASSUME NEW p \in Procs, LockJudge(p) PROVE RestTyped'
  BY <1>4 DEF LockJudge
<1>5. ASSUME NEW p \in Procs, LockRecover(p) PROVE RestTyped'
  <2>1. rest' = rest \/ rest' = NoRestore
    BY <1>5 DEF LockRecover
  <2>2. CASE rest' = rest
    BY <2>2
  <2>3. CASE rest' = NoRestore
    BY <2>3
  <2>4. QED BY <2>1, <2>2, <2>3
<1>6. ASSUME NEW p \in Procs, CopyDatabase(p) PROVE RestTyped'
  BY <1>6 DEF CopyDatabase
<1>7. ASSUME NEW p \in Procs, CopyUploads(p) PROVE RestTyped'
  BY <1>7 DEF CopyUploads
<1>8. ASSUME NEW p \in Procs, Publish(p) PROVE RestTyped'
  BY <1>8 DEF Publish
<1>9. ASSUME NEW p \in Procs, PruneList(p) PROVE RestTyped'
  BY <1>9 DEF PruneList
<1>10. ASSUME NEW p \in Procs, PruneOne(p) PROVE RestTyped'
  BY <1>10 DEF PruneOne
<1>11. ASSUME NEW p \in Procs, PruneEnd(p) PROVE RestTyped'
  BY <1>11 DEF PruneEnd
<1>12. ASSUME NEW p \in Procs, Leave(p) PROVE RestTyped'
  BY <1>12 DEF Leave
<1>13. ASSUME NEW p \in Procs, BackupFails(p) PROVE RestTyped'
  BY <1>13 DEF BackupFails
<1>14. ASSUME NEW p \in Procs, BackupDies(p) PROVE RestTyped'
  BY <1>14 DEF BackupDies
<1>15. ASSUME NEW b \in Stamps, RestoreBegin(b) PROVE RestTyped'
  <2>1. /\ [db |-> shelf[b].db, up |-> shelf[b].up] \in [db : Nat, up : Nat]
       /\ [db |-> live.db, up |-> live.up] \in [db : Nat, up : Nat]
       /\ shelf[b].aged \in BOOLEAN
    OBVIOUS
  <2>2. QED BY <2>1, <1>15 DEF RestoreBegin
<1>16. ASSUME RestoreDatabase PROVE RestTyped'
  BY <1>16 DEF RestoreDatabase
<1>17. ASSUME MoveUploads PROVE RestTyped'
  BY <1>17 DEF MoveUploads
<1>18. ASSUME FillUploads PROVE RestTyped'
  BY <1>18 DEF FillUploads
<1>19. ASSUME RestoreFails PROVE RestTyped'
  BY <1>19 DEF RestoreFails
<1>20. ASSUME Undo PROVE RestTyped'
  BY <1>20 DEF Undo
<1>21. ASSUME UndoFails PROVE RestTyped'
  BY <1>21 DEF UndoFails
<1>22. ASSUME RestoreAnswer PROVE RestTyped'
  BY <1>22 DEF RestoreAnswer
<1>23. ASSUME RestoreDies PROVE RestTyped'
  BY <1>23 DEF RestoreDies
<1>24. ASSUME CleanTemp PROVE RestTyped'
  <2>1. rest' = [rest EXCEPT !.staged = FALSE] \/ rest' = [rest EXCEPT !.saved = Nothing]
    BY <1>24 DEF CleanTemp
  <2>2. CASE rest' = [rest EXCEPT !.staged = FALSE]
    BY <2>2
  <2>3. CASE rest' = [rest EXCEPT !.saved = Nothing]
    BY <2>3
  <2>4. QED BY <2>1, <2>2, <2>3
<1>25. ASSUME UserWrites PROVE RestTyped'
  BY <1>25 DEF UserWrites
<1>26. ASSUME LockAges PROVE RestTyped'
  BY <1>26 DEF LockAges
<1>27. ASSUME DayPasses PROVE RestTyped'
  BY <1>27 DEF DayPasses
<1>28. CASE UNCHANGED backupVars
  BY <1>28 DEF backupVars
<1>29. QED
  BY <1>1, <1>2, <1>3, <1>4, <1>5, <1>6, <1>7, <1>8, <1>9, <1>10, <1>11, <1>12, <1>13, <1>14,
     <1>15, <1>16, <1>17, <1>18, <1>19, <1>20, <1>21, <1>22, <1>23, <1>24, <1>25, <1>26, <1>27, <1>28
  DEF BackupNext, BackupStep, RestoreStep

\* Every action keeps the other variables well formed.
LEMMA OtherTypeStep ==
 ASSUME BackupTyped, [BackupNext]_backupVars
 PROVE  LiveTyped' /\ OtherTyped'
<1>. USE DEF BackupTyped, RestTyped, ProcTyped, OtherTyped, LiveTyped, ProcRecord, ShelfTyped,
    Nothing, Notes, Together, ClockWithout, Valid
<1>a. Stamps \subseteq Nat /\ LastStamp \in Nat
  BY BackupAssumption DEF Stamps
<1>1. ASSUME NEW p \in Procs, BackupBegin(p) PROVE LiveTyped' /\ OtherTyped'
  BY <1>1, <1>a DEF BackupBegin
<1>2. ASSUME NEW p \in Procs, LockTake(p) PROVE LiveTyped' /\ OtherTyped'
  BY <1>2, <1>a DEF LockTake
<1>3. ASSUME NEW p \in Procs, LockBusy(p) PROVE LiveTyped' /\ OtherTyped'
  BY <1>3, <1>a DEF LockBusy
<1>4. ASSUME NEW p \in Procs, LockJudge(p) PROVE LiveTyped' /\ OtherTyped'
  BY <1>4, <1>a DEF LockJudge
<1>5. ASSUME NEW p \in Procs, LockRecover(p) PROVE LiveTyped' /\ OtherTyped'
  BY <1>5, <1>a, ZenonT(60) DEF LockRecover
<1>6. ASSUME NEW p \in Procs, CopyDatabase(p) PROVE LiveTyped' /\ OtherTyped'
  BY <1>6, <1>a DEF CopyDatabase
<1>7. ASSUME NEW p \in Procs, CopyUploads(p) PROVE LiveTyped' /\ OtherTyped'
  BY <1>7, <1>a DEF CopyUploads
<1>8. ASSUME NEW p \in Procs, Publish(p) PROVE LiveTyped' /\ OtherTyped'
  BY <1>8, <1>a DEF Publish
<1>9. ASSUME NEW p \in Procs, PruneList(p) PROVE LiveTyped' /\ OtherTyped'
  BY <1>9, <1>a DEF PruneList
<1>10. ASSUME NEW p \in Procs, PruneOne(p) PROVE LiveTyped' /\ OtherTyped'
  BY <1>10, <1>a DEF PruneOne
<1>11. ASSUME NEW p \in Procs, PruneEnd(p) PROVE LiveTyped' /\ OtherTyped'
  BY <1>11, <1>a DEF PruneEnd
<1>12. ASSUME NEW p \in Procs, Leave(p) PROVE LiveTyped' /\ OtherTyped'
  BY <1>12, <1>a DEF Leave
<1>13. ASSUME NEW p \in Procs, BackupFails(p) PROVE LiveTyped' /\ OtherTyped'
  <2>1. faults' = faults \/ faults' = faults + 1
    BY <1>13 DEF BackupFails
  <2>2. faults' \in Nat
    BY <2>1
  <2>3. QED BY <1>13, <2>2 DEF BackupFails
<1>14. ASSUME NEW p \in Procs, BackupDies(p) PROVE LiveTyped' /\ OtherTyped'
  BY <1>14, <1>a DEF BackupDies
<1>15. ASSUME NEW b \in Stamps, RestoreBegin(b) PROVE LiveTyped' /\ OtherTyped'
  BY <1>15, <1>a DEF RestoreBegin
<1>16. ASSUME RestoreDatabase PROVE LiveTyped' /\ OtherTyped'
  BY <1>16, <1>a DEF RestoreDatabase
<1>17. ASSUME MoveUploads PROVE LiveTyped' /\ OtherTyped'
  BY <1>17, <1>a DEF MoveUploads
<1>18. ASSUME FillUploads PROVE LiveTyped' /\ OtherTyped'
  BY <1>18, <1>a DEF FillUploads
<1>19. ASSUME RestoreFails PROVE LiveTyped' /\ OtherTyped'
  BY <1>19, <1>a DEF RestoreFails
<1>20. ASSUME Undo PROVE LiveTyped' /\ OtherTyped'
  BY <1>20, <1>a DEF Undo
<1>21. ASSUME UndoFails PROVE LiveTyped' /\ OtherTyped'
  BY <1>21, <1>a DEF UndoFails
<1>22. ASSUME RestoreAnswer PROVE LiveTyped' /\ OtherTyped'
  BY <1>22, <1>a DEF RestoreAnswer
<1>23. ASSUME RestoreDies PROVE LiveTyped' /\ OtherTyped'
  BY <1>23, <1>a DEF RestoreDies
<1>24. ASSUME CleanTemp PROVE LiveTyped' /\ OtherTyped'
  BY <1>24, <1>a DEF CleanTemp
<1>25. ASSUME UserWrites PROVE LiveTyped' /\ OtherTyped'
  BY <1>25, <1>a DEF UserWrites
<1>26. ASSUME LockAges PROVE LiveTyped' /\ OtherTyped'
  BY <1>26, <1>a DEF LockAges
<1>27. ASSUME DayPasses PROVE LiveTyped' /\ OtherTyped'
  BY <1>27, <1>a DEF DayPasses
<1>28. CASE UNCHANGED backupVars
  <2>1. /\ live' = live /\ shelf' = shelf /\ clock' = clock /\ lock' = lock /\ oldLock' = oldLock
        /\ proc' = proc /\ rest' = rest /\ faults' = faults /\ note' = note
    BY ONLY <1>28 DEF backupVars
  <2>2. QED BY <2>1, <1>a
<1>29. QED
  BY <1>1, <1>2, <1>3, <1>4, <1>5, <1>6, <1>7, <1>8, <1>9, <1>10, <1>11, <1>12, <1>13, <1>14,
     <1>15, <1>16, <1>17, <1>18, <1>19, <1>20, <1>21, <1>22, <1>23, <1>24, <1>25, <1>26, <1>27, <1>28
  DEF BackupNext, BackupStep, RestoreStep

\* Before the first death a lock is taken only when it is free and removed only by the one inside.
LEMMA LockHeldStep ==
 ASSUME BackupInv, [BackupNext]_backupVars
 PROVE  LockHeld'
<1>. USE DEF BackupInv, BackupTyped, ProcTyped, ProcRecord, LockHeld, InsideAt
<1>a. Restorer \in Procs /\ \A p \in Procs : p # Free /\ p # Dead
  BY BackupAssumption
<1>1. ASSUME NEW p \in Procs, BackupBegin(p) PROVE LockHeld'
  BY <1>1, <1>a DEF BackupBegin, StepTo, At
<1>2. ASSUME NEW p \in Procs, LockTake(p) PROVE LockHeld'
  <2>1. "death" \in note' <=> "death" \in note
    BY <1>2 DEF LockTake, Together
  <2>2. QED BY <1>2, <2>1, <1>a DEF LockTake, StepTo, At
<1>3. ASSUME NEW p \in Procs, LockBusy(p) PROVE LockHeld'
  BY <1>3, <1>a DEF LockBusy, StepTo, At
<1>4. ASSUME NEW p \in Procs, LockJudge(p) PROVE LockHeld'
  BY <1>4, <1>a DEF LockJudge, StepTo, At
<1>5. ASSUME NEW p \in Procs, LockRecover(p) PROVE LockHeld'
  <2>1. "death" \in note
    BY <1>5 DEF LockRecover, At
  <2>2. "death" \in note'
    BY <1>5, <2>1 DEF LockRecover, Together
  <2>3. QED BY <2>2
<1>6. ASSUME NEW p \in Procs, CopyDatabase(p) PROVE LockHeld'
  BY <1>6, <1>a DEF CopyDatabase, StepTo, At
<1>7. ASSUME NEW p \in Procs, CopyUploads(p) PROVE LockHeld'
  BY <1>7, <1>a DEF CopyUploads, StepTo, At
<1>8. ASSUME NEW p \in Procs, Publish(p) PROVE LockHeld'
  BY <1>8, <1>a DEF Publish, StepTo, At
<1>9. ASSUME NEW p \in Procs, PruneList(p) PROVE LockHeld'
  BY <1>9, <1>a DEF PruneList, StepTo, At
<1>10. ASSUME NEW p \in Procs, PruneOne(p) PROVE LockHeld'
  BY <1>10, <1>a DEF PruneOne, StepTo, At
<1>11. ASSUME NEW p \in Procs, PruneEnd(p) PROVE LockHeld'
  BY <1>11, <1>a DEF PruneEnd, StepTo, At
<1>12. ASSUME NEW p \in Procs, Leave(p) PROVE LockHeld'
  <2>1. /\ proc[p].pc = "leave" /\ lock' = Free /\ note' = note
       /\ proc'[p].pc \in {"idle", "restoreDb"}
       /\ \A q \in Procs \ {p} : proc'[q] = proc[q]
    BY <1>12 DEF Leave, IdleProc, At
  <2>2. QED BY <2>1, <1>a DEF Free, Dead
<1>13. ASSUME NEW p \in Procs, BackupFails(p) PROVE LockHeld'
  <2>1. /\ proc[p].pc \in InsideAt /\ lock' = Free /\ note' = note
       /\ proc'[p].pc = "idle"
       /\ \A q \in Procs \ {p} : proc'[q] = proc[q]
    BY <1>13 DEF BackupFails, IdleProc, Inside
  <2>2. QED BY <2>1, <1>a DEF Free, Dead
<1>14. ASSUME NEW p \in Procs, BackupDies(p) PROVE LockHeld'
  BY <1>14, <1>a DEF BackupDies, StepTo, At
<1>15. ASSUME NEW b \in Stamps, RestoreBegin(b) PROVE LockHeld'
  BY <1>15, <1>a DEF RestoreBegin, StepTo, At
<1>16. ASSUME RestoreDatabase PROVE LockHeld'
  BY <1>16, <1>a DEF RestoreDatabase, StepTo, At
<1>17. ASSUME MoveUploads PROVE LockHeld'
  BY <1>17, <1>a DEF MoveUploads, StepTo, At
<1>18. ASSUME FillUploads PROVE LockHeld'
  BY <1>18, <1>a DEF FillUploads, StepTo, At
<1>19. ASSUME RestoreFails PROVE LockHeld'
  BY <1>19, <1>a DEF RestoreFails, StepTo, At
<1>20. ASSUME Undo PROVE LockHeld'
  BY <1>20, <1>a DEF Undo, StepTo, At
<1>21. ASSUME UndoFails PROVE LockHeld'
  BY <1>21, <1>a DEF UndoFails, StepTo, At
<1>22. ASSUME RestoreAnswer PROVE LockHeld'
  BY <1>22, <1>a DEF RestoreAnswer, IdleProc
<1>23. ASSUME RestoreDies PROVE LockHeld'
  BY <1>23, <1>a DEF RestoreDies
<1>24. ASSUME CleanTemp PROVE LockHeld'
  BY <1>24, <1>a DEF CleanTemp
<1>25. ASSUME UserWrites PROVE LockHeld'
  BY <1>25, <1>a DEF UserWrites
<1>26. ASSUME LockAges PROVE LockHeld'
  BY <1>26, <1>a DEF LockAges
<1>27. ASSUME DayPasses PROVE LockHeld'
  BY <1>27, <1>a DEF DayPasses
<1>28. CASE UNCHANGED backupVars
  <2>1. /\ live' = live /\ shelf' = shelf /\ clock' = clock /\ lock' = lock /\ oldLock' = oldLock
        /\ proc' = proc /\ rest' = rest /\ faults' = faults /\ note' = note
    BY ONLY <1>28 DEF backupVars
  <2>2. QED BY <2>1, <1>a
<1>29. QED
  BY <1>1, <1>2, <1>3, <1>4, <1>5, <1>6, <1>7, <1>8, <1>9, <1>10, <1>11, <1>12, <1>13, <1>14,
     <1>15, <1>16, <1>17, <1>18, <1>19, <1>20, <1>21, <1>22, <1>23, <1>24, <1>25, <1>26, <1>27, <1>28
  DEF BackupNext, BackupStep, RestoreStep

\* The restore is begun, carried on and given up by the restorer alone.
LEMMA OneRestorerStep ==
 ASSUME BackupInv, [BackupNext]_backupVars
 PROVE  OneRestorer'
<1>. USE DEF BackupInv, BackupTyped, ProcTyped, ProcRecord, RestTyped, OneRestorer, InsideAt,
    RestoringAt, BackingAt
<1>a. Restorer \in Procs
  BY BackupAssumption
<1>1. ASSUME NEW p \in Procs, BackupBegin(p) PROVE OneRestorer'
  BY <1>1, <1>a DEF BackupBegin, StepTo, At, IdleProc
<1>2. ASSUME NEW p \in Procs, LockTake(p) PROVE OneRestorer'
  BY <1>2, <1>a DEF LockTake, StepTo, At
<1>3. ASSUME NEW p \in Procs, LockBusy(p) PROVE OneRestorer'
  BY <1>3, <1>a DEF LockBusy, StepTo, At, GivenUp, Restoring, NoRestore
<1>4. ASSUME NEW p \in Procs, LockJudge(p) PROVE OneRestorer'
  BY <1>4, <1>a DEF LockJudge, StepTo, At
<1>5. ASSUME NEW p \in Procs, LockRecover(p) PROVE OneRestorer'
  BY <1>5, <1>a DEF LockRecover, StepTo, At, GivenUp, Restoring, NoRestore
<1>6. ASSUME NEW p \in Procs, CopyDatabase(p) PROVE OneRestorer'
  BY <1>6, <1>a DEF CopyDatabase, StepTo, At
<1>7. ASSUME NEW p \in Procs, CopyUploads(p) PROVE OneRestorer'
  BY <1>7, <1>a DEF CopyUploads, StepTo, At
<1>8. ASSUME NEW p \in Procs, Publish(p) PROVE OneRestorer'
  BY <1>8, <1>a DEF Publish, StepTo, At
<1>9. ASSUME NEW p \in Procs, PruneList(p) PROVE OneRestorer'
  BY <1>9, <1>a DEF PruneList, StepTo, At
<1>10. ASSUME NEW p \in Procs, PruneOne(p) PROVE OneRestorer'
  BY <1>10, <1>a DEF PruneOne, StepTo, At
<1>11. ASSUME NEW p \in Procs, PruneEnd(p) PROVE OneRestorer'
  BY <1>11, <1>a DEF PruneEnd, StepTo, At
<1>12. ASSUME NEW p \in Procs, Leave(p) PROVE OneRestorer'
  BY <1>12, <1>a DEF Leave, StepTo, At, IdleProc, Restoring
<1>13. ASSUME NEW p \in Procs, BackupFails(p) PROVE OneRestorer'
  BY <1>13, <1>a DEF BackupFails, StepTo, At, IdleProc, GivenUp, Restoring, NoRestore, Inside
<1>14. ASSUME NEW p \in Procs, BackupDies(p) PROVE OneRestorer'
  BY <1>14, <1>a DEF BackupDies, StepTo, At, IdleProc, GivenUp, Restoring, NoRestore, Inside
<1>15. ASSUME NEW b \in Stamps, RestoreBegin(b) PROVE OneRestorer'
  BY <1>15, <1>a DEF RestoreBegin, StepTo, At, NoRestore, Restoring
<1>16. ASSUME RestoreDatabase PROVE OneRestorer'
  BY <1>16, <1>a DEF RestoreDatabase, StepTo, At
<1>17. ASSUME MoveUploads PROVE OneRestorer'
  BY <1>17, <1>a DEF MoveUploads, StepTo, At
<1>18. ASSUME FillUploads PROVE OneRestorer'
  BY <1>18, <1>a DEF FillUploads, StepTo, At
<1>19. ASSUME RestoreFails PROVE OneRestorer'
  BY <1>19, <1>a DEF RestoreFails, StepTo, At
<1>20. ASSUME Undo PROVE OneRestorer'
  BY <1>20, <1>a DEF Undo, StepTo, At
<1>21. ASSUME UndoFails PROVE OneRestorer'
  BY <1>21, <1>a DEF UndoFails, StepTo, At
<1>22. ASSUME RestoreAnswer PROVE OneRestorer'
  BY <1>22, <1>a DEF RestoreAnswer, IdleProc, NoRestore
<1>23. ASSUME RestoreDies PROVE OneRestorer'
  BY <1>23, <1>a DEF RestoreDies, IdleProc
<1>24. ASSUME CleanTemp PROVE OneRestorer'
  BY <1>24, <1>a DEF CleanTemp
<1>25. ASSUME UserWrites PROVE OneRestorer'
  BY <1>25, <1>a DEF UserWrites
<1>26. ASSUME LockAges PROVE OneRestorer'
  BY <1>26, <1>a DEF LockAges
<1>27. ASSUME DayPasses PROVE OneRestorer'
  BY <1>27, <1>a DEF DayPasses
<1>28. CASE UNCHANGED backupVars
  <2>1. /\ live' = live /\ shelf' = shelf /\ clock' = clock /\ lock' = lock /\ oldLock' = oldLock
        /\ proc' = proc /\ rest' = rest /\ faults' = faults /\ note' = note
    BY ONLY <1>28 DEF backupVars
  <2>2. QED BY <2>1, <1>a
<1>29. QED
  BY <1>1, <1>2, <1>3, <1>4, <1>5, <1>6, <1>7, <1>8, <1>9, <1>10, <1>11, <1>12, <1>13, <1>14,
     <1>15, <1>16, <1>17, <1>18, <1>19, <1>20, <1>21, <1>22, <1>23, <1>24, <1>25, <1>26, <1>27, <1>28
  DEF BackupNext, BackupStep, RestoreStep

\* A name is handed out again only when its backup was withdrawn.
LEMMA StampsOwnStep ==
 ASSUME BackupInv, [BackupNext]_backupVars
 PROVE  StampsOwn'
<1>. USE DEF BackupInv, BackupTyped, ProcTyped, ProcRecord, RestTyped, ShelfTyped, OtherTyped,
    StampsOwn, InsideAt, RestoringAt, BackingAt
<1>a. Restorer \in Procs /\ Stamps \subseteq Nat /\ LastStamp \in Nat
  BY BackupAssumption DEF Stamps
<1>b. ASSUME NEW p \in Procs, proc[p].pc \in BackingAt, proc'[p].pc = "idle",
             \A q \in Procs \ {p} : proc'[q] = proc[q],
             rest' = GivenUp(p), clock' = ClockWithout(p),
             shelf'[proc[p].stamp].st = "none",
             \A b \in Stamps : shelf[b].st = "none" => shelf'[b].st = "none"
      PROVE  StampsOwn'
  <2>1. /\ proc[p].stamp \in Stamps /\ proc[p].stamp < clock /\ clock \in Nat
        /\ clock' = clock \/ (clock' = proc[p].stamp /\ clock = proc[p].stamp + 1)
    BY <1>b, <1>a DEF ClockWithout
  <2>2. \A b \in Stamps : b >= clock' => shelf'[b].st = "none"
    BY <1>b, <1>a, <2>1
  <2>3. \A q \in Procs : proc'[q].pc \in BackingAt =>
          /\ q # p /\ proc'[q].stamp \in Stamps /\ proc'[q].stamp < clock'
          /\ proc'[q].pc \notin {"list", "prune", "leave"} => shelf'[proc'[q].stamp].st = "none"
    <3>. TAKE q \in Procs
    <3>. HAVE proc'[q].pc \in BackingAt
    <3>1. q # p /\ proc'[q] = proc[q]
      BY <1>b
    <3>2. proc[q].stamp \in Stamps /\ proc[q].stamp < clock /\ proc[q].stamp # proc[p].stamp
      BY <3>1, <1>b
    <3>3. proc[q].pc \notin {"list", "prune", "leave"} => shelf[proc[q].stamp].st = "none"
      BY <3>1
    <3>4. \A s, t, c \in Nat : s < c /\ s # t /\ c = t + 1 => s < t
      OBVIOUS
    <3>5. proc[q].stamp < clock'
      BY ONLY <3>2, <3>4, <2>1, <1>a
    <3>6. QED BY <3>1, <3>2, <3>3, <3>5, <1>b
  <2>4. \A q, r \in Procs : q # r /\ proc'[q].pc \in BackingAt /\ proc'[r].pc \in BackingAt
                              => proc'[q].stamp # proc'[r].stamp
    BY <1>b, <2>3
  <2>5. ASSUME proc'[Restorer].pc \in RestoringAt
        PROVE  /\ rest'.safety < clock'
               /\ \A q \in Procs : proc'[q].pc \in BackingAt => proc'[q].stamp # rest'.safety
    <3>1. Restorer # p /\ rest' = rest /\ rest.safety \in Nat
      BY <1>b, <2>5 DEF GivenUp
    <3>2. QED BY <3>1, <1>b, <1>a, <2>1, <2>3, <2>5
  <2>6. QED BY <2>2, <2>3, <2>4, <2>5
<1>1. ASSUME NEW p \in Procs, BackupBegin(p) PROVE StampsOwn'
  BY <1>1, <1>a DEF BackupBegin, StepTo, At, IdleProc
<1>2. ASSUME NEW p \in Procs, LockTake(p) PROVE StampsOwn'
  BY <1>2, <1>a DEF LockTake, StepTo, At
<1>3. ASSUME NEW p \in Procs, LockBusy(p) PROVE StampsOwn'
  <2>1. /\ proc[p].pc \in BackingAt /\ proc'[p].pc = "idle"
        /\ \A q \in Procs \ {p} : proc'[q] = proc[q]
        /\ rest' = GivenUp(p) /\ clock' = ClockWithout(p) /\ shelf' = shelf
        /\ shelf[proc[p].stamp].st = "none"
    BY <1>3 DEF LockBusy, StepTo, At
  <2>2. QED BY <2>1, <1>b

<1>4. ASSUME NEW p \in Procs, LockJudge(p) PROVE StampsOwn'
  BY <1>4, <1>a DEF LockJudge, StepTo, At
<1>5. ASSUME NEW p \in Procs, LockRecover(p) PROVE StampsOwn'
  <2>1. proc[p].pc \in BackingAt /\ shelf' = shelf /\ shelf[proc[p].stamp].st = "none"
    BY <1>5 DEF LockRecover, At
  <2>2. CASE lock = Free
    <3>1. /\ proc'[p].pc = "idle" /\ \A q \in Procs \ {p} : proc'[q] = proc[q]
          /\ rest' = GivenUp(p) /\ clock' = ClockWithout(p)
      BY <1>5, <2>2 DEF LockRecover, StepTo, At
    <3>2. QED BY <2>1, <3>1, <1>b
  <2>3. CASE lock # Free
    <3>1. /\ proc'[p].pc = "copyDb" /\ proc'[p].stamp = proc[p].stamp
          /\ \A q \in Procs \ {p} : proc'[q] = proc[q]
          /\ rest' = rest /\ clock' = clock
      BY <1>5, <2>3 DEF LockRecover, StepTo, At
    <3>2. proc[p].pc = "recover"
      BY <1>5 DEF LockRecover, At
    <3>3. QED BY <2>1, <3>1, <3>2, <1>a
  <2>4. QED BY <2>2, <2>3

<1>6. ASSUME NEW p \in Procs, CopyDatabase(p) PROVE StampsOwn'
  BY <1>6, <1>a DEF CopyDatabase, StepTo, At
<1>7. ASSUME NEW p \in Procs, CopyUploads(p) PROVE StampsOwn'
  BY <1>7, <1>a, SMTT(20) DEF CopyUploads, StepTo, At
<1>8. ASSUME NEW p \in Procs, Publish(p) PROVE StampsOwn'
  BY <1>8, <1>a DEF Publish, StepTo, At
<1>9. ASSUME NEW p \in Procs, PruneList(p) PROVE StampsOwn'
  BY <1>9, <1>a DEF PruneList, StepTo, At
<1>10. ASSUME NEW p \in Procs, PruneOne(p) PROVE StampsOwn'
  BY <1>10, <1>a DEF PruneOne, StepTo, At, NoBackup
<1>11. ASSUME NEW p \in Procs, PruneEnd(p) PROVE StampsOwn'
  BY <1>11, <1>a DEF PruneEnd, StepTo, At
<1>12. ASSUME NEW p \in Procs, Leave(p) PROVE StampsOwn'
  <2>1. /\ proc[p].pc = "leave" /\ shelf' = shelf /\ clock' = clock
        /\ \A q \in Procs \ {p} : proc'[q] = proc[q]
    BY <1>12 DEF Leave, At
  <2>2. CASE Restoring /\ p = Restorer
    <3>1. proc'[p].pc = "restoreDb" /\ rest'.safety = proc[p].stamp
      BY <1>12, <2>2 DEF Leave, IdleProc
    <3>2. QED BY <2>1, <2>2, <3>1, <1>a
  <2>3. CASE ~(Restoring /\ p = Restorer)
    <3>1. proc'[p].pc = "idle" /\ rest' = rest
      BY <1>12, <2>3 DEF Leave, IdleProc
    <3>2. QED BY <2>1, <2>3, <3>1, <1>a
  <2>4. QED BY <2>2, <2>3

<1>13. ASSUME NEW p \in Procs, BackupFails(p) PROVE StampsOwn'
  <2>1. /\ proc[p].pc \in BackingAt /\ proc'[p].pc = "idle"
        /\ \A q \in Procs \ {p} : proc'[q] = proc[q]
        /\ rest' = GivenUp(p) /\ clock' = ClockWithout(p)
    BY <1>13 DEF BackupFails, Inside, IdleProc
  <2>2. PICK removing \in SUBSET Oldest(p) :
           shelf' = [b \in Stamps |->
               CASE b = proc[p].stamp -> NoBackup
                 [] b # proc[p].stamp /\ b \in removing /\ shelf[b].st = "valid" ->
                        [shelf[b] EXCEPT !.st = "broken"]
                 [] OTHER -> shelf[b]]
    BY <1>13 DEF BackupFails
  <2>3. proc[p].stamp \in Stamps
    BY <2>1
  <2>4. /\ shelf'[proc[p].stamp].st = "none"
        /\ \A b \in Stamps : shelf[b].st = "none" => shelf'[b].st = "none"
    BY <2>2, <2>3 DEF NoBackup
  <2>5. QED BY <2>1, <2>4, <1>b
<1>14. ASSUME NEW p \in Procs, BackupDies(p) PROVE StampsOwn'
  BY <1>14, <1>a DEF BackupDies, StepTo, At, IdleProc, GivenUp, Restoring, NoRestore, Inside
<1>15. ASSUME NEW b \in Stamps, RestoreBegin(b) PROVE StampsOwn'
  BY <1>15, <1>a DEF RestoreBegin, StepTo, At, NoRestore, Restoring
<1>16. ASSUME RestoreDatabase PROVE StampsOwn'
  BY <1>16, <1>a DEF RestoreDatabase, StepTo, At
<1>17. ASSUME MoveUploads PROVE StampsOwn'
  BY <1>17, <1>a DEF MoveUploads, StepTo, At
<1>18. ASSUME FillUploads PROVE StampsOwn'
  BY <1>18, <1>a DEF FillUploads, StepTo, At
<1>19. ASSUME RestoreFails PROVE StampsOwn'
  BY <1>19, <1>a DEF RestoreFails, StepTo, At
<1>20. ASSUME Undo PROVE StampsOwn'
  BY <1>20, <1>a DEF Undo, StepTo, At
<1>21. ASSUME UndoFails PROVE StampsOwn'
  BY <1>21, <1>a DEF UndoFails, StepTo, At
<1>22. ASSUME RestoreAnswer PROVE StampsOwn'
  BY <1>22, <1>a DEF RestoreAnswer, IdleProc, NoRestore
<1>23. ASSUME RestoreDies PROVE StampsOwn'
  BY <1>23, <1>a DEF RestoreDies, IdleProc
<1>24. ASSUME CleanTemp PROVE StampsOwn'
  BY <1>24, <1>a DEF CleanTemp
<1>25. ASSUME UserWrites PROVE StampsOwn'
  BY <1>25, <1>a DEF UserWrites
<1>26. ASSUME LockAges PROVE StampsOwn'
  BY <1>26, <1>a DEF LockAges
<1>27. ASSUME DayPasses PROVE StampsOwn'
  BY <1>27, <1>a DEF DayPasses
<1>28. CASE UNCHANGED backupVars
  <2>1. /\ live' = live /\ shelf' = shelf /\ clock' = clock /\ lock' = lock /\ oldLock' = oldLock
        /\ proc' = proc /\ rest' = rest /\ faults' = faults /\ note' = note
    BY ONLY <1>28 DEF backupVars
  <2>2. QED BY <2>1, <1>a
<1>29. QED
  BY <1>1, <1>2, <1>3, <1>4, <1>5, <1>6, <1>7, <1>8, <1>9, <1>10, <1>11, <1>12, <1>13, <1>14,
     <1>15, <1>16, <1>17, <1>18, <1>19, <1>20, <1>21, <1>22, <1>23, <1>24, <1>25, <1>26, <1>27, <1>28
  DEF BackupNext, BackupStep, RestoreStep

\* Uploads that are gone, in the live directory or in a copy, have an excuse.
LEMMA EmptyCopiesStep ==
 ASSUME BackupInv, [BackupNext]_backupVars
 PROVE  EmptyCopies'
<1>. USE DEF BackupInv, BackupTyped, ProcTyped, ProcRecord, RestTyped, ShelfTyped, OtherTyped,
    LiveTyped, InsideAt, RestoringAt, BackingAt, Nothing, OneRestorer, EmptyCopies, Progress,
    Excused, Excuses
<1>a. Restorer \in Procs
  BY BackupAssumption
<1>1. ASSUME NEW p \in Procs, BackupBegin(p) PROVE EmptyCopies'
  BY <1>1, <1>a DEF BackupBegin, StepTo, At, IdleProc
<1>2. ASSUME NEW p \in Procs, LockTake(p) PROVE EmptyCopies'
  BY <1>2, <1>a DEF LockTake, StepTo, At, Together
<1>3. ASSUME NEW p \in Procs, LockBusy(p) PROVE EmptyCopies'
  BY <1>3, <1>a DEF LockBusy, StepTo, At, GivenUp, Restoring, NoRestore, ClockWithout
<1>4. ASSUME NEW p \in Procs, LockJudge(p) PROVE EmptyCopies'
  BY <1>4, <1>a DEF LockJudge, StepTo, At
<1>5. ASSUME NEW p \in Procs, LockRecover(p) PROVE EmptyCopies'
  BY <1>5, <1>a DEF LockRecover, StepTo, At, GivenUp, Restoring, NoRestore, ClockWithout,
      Together
<1>6. ASSUME NEW p \in Procs, CopyDatabase(p) PROVE EmptyCopies'
  BY <1>6, <1>a DEF CopyDatabase, StepTo, At
<1>7. ASSUME NEW p \in Procs, CopyUploads(p) PROVE EmptyCopies'
  BY <1>7, <1>a DEF CopyUploads, StepTo, At
<1>8. ASSUME NEW p \in Procs, Publish(p) PROVE EmptyCopies'
  BY <1>8, <1>a DEF Publish, StepTo, At
<1>9. ASSUME NEW p \in Procs, PruneList(p) PROVE EmptyCopies'
  BY <1>9, <1>a DEF PruneList, StepTo, At, Valid
<1>10. ASSUME NEW p \in Procs, PruneOne(p) PROVE EmptyCopies'
  BY <1>10, <1>a DEF PruneOne, StepTo, At, NoBackup
<1>11. ASSUME NEW p \in Procs, PruneEnd(p) PROVE EmptyCopies'
  BY <1>11, <1>a DEF PruneEnd, StepTo, At
<1>12. ASSUME NEW p \in Procs, Leave(p) PROVE EmptyCopies'
  BY <1>12, <1>a DEF Leave, StepTo, At, IdleProc, Restoring
<1>13. ASSUME NEW p \in Procs, BackupFails(p) PROVE EmptyCopies'
  BY <1>13, <1>a DEF BackupFails, StepTo, At, IdleProc, GivenUp, Restoring, NoRestore, Inside,
      ClockWithout, NoBackup
<1>14. ASSUME NEW p \in Procs, BackupDies(p) PROVE EmptyCopies'
  BY <1>14, <1>a DEF BackupDies, StepTo, At, IdleProc, GivenUp, Restoring, NoRestore, Inside
<1>15. ASSUME NEW b \in Stamps, RestoreBegin(b) PROVE EmptyCopies'
  BY <1>15, <1>a DEF RestoreBegin, StepTo, At, NoRestore, Restoring, Valid
<1>16. ASSUME RestoreDatabase PROVE EmptyCopies'
  BY <1>16, <1>a DEF RestoreDatabase, StepTo, At
<1>17. ASSUME MoveUploads PROVE EmptyCopies'
  BY <1>17, <1>a DEF MoveUploads, StepTo, At
<1>18. ASSUME FillUploads PROVE EmptyCopies'
  BY <1>18, <1>a DEF FillUploads, StepTo, At
<1>19. ASSUME RestoreFails PROVE EmptyCopies'
  BY <1>19, <1>a DEF RestoreFails, StepTo, At
<1>20. ASSUME Undo PROVE EmptyCopies'
  BY <1>20, <1>a DEF Undo, StepTo, At, Valid
<1>21. ASSUME UndoFails PROVE EmptyCopies'
  BY <1>21, <1>a DEF UndoFails, StepTo, At, Valid
<1>22. ASSUME RestoreAnswer PROVE EmptyCopies'
  BY <1>22, <1>a DEF RestoreAnswer, IdleProc, NoRestore
<1>23. ASSUME RestoreDies PROVE EmptyCopies'
  BY <1>23, <1>a DEF RestoreDies, IdleProc, Restoring
<1>24. ASSUME CleanTemp PROVE EmptyCopies'
  BY <1>24, <1>a DEF CleanTemp
<1>25. ASSUME UserWrites PROVE EmptyCopies'
  BY <1>25, <1>a DEF UserWrites, Restoring, Inside
<1>26. ASSUME LockAges PROVE EmptyCopies'
  BY <1>26, <1>a DEF LockAges
<1>27. ASSUME DayPasses PROVE EmptyCopies'
  BY <1>27, <1>a DEF DayPasses, Restoring, Inside
<1>28. CASE UNCHANGED backupVars
  <2>1. /\ live' = live /\ shelf' = shelf /\ clock' = clock /\ lock' = lock /\ oldLock' = oldLock
        /\ proc' = proc /\ rest' = rest /\ faults' = faults /\ note' = note
    BY ONLY <1>28 DEF backupVars
  <2>2. QED BY <2>1, <1>a
<1>29. QED
  BY <1>1, <1>2, <1>3, <1>4, <1>5, <1>6, <1>7, <1>8, <1>9, <1>10, <1>11, <1>12, <1>13, <1>14,
     <1>15, <1>16, <1>17, <1>18, <1>19, <1>20, <1>21, <1>22, <1>23, <1>24, <1>25, <1>26, <1>27, <1>28
  DEF BackupNext, BackupStep, RestoreStep

\* The safety backup is taken of the database as it was, and only ever removed.
LEMMA SafetyGoodStep ==
 ASSUME BackupInv, [BackupNext]_backupVars
 PROVE  SafetyGood'
<1>. USE DEF BackupInv, BackupTyped, ProcTyped, ProcRecord, RestTyped, ShelfTyped, OtherTyped,
    LiveTyped, InsideAt, RestoringAt, BackingAt, Nothing, OneRestorer, SafetyGood, StampsOwn,
    Progress, Valid
<1>a. Restorer \in Procs
  BY BackupAssumption
<1>1. ASSUME NEW p \in Procs, BackupBegin(p) PROVE SafetyGood'
  BY <1>1, <1>a DEF BackupBegin, StepTo, At, IdleProc
<1>2. ASSUME NEW p \in Procs, LockTake(p) PROVE SafetyGood'
  BY <1>2, <1>a DEF LockTake, StepTo, At, Together
<1>3. ASSUME NEW p \in Procs, LockBusy(p) PROVE SafetyGood'
  BY <1>3, <1>a DEF LockBusy, StepTo, At, GivenUp, Restoring, NoRestore, ClockWithout
<1>4. ASSUME NEW p \in Procs, LockJudge(p) PROVE SafetyGood'
  BY <1>4, <1>a DEF LockJudge, StepTo, At
<1>5. ASSUME NEW p \in Procs, LockRecover(p) PROVE SafetyGood'
  BY <1>5, <1>a DEF LockRecover, StepTo, At, GivenUp, Restoring, NoRestore, ClockWithout,
      Together
<1>6. ASSUME NEW p \in Procs, CopyDatabase(p) PROVE SafetyGood'
  BY <1>6, <1>a DEF CopyDatabase, StepTo, At
<1>7. ASSUME NEW p \in Procs, CopyUploads(p) PROVE SafetyGood'
  BY <1>7, <1>a DEF CopyUploads, StepTo, At
<1>8. ASSUME NEW p \in Procs, Publish(p) PROVE SafetyGood'
  BY <1>8, <1>a DEF Publish, StepTo, At
<1>9. ASSUME NEW p \in Procs, PruneList(p) PROVE SafetyGood'
  BY <1>9, <1>a DEF PruneList, StepTo, At, Valid
<1>10. ASSUME NEW p \in Procs, PruneOne(p) PROVE SafetyGood'
  BY <1>10, <1>a DEF PruneOne, StepTo, At, NoBackup
<1>11. ASSUME NEW p \in Procs, PruneEnd(p) PROVE SafetyGood'
  BY <1>11, <1>a DEF PruneEnd, StepTo, At
<1>12. ASSUME NEW p \in Procs, Leave(p) PROVE SafetyGood'
  BY <1>12, <1>a DEF Leave, StepTo, At, IdleProc, Restoring
<1>13. ASSUME NEW p \in Procs, BackupFails(p) PROVE SafetyGood'
  BY <1>13, <1>a, SMTT(20) DEF BackupFails, StepTo, At, IdleProc, GivenUp, Restoring, NoRestore, Inside,
      ClockWithout, NoBackup
<1>14. ASSUME NEW p \in Procs, BackupDies(p) PROVE SafetyGood'
  BY <1>14, <1>a DEF BackupDies, StepTo, At, IdleProc, GivenUp, Restoring, NoRestore, Inside
<1>15. ASSUME NEW b \in Stamps, RestoreBegin(b) PROVE SafetyGood'
  BY <1>15, <1>a DEF RestoreBegin, StepTo, At, NoRestore, Restoring, Valid
<1>16. ASSUME RestoreDatabase PROVE SafetyGood'
  BY <1>16, <1>a DEF RestoreDatabase, StepTo, At
<1>17. ASSUME MoveUploads PROVE SafetyGood'
  BY <1>17, <1>a DEF MoveUploads, StepTo, At
<1>18. ASSUME FillUploads PROVE SafetyGood'
  BY <1>18, <1>a DEF FillUploads, StepTo, At
<1>19. ASSUME RestoreFails PROVE SafetyGood'
  BY <1>19, <1>a DEF RestoreFails, StepTo, At
<1>20. ASSUME Undo PROVE SafetyGood'
  BY <1>20, <1>a DEF Undo, StepTo, At, Valid
<1>21. ASSUME UndoFails PROVE SafetyGood'
  BY <1>21, <1>a DEF UndoFails, StepTo, At, Valid
<1>22. ASSUME RestoreAnswer PROVE SafetyGood'
  BY <1>22, <1>a DEF RestoreAnswer, IdleProc, NoRestore
<1>23. ASSUME RestoreDies PROVE SafetyGood'
  BY <1>23, <1>a DEF RestoreDies, IdleProc, Restoring
<1>24. ASSUME CleanTemp PROVE SafetyGood'
  BY <1>24, <1>a DEF CleanTemp
<1>25. ASSUME UserWrites PROVE SafetyGood'
  BY <1>25, <1>a DEF UserWrites, Restoring, Inside
<1>26. ASSUME LockAges PROVE SafetyGood'
  BY <1>26, <1>a DEF LockAges
<1>27. ASSUME DayPasses PROVE SafetyGood'
  BY <1>27, <1>a DEF DayPasses, Restoring, Inside
<1>28. CASE UNCHANGED backupVars
  <2>1. /\ live' = live /\ shelf' = shelf /\ clock' = clock /\ lock' = lock /\ oldLock' = oldLock
        /\ proc' = proc /\ rest' = rest /\ faults' = faults /\ note' = note
    BY ONLY <1>28 DEF backupVars
  <2>2. QED BY <2>1, <1>a
<1>29. QED
  BY <1>1, <1>2, <1>3, <1>4, <1>5, <1>6, <1>7, <1>8, <1>9, <1>10, <1>11, <1>12, <1>13, <1>14,
     <1>15, <1>16, <1>17, <1>18, <1>19, <1>20, <1>21, <1>22, <1>23, <1>24, <1>25, <1>26, <1>27, <1>28
  DEF BackupNext, BackupStep, RestoreStep

\* Each stage of a restore leaves the database and the uploads where the next expects them.
LEMMA ProgressStep ==
 ASSUME BackupInv, [BackupNext]_backupVars
 PROVE  Progress'
<1>. USE DEF BackupInv, BackupTyped, ProcTyped, ProcRecord, RestTyped, ShelfTyped, OtherTyped,
    LiveTyped, InsideAt, RestoringAt, BackingAt, Nothing, OneRestorer, EmptyCopies,
    SafetyGood, Progress, Valid
<1>a. Restorer \in Procs
  BY BackupAssumption
<1>1. ASSUME NEW p \in Procs, BackupBegin(p) PROVE Progress'
  BY <1>1, <1>a DEF BackupBegin, StepTo, At, IdleProc
<1>2. ASSUME NEW p \in Procs, LockTake(p) PROVE Progress'
  BY <1>2, <1>a DEF LockTake, StepTo, At, Together
<1>3. ASSUME NEW p \in Procs, LockBusy(p) PROVE Progress'
  BY <1>3, <1>a DEF LockBusy, StepTo, At, GivenUp, Restoring, NoRestore, ClockWithout
<1>4. ASSUME NEW p \in Procs, LockJudge(p) PROVE Progress'
  BY <1>4, <1>a DEF LockJudge, StepTo, At
<1>5. ASSUME NEW p \in Procs, LockRecover(p) PROVE Progress'
  BY <1>5, <1>a DEF LockRecover, StepTo, At, GivenUp, Restoring, NoRestore, ClockWithout,
      Together
<1>6. ASSUME NEW p \in Procs, CopyDatabase(p) PROVE Progress'
  BY <1>6, <1>a DEF CopyDatabase, StepTo, At
<1>7. ASSUME NEW p \in Procs, CopyUploads(p) PROVE Progress'
  BY <1>7, <1>a DEF CopyUploads, StepTo, At
<1>8. ASSUME NEW p \in Procs, Publish(p) PROVE Progress'
  BY <1>8, <1>a DEF Publish, StepTo, At
<1>9. ASSUME NEW p \in Procs, PruneList(p) PROVE Progress'
  BY <1>9, <1>a DEF PruneList, StepTo, At, Valid
<1>10. ASSUME NEW p \in Procs, PruneOne(p) PROVE Progress'
  BY <1>10, <1>a DEF PruneOne, StepTo, At, NoBackup
<1>11. ASSUME NEW p \in Procs, PruneEnd(p) PROVE Progress'
  BY <1>11, <1>a DEF PruneEnd, StepTo, At
<1>12. ASSUME NEW p \in Procs, Leave(p) PROVE Progress'
  BY <1>12, <1>a DEF Leave, StepTo, At, IdleProc, Restoring
<1>13. ASSUME NEW p \in Procs, BackupFails(p) PROVE Progress'
  BY <1>13, <1>a DEF BackupFails, StepTo, At, IdleProc, GivenUp, Restoring, NoRestore, Inside,
      ClockWithout, NoBackup
<1>14. ASSUME NEW p \in Procs, BackupDies(p) PROVE Progress'
  BY <1>14, <1>a DEF BackupDies, StepTo, At, IdleProc, GivenUp, Restoring, NoRestore, Inside
<1>15. ASSUME NEW b \in Stamps, RestoreBegin(b) PROVE Progress'
  BY <1>15, <1>a DEF RestoreBegin, StepTo, At, NoRestore, Restoring, Valid
<1>16. ASSUME RestoreDatabase PROVE Progress'
  BY <1>16, <1>a DEF RestoreDatabase, StepTo, At
<1>17. ASSUME MoveUploads PROVE Progress'
  BY <1>17, <1>a DEF MoveUploads, StepTo, At
<1>18. ASSUME FillUploads PROVE Progress'
  BY <1>18, <1>a DEF FillUploads, StepTo, At
<1>19. ASSUME RestoreFails PROVE Progress'
  BY <1>19, <1>a DEF RestoreFails, StepTo, At
<1>20. ASSUME Undo PROVE Progress'
  BY <1>20, <1>a DEF Undo, StepTo, At, Valid
<1>21. ASSUME UndoFails PROVE Progress'
  BY <1>21, <1>a DEF UndoFails, StepTo, At, Valid
<1>22. ASSUME RestoreAnswer PROVE Progress'
  BY <1>22, <1>a DEF RestoreAnswer, IdleProc, NoRestore
<1>23. ASSUME RestoreDies PROVE Progress'
  BY <1>23, <1>a DEF RestoreDies, IdleProc, Restoring
<1>24. ASSUME CleanTemp PROVE Progress'
  BY <1>24, <1>a DEF CleanTemp
<1>25. ASSUME UserWrites PROVE Progress'
  BY <1>25, <1>a DEF UserWrites, Restoring, Inside
<1>26. ASSUME LockAges PROVE Progress'
  BY <1>26, <1>a DEF LockAges
<1>27. ASSUME DayPasses PROVE Progress'
  BY <1>27, <1>a DEF DayPasses, Restoring, Inside
<1>28. CASE UNCHANGED backupVars
  <2>1. /\ live' = live /\ shelf' = shelf /\ clock' = clock /\ lock' = lock /\ oldLock' = oldLock
        /\ proc' = proc /\ rest' = rest /\ faults' = faults /\ note' = note
    BY ONLY <1>28 DEF backupVars
  <2>2. QED BY <2>1, <1>a
<1>29. QED
  BY <1>1, <1>2, <1>3, <1>4, <1>5, <1>6, <1>7, <1>8, <1>9, <1>10, <1>11, <1>12, <1>13, <1>14,
     <1>15, <1>16, <1>17, <1>18, <1>19, <1>20, <1>21, <1>22, <1>23, <1>24, <1>25, <1>26, <1>27, <1>28
  DEF BackupNext, BackupStep, RestoreStep

\* Retention of two or more keeps a good backup besides the one it ran after: of the
\* others the newest is followed by that one at most.
LEMMA NewestKept ==
    ASSUME NEW V \in SUBSET Stamps, NEW s, V \ {s} # {}, Retention >= 2
    PROVE  \E b \in V : b # s /\ ~(Cardinality({c \in V : c > b}) >= Retention)
<1> DEFINE Behind == {n \in Nat : \E b \in V \ {s} : n = LastStamp - b}
<1>1. LastStamp \in Nat /\ Retention \in Nat /\ Stamps \subseteq Nat /\ \A b \in Stamps : LastStamp - b \in Nat
  BY BackupAssumption DEF Stamps
<1>2. Behind # {} /\ Behind \subseteq Nat
  BY <1>1
<1>3. PICK n \in Behind : \A m \in Behind : ~ (<<m, n>> \in OpToRel(<, Nat))
  <2> HIDE DEF OpToRel, Behind
  <2> QED
    BY <1>2, NatLessThanWellFounded, WFMin
<1>4. PICK b \in V \ {s} : n = LastStamp - b
  OBVIOUS
<1>5. \A c \in V \ {s} : c <= b
  <2> SUFFICES ASSUME NEW c \in V \ {s}, ~(c <= b) PROVE FALSE
    OBVIOUS
  <2>1. LastStamp - c \in Behind /\ LastStamp - c < n
    BY <1>1, <1>4
  <2>2. <<LastStamp - c, n>> \in OpToRel(<, Nat)
    BY <2>1, <1>2 DEF OpToRel
  <2> HIDE DEF OpToRel, Behind
  <2> QED
    BY <1>3, <2>1, <2>2
<1>6. {c \in V : c > b} \in SUBSET {s}
  <2>1. \A c \in V : c > b => c = s
    BY <1>1, <1>5
  <2>2. QED BY <2>1
<1>7. /\ IsFiniteSet({c \in V : c > b})
      /\ Cardinality({c \in V : c > b}) <= 1
  <2>1. IsFiniteSet({s}) /\ Cardinality({s}) = 1
    BY FS_Singleton
  <2>2. QED BY <2>1, <1>6, FS_Subset
<1>8. Cardinality({c \in V : c > b}) \in Nat
  BY <1>7, FS_CardinalityType
<1>9. QED BY <1>1, <1>4, <1>7, <1>8

LEMMA GoodBackupKept ==
    ASSUME NEW s, Valid \ {s} # {}, Retention >= 2
    PROVE  \E b \in Valid : b # s /\ ~(Cardinality({c \in Valid : c > b}) >= Retention)
<1>1. Valid \in SUBSET Stamps
  BY DEF Valid
<1>2. QED BY <1>1, NewestKept

\* What has been noted stays noted.
LEMMA NotesStay == [BackupNext]_backupVars => note \subseteq note'
BY DEF BackupNext, backupVars, BackupBegin, BackupStep, LockTake, LockBusy, LockJudge,
    LockRecover,
       Together, CopyDatabase, CopyUploads, Publish, PruneList, PruneOne, PruneEnd, Leave,
       BackupFails, BackupDies, RestoreStep, RestoreBegin, RestoreDatabase, MoveUploads,
       FillUploads, RestoreFails, Undo, UndoFails, RestoreAnswer, RestoreDies, CleanTemp,
       UserWrites, LockAges, DayPasses

\* While processes enter one by one every step leaves a good backup.
LEMMA LastingStep ==
 ASSUME BackupInv, Retention >= 2, "together" \notin note', [BackupNext]_backupVars
 PROVE  Lasting'
<1>e. \A p \in Procs : Valid \ {proc[p].stamp} # {} =>
        \E b \in Valid : b # proc[p].stamp /\ ~(Cardinality({c \in Valid : c > b}) >= Retention)
  BY GoodBackupKept
<1>. USE DEF BackupInv, BackupTyped, ProcTyped, ProcRecord, RestTyped, ShelfTyped, OtherTyped,
    LiveTyped, InsideAt, RestoringAt, BackingAt, Nothing, StampsOwn, Lasting, Alone, Valid
<1>a. Restorer \in Procs /\ Stamps \subseteq Nat
  BY BackupAssumption DEF Stamps
<1>b. "together" \notin note
  BY NotesStay
<1>c. Lasting
  BY <1>b
<1>d. ASSUME NEW p \in Procs, note' = note \cup (IF Inside = {} THEN {} ELSE {"together"}),
             proc'[p].pc = "copyDb", proc'[p].todo = {}, shelf' = shelf,
             \A q \in Procs \ {p} : proc'[q] = proc[q]
      PROVE  Lasting'
  <2>1. \A q \in Procs : proc[q].pc \notin InsideAt
    BY <1>d DEF Inside
  <2>2. QED BY <2>1, <1>c, <1>d
<1>1. ASSUME NEW p \in Procs, BackupBegin(p) PROVE Lasting'
  BY <1>1, <1>a, <1>b, <1>c DEF BackupBegin, StepTo, At, IdleProc
<1>2. ASSUME NEW p \in Procs, LockTake(p) PROVE Lasting'
  BY <1>2, <1>c, <1>d DEF LockTake, Together, StepTo, At

<1>3. ASSUME NEW p \in Procs, LockBusy(p) PROVE Lasting'
  BY <1>3, <1>a, <1>b, <1>c DEF LockBusy, StepTo, At, GivenUp, Restoring, NoRestore,
      ClockWithout
<1>4. ASSUME NEW p \in Procs, LockJudge(p) PROVE Lasting'
  BY <1>4, <1>a, <1>b, <1>c DEF LockJudge, StepTo, At
<1>5. ASSUME NEW p \in Procs, LockRecover(p) PROVE Lasting'
  <2>1. CASE lock = Free
    <3>1. /\ proc'[p].pc = "idle" /\ shelf' = shelf
          /\ \A q \in Procs \ {p} : proc'[q] = proc[q]
      BY <1>5, <2>1 DEF LockRecover, StepTo, At
    <3>2. QED BY <3>1, <1>c
  <2>2. CASE lock # Free
    <3>1. /\ proc'[p].pc = "copyDb" /\ proc'[p].todo = {} /\ shelf' = shelf
          /\ \A q \in Procs \ {p} : proc'[q] = proc[q]
      BY <1>5, <2>2, <1>c DEF LockRecover, StepTo, At
    <3>2. QED BY <1>5, <2>2, <3>1, <1>d DEF LockRecover, Together
  <2>3. QED BY <2>1, <2>2

<1>6. ASSUME NEW p \in Procs, CopyDatabase(p) PROVE Lasting'
  BY <1>6, <1>a, <1>b, <1>c DEF CopyDatabase, StepTo, At
<1>7. ASSUME NEW p \in Procs, CopyUploads(p) PROVE Lasting'
  BY <1>7, <1>a, <1>b, <1>c DEF CopyUploads, StepTo, At
<1>8. ASSUME NEW p \in Procs, Publish(p) PROVE Lasting'
  BY <1>8, <1>a, <1>b, <1>c DEF Publish, StepTo, At
<1>9. ASSUME NEW p \in Procs, PruneList(p) PROVE Lasting'
  <2>1. /\ proc[p].pc = "list" /\ proc'[p].pc = "prune" /\ shelf' = shelf
        /\ proc'[p].todo = {b \in Valid : Cardinality({c \in Valid : c > b}) >= Retention}
        /\ proc'[p].stamp = proc[p].stamp
        /\ \A q \in Procs \ {p} : proc'[q] = proc[q]
    BY <1>9 DEF PruneList, At
  <2>2. Valid \in SUBSET Stamps /\ Valid \ {proc[p].stamp} # {}
    BY <2>1, <1>c
  <2>3. PICK b \in Valid : /\ b # proc[p].stamp
                           /\ ~(Cardinality({c \in Valid : c > b}) >= Retention)
    BY <2>2, <1>e
  <2>4. b \notin proc'[p].todo
    BY <2>1, <2>3
  <2>5. QED BY <2>1, <2>3, <2>4, <1>c, SMTT(40)

<1>10. ASSUME NEW p \in Procs, PruneOne(p) PROVE Lasting'
  <2>1. PICK b \in Oldest(p) : shelf' = [shelf EXCEPT ![b] = NoBackup]
                                 /\ proc' = [proc EXCEPT ![p].todo = @ \ {b}]
    BY <1>10 DEF PruneOne
  <2>2. /\ proc[p].pc = "prune" /\ proc'[p].pc = "prune" /\ proc'[p].stamp = proc[p].stamp
        /\ b \in proc[p].todo /\ proc'[p].todo = proc[p].todo \ {b}
        /\ \A q \in Procs \ {p} : proc'[q] = proc[q]
    BY <1>10, <2>1 DEF PruneOne, At, Oldest
  <2>3. PICK c \in Valid : c # proc[p].stamp /\ c \notin proc[p].todo
    BY <2>2, <1>c
  <2>4. c \in Valid'
    BY <2>1, <2>2, <2>3
  <2>5. QED BY <2>2, <2>3, <2>4, <1>c

<1>11. ASSUME NEW p \in Procs, PruneEnd(p) PROVE Lasting'
  BY <1>11, <1>a, <1>b, <1>c DEF PruneEnd, StepTo, At
<1>12. ASSUME NEW p \in Procs, Leave(p) PROVE Lasting'
  BY <1>12, <1>a, <1>b, <1>c, SMTT(40) DEF Leave, StepTo, At, IdleProc, Restoring
<1>13. ASSUME NEW p \in Procs, BackupFails(p) PROVE Lasting'
  <2>1. /\ proc[p].pc \in InsideAt \ {"leave"} /\ proc'[p].pc = "idle"
        /\ \A q \in Procs \ {p} : proc'[q] = proc[q]
    BY <1>13 DEF BackupFails, Inside, IdleProc, At
  <2>2. PICK removing \in SUBSET Oldest(p) :
           shelf' = [b \in Stamps |->
               CASE b = proc[p].stamp -> NoBackup
                 [] b # proc[p].stamp /\ b \in removing /\ shelf[b].st = "valid" ->
                        [shelf[b] EXCEPT !.st = "broken"]
                 [] OTHER -> shelf[b]]
    BY <1>13 DEF BackupFails
  <2>3. removing \subseteq proc[p].todo
    BY <2>2 DEF Oldest
  <2>4. PICK c \in Valid : c # proc[p].stamp /\ c \notin proc[p].todo
    <3>1. CASE proc[p].pc \in {"list", "prune"}
      BY <3>1, <1>c
    <3>2. CASE proc[p].pc \in {"copyDb", "copyUp", "publish"}
      <4>1. proc[p].todo = {} /\ proc[p].stamp \notin Valid /\ Valid # {}
        BY <3>2, <1>c
      <4>2. QED BY <4>1
    <3>3. QED BY <3>1, <3>2, <2>1
  <2>5. c \in Valid'
    BY <2>2, <2>3, <2>4
  <2>6. QED BY <2>1, <2>5, <1>c
<1>14. ASSUME NEW p \in Procs, BackupDies(p) PROVE Lasting'
  BY <1>14, <1>a, <1>b, <1>c DEF BackupDies, StepTo, At, IdleProc, GivenUp, Restoring,
      NoRestore, Inside
<1>15. ASSUME NEW b \in Stamps, RestoreBegin(b) PROVE Lasting'
  BY <1>15, <1>a, <1>b, <1>c DEF RestoreBegin, StepTo, At, NoRestore, Restoring, Valid
<1>16. ASSUME RestoreDatabase PROVE Lasting'
  BY <1>16, <1>a, <1>b, <1>c DEF RestoreDatabase, StepTo, At
<1>17. ASSUME MoveUploads PROVE Lasting'
  BY <1>17, <1>a, <1>b, <1>c DEF MoveUploads, StepTo, At
<1>18. ASSUME FillUploads PROVE Lasting'
  BY <1>18, <1>a, <1>b, <1>c DEF FillUploads, StepTo, At
<1>19. ASSUME RestoreFails PROVE Lasting'
  BY <1>19, <1>a, <1>b, <1>c DEF RestoreFails, StepTo, At
<1>20. ASSUME Undo PROVE Lasting'
  BY <1>20, <1>a, <1>b, <1>c DEF Undo, StepTo, At, Valid
<1>21. ASSUME UndoFails PROVE Lasting'
  BY <1>21, <1>a, <1>b, <1>c DEF UndoFails, StepTo, At, Valid
<1>22. ASSUME RestoreAnswer PROVE Lasting'
  BY <1>22, <1>a, <1>b, <1>c DEF RestoreAnswer, IdleProc, NoRestore
<1>23. ASSUME RestoreDies PROVE Lasting'
  BY <1>23, <1>a, <1>b, <1>c DEF RestoreDies, IdleProc, Restoring
<1>24. ASSUME CleanTemp PROVE Lasting'
  BY <1>24, <1>a, <1>b, <1>c DEF CleanTemp
<1>25. ASSUME UserWrites PROVE Lasting'
  BY <1>25, <1>a, <1>b, <1>c DEF UserWrites, Restoring, Inside
<1>26. ASSUME LockAges PROVE Lasting'
  BY <1>26, <1>a, <1>b, <1>c DEF LockAges
<1>27. ASSUME DayPasses PROVE Lasting'
  BY <1>27, <1>a, <1>b, <1>c DEF DayPasses, Restoring, Inside
<1>28. CASE UNCHANGED backupVars
  BY <1>28, <1>a, <1>b, <1>c DEF backupVars
<1>29. QED
  BY <1>1, <1>2, <1>3, <1>4, <1>5, <1>6, <1>7, <1>8, <1>9, <1>10, <1>11, <1>12, <1>13, <1>14,
     <1>15, <1>16, <1>17, <1>18, <1>19, <1>20, <1>21, <1>22, <1>23, <1>24, <1>25, <1>26, <1>27, <1>28
  DEF BackupNext, BackupStep, RestoreStep

LEMMA InitInv == BackupInit => BackupInv
<1> SUFFICES ASSUME BackupInit PROVE BackupInv
  OBVIOUS
<1> USE DEF BackupInit
<1>a. Restorer \in Procs /\ 1 \in Stamps /\ Stamps \subseteq Nat /\ \A p \in Procs : p # Free /\ p # Dead
  BY BackupAssumption DEF Stamps
<1>b. \A p \in Procs : proc[p] = IdleProc
  OBVIOUS
<1>c. /\ \A b \in Stamps : shelf[b].st = "valid" => shelf[b].up # Nothing /\ b < 3
      /\ \A b \in Stamps : shelf[b].st \in {"none", "valid"}
      /\ shelf[1].st = "valid"
  BY <1>a DEF NoBackup, Nothing
<1>1. ProcTyped
  <2>1. IdleProc \in ProcRecord
    BY DEF IdleProc, ProcRecord, Stages, Nothing
  <2>2. QED BY <2>1 DEF ProcTyped
<1>2. ShelfTyped
  BY DEF ShelfTyped, NoBackup, Nothing
<1>3. RestTyped /\ LiveTyped /\ OtherTyped
  BY DEF RestTyped, LiveTyped, OtherTyped, NoRestore, Nothing
<1>4. LockHeld /\ OneRestorer
  BY <1>a, <1>b DEF LockHeld, OneRestorer, IdleProc, InsideAt, RestoringAt, NoRestore, Free,
      Dead
<1>5. StampsOwn
  <2>1. \A b \in Stamps : b >= 3 => shelf[b].st = "none"
    BY <1>a DEF NoBackup
  <2>2. QED BY <1>a, <1>b, <2>1 DEF StampsOwn, IdleProc, BackingAt, InsideAt, RestoringAt
<1>6. EmptyCopies
  BY <1>a, <1>b, <1>c DEF EmptyCopies, IdleProc, NoRestore, Nothing
<1>7. SafetyGood /\ Progress
  BY DEF SafetyGood, Progress, NoRestore
<1>8. Lasting
  <2>1. 1 \in Valid
    BY <1>a, <1>c DEF Valid
  <2>2. QED BY <1>b, <2>1 DEF Lasting, Alone, IdleProc, InsideAt
<1>9. QED BY <1>1, <1>2, <1>3, <1>4, <1>5, <1>6, <1>7, <1>8 DEF BackupInv, BackupTyped

LEMMA NextInv == BackupInv /\ [BackupNext]_backupVars => BackupInv'
<1> SUFFICES ASSUME BackupInv, [BackupNext]_backupVars PROVE BackupInv'
  OBVIOUS
<1>1. BackupTyped'
  <2>1. BackupTyped
    BY DEF BackupInv
  <2>2. QED BY <2>1, ProcTypeStep, ShelfTypeStep, RestTypeStep, OtherTypeStep DEF BackupTyped
<1>2. LockHeld' /\ StampsOwn' /\ OneRestorer'
  BY LockHeldStep, StampsOwnStep, OneRestorerStep
<1>3. EmptyCopies' /\ SafetyGood' /\ Progress'
  BY EmptyCopiesStep, SafetyGoodStep, ProgressStep
<1>4. Retention >= 2 /\ "together" \notin note' => Lasting'
  BY LastingStep
<1>5. QED BY <1>1, <1>2, <1>3, <1>4 DEF BackupInv

LEMMA InvHolds == BackupSpec => []BackupInv
<1>1. QED BY InitInv, NextInv, PTL DEF BackupSpec

\* Two processes are inside the backup lock together only after one died holding it:
\* what backup_lock and its stale-lock recovery promise (maintenance.py:85-121).
THEOREM LockExclusive == BackupSpec => []ExclusiveUnlessDeath
<1>1. BackupInv => ExclusiveUnlessDeath
  <2> SUFFICES ASSUME BackupInv, "death" \notin note PROVE ~(Cardinality(Inside) >= 2)
    BY DEF ExclusiveUnlessDeath
  <2>1. \A p \in Inside : p = lock
    BY DEF BackupInv, LockHeld, Inside, InsideAt
  <2>2. CASE Inside = {}
    BY <2>2, FS_EmptySet
  <2>3. CASE Inside # {}
    <3>1. Inside = {lock}
      BY <2>1, <2>3
    <3>2. Cardinality({lock}) = 1
      BY FS_Singleton
    <3>3. QED BY <3>1, <3>2
  <2>4. QED BY <2>2, <2>3
<1>2. QED BY <1>1, InvHolds, PTL

\* A good backup is always there unless two processes were inside together, and a
\* restore's answer is what happened to the database and the uploads
\* (maintenance.py:216-411).
THEOREM RestoresTellTruth == BackupSpec => []RestoreHonest
<1>1. BackupInv => RestoreHonest
  <2> SUFFICES ASSUME BackupInv PROVE RestoreHonest
    OBVIOUS
  <2>1. Retention >= 2 /\ "together" \notin note => Valid # {}
    BY DEF BackupInv, Lasting
  <2>2. Restorer \in Procs
    BY BackupAssumption
  <2>3. /\ At(Restorer, "restored") /\ "cleanedStaged" \notin note
               => live.db = rest.from.db /\ live.up = rest.from.up
        /\ At(Restorer, "recovered") /\ "cleanedSaved" \notin note
               => live.db = rest.was.db /\ live.up = rest.was.up
    BY <2>2 DEF BackupInv, OneRestorer, Progress, At, RestoringAt
  <2>4. live.up = Nothing /\ ~Restoring => rest.saved # Nothing \/ Excused
    BY DEF BackupInv, EmptyCopies, Restoring, BackupTyped, RestTyped
  <2>5. QED BY <2>1, <2>3, <2>4 DEF RestoreHonest, Excused, Excuses
<1>2. QED BY <1>1, InvHolds, PTL

-----------------------------------------------------------------------------
(* The system lock.                                                        *)

\* The row is never deleted, so who has loaded a row finds one to update.
RowStays == row = Missing => \A r \in Requests : saw[r] = Missing

\* While some request holds the lock the row says so and refuses the next one, and
\* whoever read before the holder committed is marked as overwritten.
HolderShuts ==
    /\ \A q, r \in Holders : q = r
    /\ Holders # {} => Active(row)
    /\ Holders # {} => \A r \in Requests : pc[r] = "acquiring" => r \in stale

\* A request about to take the lock from a row nobody has changed saw it free.
FreshLoadIsFree ==
    \A r \in Requests :
        pc[r] = "acquiring" /\ r \notin stale => saw[r] = row /\ ~Active(row)

RowInv ==
    /\ TypeOK /\ RowStays
    /\ ~raced /\ ~overran => HolderShuts /\ FreshLoadIsFree

\* Type correctness needs RowStays: a flush that leaves a column alone keeps the
\* column of a row that exists.
LEMMA TypeStep == TypeOK /\ RowStays /\ [Next]_vars => TypeOK' /\ RowStays'
<1> SUFFICES ASSUME TypeOK, RowStays, [Next]_vars PROVE TypeOK' /\ RowStays'
  OBVIOUS
<1> USE DEF TypeOK, RowStays, Rows, Missing
<1>0. CASE UNCHANGED vars
  BY <1>0 DEF vars
<1>1. CASE Expire
  BY <1>1 DEF Expire
<1> SUFFICES ASSUME NEW r \in Requests,
                    AcquireRefused(r) \/ AcquireRead(r) \/ Proceed(r) \/ Crash(r)
             PROVE  TypeOK' /\ RowStays'
  BY <1>0, <1>1 DEF Next
<1>2. CASE AcquireRefused(r)
  BY <1>2, <1>0 DEF AcquireRefused
<1>3. CASE AcquireRead(r)
  BY <1>3 DEF AcquireRead
<1>4. CASE AcquireInsert(r)
  <2>1. row' \in Rows /\ saw' = saw /\ overran' = overran
    BY <1>4 DEF AcquireInsert
  <2>2. pc' \in [Requests -> {"idle", "acquiring", "held", "wiped", "releasing"}]
    BY <1>4 DEF AcquireInsert
  <2>3. stale' \subseteq Requests /\ raced' \in BOOLEAN
    BY <1>4 DEF AcquireInsert, NoteCommit
  <2>4. row' = Missing => row = Missing
    BY <1>4 DEF AcquireInsert
  <2> QED
    BY <2>1, <2>2, <2>3, <2>4
<1>5. CASE AcquireUpdate(r)
  <2>1. saw[r] # Missing /\ row # Missing
    BY <1>5 DEF AcquireUpdate
  <2>2. row' \in Rows \ {Missing}
    BY <1>5, <2>1 DEF AcquireUpdate, Delta
  <2> QED
    BY <1>5, <2>2 DEF AcquireUpdate, NoteCommit
<1>6. CASE Wipe(r)
  BY <1>6 DEF Wipe
<1>7. CASE ReleaseRead(r)
  BY <1>7 DEF ReleaseRead
<1>8. CASE ReleaseWrite(r)
  <2>1. row' \in Rows \ {Missing}
    BY <1>8 DEF ReleaseWrite, Delta
  <2> QED
    BY <1>8, <2>1 DEF ReleaseWrite, NoteCommit
<1>9. CASE Crash(r)
  BY <1>9 DEF Crash
<1> QED
  BY <1>2, <1>3, <1>4, <1>5, <1>6, <1>7, <1>8, <1>9 DEF Proceed

\* A request that takes the lock from a fresh load is the only holder, and its
\* commit overwrites every other load.
LEMMA TakeKeeps ==
    ASSUME RowInv, NEW r \in Requests, pc[r] = "acquiring",
           ~raced', ~overran', overran' = overran, NoteCommit(r),
           pc' = [pc EXCEPT ![r] = "held"], Active(row)'
    PROVE  HolderShuts' /\ FreshLoadIsFree'
<1>1. ~raced /\ ~overran /\ r \notin stale
  BY DEF NoteCommit, RowInv, TypeOK
<1>2. Holders = {}
  BY <1>1 DEF RowInv, HolderShuts
<1>3. Holders' = {r}
  BY <1>2 DEF Holders, RowInv, TypeOK
<1>4. \A q \in Requests : pc'[q] = "acquiring" => q \in stale'
  BY DEF NoteCommit, InWindow, RowInv, TypeOK
<1> QED
  BY <1>3, <1>4 DEF HolderShuts, FreshLoadIsFree

\* Every step keeps the invariant.
LEMMA LockStep == RowInv /\ [Next]_vars => RowInv'
<1> SUFFICES ASSUME RowInv, [Next]_vars PROVE RowInv'
  OBVIOUS
<1>t. TypeOK /\ RowStays /\ TypeOK' /\ RowStays'
  BY TypeStep DEF RowInv
<1> SUFFICES ASSUME ~raced', ~overran' PROVE HolderShuts' /\ FreshLoadIsFree'
  BY <1>t DEF RowInv
<1>0. CASE UNCHANGED vars
  BY <1>0 DEF vars, RowInv, HolderShuts, FreshLoadIsFree, Holders, Active
<1>1. CASE Expire
  <2>1. ~raced /\ ~overran /\ Holders = {}
    BY <1>1, <1>t DEF Expire, TypeOK
  <2>2. Active(row)
    BY <1>1 DEF Expire, Active
  <2>3. Holders' = {}
    BY <1>1, <2>1 DEF Expire, Holders
  <2>4. \A r \in Requests : pc[r] = "acquiring" => r \in stale
    BY <2>1, <2>2 DEF RowInv, FreshLoadIsFree
  <2> QED
    BY <1>1, <2>3, <2>4 DEF Expire, HolderShuts, FreshLoadIsFree
<1> SUFFICES ASSUME NEW r \in Requests,
                    AcquireRefused(r) \/ AcquireRead(r) \/ Proceed(r) \/ Crash(r)
             PROVE  HolderShuts' /\ FreshLoadIsFree'
  BY <1>0, <1>1 DEF Next
<1>2. CASE AcquireRefused(r)
  BY <1>0, <1>2 DEF AcquireRefused
<1>3. CASE AcquireRead(r)
  <2>1. HolderShuts /\ FreshLoadIsFree /\ ~Active(row) /\ row' = row
    BY <1>3 DEF AcquireRead, RowInv
  <2>2. Holders = {} /\ Holders' = {}
    BY <1>3, <1>t, <2>1 DEF AcquireRead, HolderShuts, Holders, TypeOK
  <2>3. FreshLoadIsFree'
    BY <1>3, <1>t, <2>1 DEF AcquireRead, FreshLoadIsFree, TypeOK, Active
  <2> QED
    BY <2>2, <2>3 DEF HolderShuts
<1>4. CASE AcquireInsert(r)
  <2>1. CASE row = Missing
    <3>1. Active(row)'
      BY <1>4, <2>1 DEF AcquireInsert, Active
    <3> QED
      BY <1>4, <1>t, <2>1, <3>1, TakeKeeps DEF AcquireInsert
  <2>2. CASE row # Missing
    BY <1>4, <1>t, <2>2
    DEF AcquireInsert, RowInv, HolderShuts, FreshLoadIsFree, Holders, Active, TypeOK
  <2> QED
    BY <2>1, <2>2
<1>5. CASE AcquireUpdate(r)
  <2>1. ~raced /\ ~overran /\ r \notin stale /\ saw[r] = row
    BY <1>5, <1>t DEF AcquireUpdate, NoteCommit, TypeOK, RowInv, FreshLoadIsFree
  <2>2. Active(row)'
    BY <1>5, <2>1 DEF AcquireUpdate, Delta, Active
  <2> QED
    BY <1>5, <1>t, <2>2, TakeKeeps DEF AcquireUpdate
<1>6. CASE Wipe(r)
  BY <1>6, <1>t DEF Wipe, RowInv, HolderShuts, FreshLoadIsFree, Holders, Active, TypeOK
<1>7. CASE ReleaseRead(r)
  BY <1>7, <1>t DEF ReleaseRead, RowInv, HolderShuts, FreshLoadIsFree, Holders, Active, TypeOK
<1>8. CASE ReleaseWrite(r)
  <2>1. HolderShuts /\ r \in Holders
    BY <1>8, <1>t DEF ReleaseWrite, NoteCommit, TypeOK, RowInv, Holders
  <2>2. Holders' = {}
    BY <1>8, <1>t, <2>1 DEF ReleaseWrite, HolderShuts, Holders, TypeOK
  <2>3. \A q \in Requests : pc'[q] = "acquiring" => q \in stale'
    BY <1>8, <1>t DEF ReleaseWrite, NoteCommit, InWindow, TypeOK
  <2> QED
    BY <2>2, <2>3 DEF HolderShuts, FreshLoadIsFree
<1>9. CASE Crash(r)
  BY <1>9, <1>t DEF Crash, RowInv, HolderShuts, FreshLoadIsFree, Holders, Active, TypeOK
<1> QED
  BY <1>2, <1>3, <1>4, <1>5, <1>6, <1>7, <1>8, <1>9 DEF Proceed

\* Init establishes the invariant: no row and no request.
LEMMA LockStart == Init => RowInv
  BY DEF Init, RowInv, TypeOK, RowStays, Rows, Missing, HolderShuts, FreshLoadIsFree, Holders

\* The state of the lock row and of its requests is always well typed.
THEOREM TypeCorrect == Spec => []TypeOK
<1>1. RowInv => TypeOK
  BY DEF RowInv
<1> QED
  BY <1>1, LockStart, LockStep, PTL DEF Spec

\* Two requests hold the lock only after a commit from an overwritten SELECT or
\* after a holder outlived its TTL.
THEOREM ExclusionUnlessRaced == Spec => []BreachNeedsRaceOrExpiry
<1>1. RowInv => BreachNeedsRaceOrExpiry
  <2> SUFFICES ASSUME RowInv, ~raced, ~overran PROVE Cardinality(Holders) <= 1
    BY DEF BreachNeedsRaceOrExpiry, MutualExclusion
  <2>1. CASE Holders = {}
    BY <2>1, FS_EmptySet
  <2>2. CASE Holders # {}
    <3>1. PICK r : r \in Holders
      BY <2>2
    <3>2. Holders = {r}
      BY <3>1 DEF RowInv, HolderShuts
    <3>3. Cardinality({r}) = 1
      BY FS_Singleton
    <3> QED
      BY <3>2, <3>3
  <2> QED
    BY <2>1, <2>2
<1> QED
  BY <1>1, LockStart, LockStep, PTL DEF Spec

\* What a plan leaves of the archive's rows, and the orphans it made.
PlanTyped(P) ==
    /\ P.client = [c \in DOMAIN P.client |-> P.client[c]]
    /\ DOMAIN P.client \subseteq Nat \ {0} /\ IsFiniteSet(DOMAIN P.client)
    /\ P.fbm \in Nat /\ {P.item, P.alloc} \subseteq BOOLEAN
    /\ RowTyped(P.payment) /\ RowTyped(P.sale) /\ RowTyped(P.rental)
    /\ P.sale.cid = 0 /\ P.rental.text = Blank
    /\ P.rental.on => P.rental.cid # 0
    /\ DriversTyped(P.driver)

\* The planner between two tables: the clients it knows, those of "S" and the orphans
\* it made, and the next id, which is above all of them.
PlannerSound(s, S, top) ==
    /\ s.top \in Nat /\ top <= s.top /\ s.made \in Seq(Nat)
    /\ s.known = S \cup Range(s.made) /\ s.known \subseteq Nat /\ IsFiniteSet(s.known)
    /\ \A c \in s.known : c <= s.top
    /\ \A c \in Range(s.made) : c > top
    /\ \A n \in DOMAIN s.index : s.index[n] \in s.known

RestoreInv ==
    /\ DatabaseTyped(base) /\ DatabaseTyped(archive)
    /\ FkClean(base) /\ (base.rental.on => base.rental.cid # 0)
    /\ \/ merge = IdleMerge
       \/ /\ merge = [pc |-> "planned", plan |-> merge.plan, stale |-> merge.stale]
          /\ PlanTyped(merge.plan)
          /\ ~merge.stale => merge.plan = BuildPlan(archive, base) /\ Resolvable(merge.plan, base)

------------------------------------------------------------------------------
(* The plan.                                                                  *)

\* The clients of two databases are finitely many, and the largest id is theirs.
LEMMA LargestClient ==
    ASSUME NEW S \in SUBSET (Nat \ {0}), IsFiniteSet(S)
    PROVE  MaxKey(S) \in Nat /\ \A c \in S : c <= MaxKey(S)
<1>1. CASE S = {}
  BY <1>1 DEF MaxKey
<1>2. CASE S # {}
  <2>1. S \in SUBSET Nat
    OBVIOUS
  <2>2. Max(S) \in S /\ \A c \in S : c <= Max(S)
    BY <1>2, <2>1, GreatestAndLeast
  <2> QED
    BY <1>2, <2>1, <2>2 DEF MaxKey
<1> QED
  BY <1>1, <1>2

\* A client that has a name.
LEMMA SomeHolder ==
    ASSUME NEW D, DatabaseTyped(D), NEW n, ClientsNamed(D, n) # {}
    PROVE  /\ Max(ClientsNamed(D, n)) \in ClientsNamed(D, n) /\ Min(ClientsNamed(D, n)) \in ClientsNamed(D, n)
           /\ ClientsNamed(D, n) \in SUBSET (DOMAIN D.client)
<1>1. ClientsNamed(D, n) \in SUBSET (DOMAIN D.client)
  BY DEF ClientsNamed
<1>2. IsFiniteSet(ClientsNamed(D, n))
  BY <1>1, FS_Subset DEF DatabaseTyped
<1>3. ClientsNamed(D, n) \in SUBSET Nat
  BY <1>1 DEF DatabaseTyped
<1> QED
  BY <1>1, <1>2, <1>3, GreatestAndLeast

\* A name that is known has a client.
LEMMA NamesHeld ==
    ASSUME NEW A, NEW L, DatabaseTyped(A), DatabaseTyped(L), NEW n \in NamesOf(L) \cup NamesOf(A)
    PROVE  /\ n \in DOMAIN Existing(A, L) /\ ClientsNamed(L, n) \cup ClientsNamed(A, n) # {}
           /\ Existing(A, L)[n] \in ClientsNamed(L, n) \cup ClientsNamed(A, n)
           /\ Existing(A, L)[n] \in DOMAIN L.client \cup DOMAIN A.client
<1>1. ClientsNamed(L, n) # {} \/ ClientsNamed(A, n) # {}
  BY DEF NamesOf, ClientsNamed
<1>2. Existing(A, L)[n] = (IF ClientsNamed(L, n) # {} THEN Max(ClientsNamed(L, n)) ELSE Min(ClientsNamed(A, n)))
      /\ n \in DOMAIN Existing(A, L)
  BY DEF Existing
<1>3. CASE ClientsNamed(L, n) # {}
  BY <1>2, <1>3, SomeHolder
<1>4. CASE ClientsNamed(L, n) = {}
  BY <1>1, <1>2, <1>4, SomeHolder
<1> QED
  BY <1>3, <1>4

\* The planner before the first row.
LEMMA StartSound ==
    ASSUME NEW A, NEW L, DatabaseTyped(A), DatabaseTyped(L)
    PROVE  /\ PlannerSound(Start(A, L), DOMAIN L.client \cup DOMAIN A.client, HighestId(A, L))
           /\ Start(A, L).made = <<>> /\ Start(A, L).index = Existing(A, L)
           /\ Start(A, L).known = DOMAIN L.client \cup DOMAIN A.client
           /\ \A c \in DOMAIN L.client \cup DOMAIN A.client : c <= HighestId(A, L)
<1>1. PICK S : S = DOMAIN L.client \cup DOMAIN A.client
  OBVIOUS
<1>2. S \in SUBSET (Nat \ {0}) /\ IsFiniteSet(S)
  BY <1>1, FS_Union DEF DatabaseTyped
<1>3. HighestId(A, L) \in Nat /\ \A c \in S : c <= HighestId(A, L)
  BY <1>1, <1>2, LargestClient DEF HighestId
<1>4. PICK s : s = Start(A, L)
  OBVIOUS
<1>5. s.known = S /\ s.index = Existing(A, L) /\ s.top = HighestId(A, L) /\ s.made = <<>>
  BY <1>1, <1>4 DEF Start
<1>6. DOMAIN s.index = NamesOf(L) \cup NamesOf(A)
  BY <1>5 DEF Existing
<1>7. \A n \in DOMAIN s.index : s.index[n] \in S
  BY <1>1, <1>5, <1>6, NamesHeld
<1>8. Range(s.made) = {} /\ s.made \in Seq(Nat)
  BY <1>5 DEF Range
<1>9. PlannerSound(s, S, HighestId(A, L))
  <2>1. PICK h : h = HighestId(A, L) /\ h \in Nat /\ (\A c \in S : c <= h)
    BY <1>3
  <2>2. s.top \in Nat /\ h <= s.top /\ s.known = S
    BY <1>5, <2>1
  <2>3. s.known = S \cup Range(s.made) /\ s.known \subseteq Nat /\ IsFiniteSet(s.known)
    BY <1>2, <1>8, <2>2
  <2>4. \A c \in s.known : c <= s.top
    BY <1>5, <2>1
  <2>5. \A c \in Range(s.made) : c > h
    BY ONLY <1>8
  <2>6. \A n \in DOMAIN s.index : s.index[n] \in s.known
    BY <1>7, <2>2
  <2>7. PlannerSound(s, S, h)
    BY ONLY <1>8, <2>2, <2>3, <2>4, <2>5, <2>6 DEF PlannerSound
  <2> QED
    BY <2>1, <2>7
<1> QED
  BY <1>1, <1>3, <1>4, <1>5, <1>9

\* What the planner becomes at a row that needs an orphan, or stays.
LEMMA OrphanSound ==
    ASSUME NEW S, NEW top \in Nat, NEW s, PlannerSound(s, S, top), NEW paper
    PROVE  LET t == WithOrphan(s, paper)
           IN /\ PlannerSound(t, S, top) /\ s.known \subseteq t.known
              /\ Range(s.made) \subseteq Range(t.made)
              /\ t = s \/ Range(t.made) # {}
              /\ NeedsClient(s, paper) => Identity(paper) \in DOMAIN t.index
              /\ t = s <=> (NeedsClient(s, paper) => Identity(paper) \in DOMAIN s.index)
<1>1. PICK t : t = WithOrphan(s, paper)
  OBVIOUS
<1>2. CASE NeedsClient(s, paper) => Identity(paper) \in DOMAIN s.index
  <2>1. t = s
    BY <1>1, <1>2 DEF WithOrphan
  <2> QED
    BY <1>1, <1>2, <2>1
<1>3. CASE NeedsClient(s, paper) /\ Identity(paper) \notin DOMAIN s.index
  <2>1. PICK x, name, i : x = s.top + 1 /\ name = OrphanName(Len(s.made) + 1) /\ i = Identity(paper)
    OBVIOUS
  <2>2. t = [known |-> s.known \cup {x}, top |-> x, made |-> Append(s.made, x),
             index |-> With([n \in {i, name} |-> x], s.index)]
    BY <1>1, <1>3, <2>1 DEF WithOrphan
  <2>3. /\ t.known = s.known \cup {x} /\ t.top = x /\ t.made = Append(s.made, x)
        /\ t.index = With([n \in {i, name} |-> x], s.index)
    BY <2>2
  <2>4. /\ s.top \in Nat /\ top <= s.top /\ s.made \in Seq(Nat) /\ s.known = S \cup Range(s.made)
        /\ s.known \subseteq Nat /\ IsFiniteSet(s.known) /\ \A c \in s.known : c <= s.top
        /\ \A c \in Range(s.made) : c > top
        /\ \A n \in DOMAIN s.index : s.index[n] \in s.known
    BY DEF PlannerSound
  <2>5. x \in Nat /\ x > top /\ x > s.top
    BY <2>1, <2>4
  <2>6. /\ DOMAIN t.index = {i, name} \cup DOMAIN s.index
        /\ \A n \in DOMAIN t.index : t.index[n] = IF n \in {i, name} THEN x ELSE s.index[n]
    BY <2>3 DEF With
  <2>7. Range(t.made) = Range(s.made) \cup {x} /\ t.made \in Seq(Nat)
    <3>1. /\ DOMAIN s.made = 1..Len(s.made) /\ Len(s.made) \in Nat
          /\ DOMAIN t.made = 1..(Len(s.made) + 1) /\ t.made \in Seq(Nat)
          /\ \A k \in 1..Len(s.made) : t.made[k] = s.made[k]
          /\ t.made[Len(s.made) + 1] = x
      BY <2>3, <2>4, <2>5
    <3>2. \A k \in DOMAIN t.made : k \in DOMAIN s.made \/ k = Len(s.made) + 1
      BY <3>1
    <3>3. Len(s.made) + 1 \in DOMAIN t.made /\ DOMAIN s.made \subseteq DOMAIN t.made
      BY <3>1
    <3> QED
      BY <3>1, <3>2, <3>3 DEF Range
  <2>8. IsFiniteSet(t.known)
    <3>1. PICK K : K = s.known /\ IsFiniteSet(K)
      BY <2>4
    <3>2. IsFiniteSet(K \cup {x})
      BY <3>1, FS_AddElement
    <3> QED
      BY <2>3, <3>1, <3>2
  <2>9. \A c \in t.known : c <= t.top
    BY <2>3, <2>4, <2>5
  <2>10. \A n \in DOMAIN t.index : t.index[n] \in t.known
    BY <2>3, <2>4, <2>6
  <2>11. PlannerSound(t, S, top)
    BY <2>3, <2>4, <2>5, <2>7, <2>8, <2>9, <2>10 DEF PlannerSound
  <2>12. t # s
    BY <2>3, <2>5
  <2>13. i \in DOMAIN t.index
    BY <2>6
  <2> QED
    BY <1>1, <1>3, <2>1, <2>3, <2>7, <2>11, <2>12, <2>13
<1> QED
  BY <1>2, <1>3


\* The planner goes through the sale, the rental and the payment.
TableByTable(A, L, s0, s1, s2, s3) ==
    /\ s0 = Start(A, L) /\ s1 = WithOrphan(s0, Kept(A.sale)) /\ s2 = WithOrphan(s1, A.rental)
    /\ s3 = WithOrphan(s2, Kept(A.payment))
PlanIs(P, A, s1, s2, s3) ==
    P = [client |-> With([c \in Range(s3.made) |-> OrphanName(CHOOSE n \in DOMAIN s3.made : s3.made[n] = c)],
                         A.client),
         fbm |-> A.fbm, sale |-> Kept(A.sale), item |-> A.item /\ ~VoidedSale(A), alloc |-> A.alloc,
         rental |-> Resettled(s1, s2, A.rental), payment |-> Resettled(s2, s3, Kept(A.payment)),
         driver |-> A.driver, made |-> Range(s3.made)]

\* A plan is what the planner leaves when it has passed the three.
LEMMA PlanStages ==
    ASSUME NEW A, NEW L, NEW s0, NEW s1, NEW s2, NEW s3, TableByTable(A, L, s0, s1, s2, s3)
    PROVE  PlanIs(BuildPlan(A, L), A, s1, s2, s3)
BY DEF TableByTable, PlanIs, BuildPlan

\* A void row is as one that is not there.
LEMMA KeptTyped ==
    ASSUME NEW paper, RowTyped(paper)
    PROVE  RowTyped(Kept(paper)) /\ Kept(paper) \in {paper, NoRow} /\ (Kept(paper).on <=> paper.on /\ ~paper.void)
BY DEF RowTyped, Kept, NoRow

\* A row the planner has passed names a client it knows, or none.
LEMMA ResettledSound ==
    ASSUME NEW S, NEW top \in Nat, NEW s, PlannerSound(s, S, top), NEW paper, RowTyped(paper),
           NEW t, t = WithOrphan(s, paper)
    PROVE  /\ RowTyped(Resettled(s, t, paper)) /\ Resettled(s, t, paper).on = paper.on
           /\ Resettled(s, t, paper).text = paper.text
           /\ Resettled(s, t, paper).cid \in t.known \cup {0}
<1>1. /\ PlannerSound(t, S, top) /\ s.known \subseteq t.known
      /\ NeedsClient(s, paper) => Identity(paper) \in DOMAIN t.index
  BY OrphanSound
<1>2. CASE NeedsClient(s, paper)
  <2>1. PICK x : x = t.index[Identity(paper)] /\ x \in t.known /\ x \in Nat
    BY <1>1, <1>2 DEF PlannerSound
  <2>2. Resettled(s, t, paper) = [paper EXCEPT !.cid = x]
    BY <1>2, <2>1 DEF Resettled
  <2>3. paper.on
    BY <1>2 DEF NeedsClient
  <2>4. Resettled(s, t, paper) = [on |-> paper.on, cid |-> x, text |-> paper.text, void |-> paper.void]
    BY <2>2 DEF RowTyped
  <2> QED
    BY <2>1, <2>3, <2>4 DEF RowTyped
<1>3. CASE ~NeedsClient(s, paper)
  <2>1. Resettled(s, t, paper) = paper
    BY <1>3 DEF Resettled
  <2>2. paper.cid = 0 \/ paper.cid \in s.known
    BY <1>3 DEF NeedsClient, RowTyped, NoRow
  <2> QED
    BY <1>1, <2>1, <2>2
<1> QED
  BY <1>2, <1>3

\* A plan that is made is sound, names clients it brings or that are there, and
\* gives its orphans ids that no client has.
LEMMA PlanSound ==
    ASSUME NEW A, NEW L, DatabaseTyped(A), DatabaseTyped(L), NEW P, P = BuildPlan(A, L)
    PROVE  /\ Resolvable(P, L) => PlanTyped(P)
           /\ P.payment.cid \in DOMAIN P.client \cup DOMAIN L.client \cup {0}
           /\ \A c \in DOMAIN L.client \ DOMAIN A.client : c \notin DOMAIN P.client
           /\ P.driver = A.driver
<1>1. PICK s0, s1, s2, s3 : TableByTable(A, L, s0, s1, s2, s3)
  BY DEF TableByTable
<1>2. PlanIs(P, A, s1, s2, s3)
  BY <1>1, PlanStages
<1>3. PICK S, top : S = DOMAIN L.client \cup DOMAIN A.client /\ top = HighestId(A, L)
  OBVIOUS
<1>4. PlannerSound(s0, S, top) /\ top \in Nat /\ \A c \in S : c <= top
  <2>1. PlannerSound(s0, S, top) /\ \A c \in S : c <= top
    BY <1>1, <1>3, StartSound DEF TableByTable
  <2>2. S \in SUBSET (Nat \ {0}) /\ IsFiniteSet(S)
    BY <1>3, FS_Union DEF DatabaseTyped
  <2>3. top \in Nat
    BY <1>3, <2>2, LargestClient DEF HighestId
  <2> QED
    BY <2>1, <2>3
<1>5. PlannerSound(s1, S, top)
  BY <1>1, <1>4, OrphanSound DEF TableByTable
<1>6. PlannerSound(s2, S, top)
  BY <1>1, <1>4, <1>5, OrphanSound DEF TableByTable
<1>7. PlannerSound(s3, S, top)
  BY <1>1, <1>4, <1>6, OrphanSound DEF TableByTable
<1>8. RowTyped(A.rental) /\ RowTyped(Kept(A.payment)) /\ RowTyped(Kept(A.sale)) /\ Kept(A.sale).cid = 0
  BY KeptTyped DEF DatabaseTyped, NoRow
<1>9. PICK r, p : r = Resettled(s1, s2, A.rental) /\ p = Resettled(s2, s3, Kept(A.payment))
  OBVIOUS
<1>10. RowTyped(r) /\ r.text = Blank
  BY <1>1, <1>4, <1>5, <1>8, <1>9, ResettledSound DEF TableByTable, DatabaseTyped
<1>11. RowTyped(p) /\ p.cid \in s3.known \cup {0}
  BY <1>1, <1>4, <1>6, <1>8, <1>9, ResettledSound DEF TableByTable
<1>12. /\ P.rental = r /\ P.payment = p /\ P.sale = Kept(A.sale) /\ P.fbm = A.fbm
       /\ P.item = (A.item /\ ~VoidedSale(A)) /\ P.alloc = A.alloc /\ P.driver = A.driver
       /\ P.client = With([c \in Range(s3.made) |-> OrphanName(CHOOSE n \in DOMAIN s3.made : s3.made[n] = c)],
                          A.client)
  BY <1>2, <1>9 DEF PlanIs
<1>13. /\ DOMAIN P.client = Range(s3.made) \cup DOMAIN A.client
       /\ P.client = [c \in DOMAIN P.client |-> P.client[c]]
  BY <1>12 DEF With
<1>14. /\ s3.known = S \cup Range(s3.made) /\ IsFiniteSet(s3.known) /\ s3.known \subseteq Nat
       /\ \A c \in Range(s3.made) : c > top
  BY <1>7 DEF PlannerSound
<1>15. DOMAIN P.client \subseteq Nat \ {0} /\ IsFiniteSet(DOMAIN P.client)
  <2>1. DOMAIN P.client \subseteq s3.known
    BY <1>3, <1>13, <1>14
  <2>2. \A c \in Range(s3.made) : c \in Nat \ {0}
    BY <1>4, <1>14
  <2>3. DOMAIN A.client \subseteq Nat \ {0}
    BY DEF DatabaseTyped
  <2> QED
    BY <1>13, <1>14, <2>1, <2>2, <2>3, FS_Subset
<1>16. ASSUME Resolvable(P, L) PROVE PlanTyped(P)
  <2>1. P.fbm \in Nat /\ {P.item, P.alloc} \subseteq BOOLEAN /\ DriversTyped(P.driver)
    BY <1>12 DEF DatabaseTyped
  <2>2. r.on => r.cid # 0
    <3>1. r.on => r.cid \in 1..Larger(P.fbm, L.fbm)
      BY <1>12, <1>16 DEF Resolvable
    <3>2. Larger(P.fbm, L.fbm) \in Nat
      BY <2>1 DEF Larger, DatabaseTyped
    <3> QED
      BY <3>1, <3>2
  <2> QED
    BY <1>8, <1>10, <1>11, <1>12, <1>13, <1>15, <2>1, <2>2 DEF PlanTyped
<1>17. P.payment.cid \in DOMAIN P.client \cup DOMAIN L.client \cup {0}
  BY <1>3, <1>11, <1>12, <1>13, <1>14
<1>18. ASSUME NEW c \in DOMAIN L.client \ DOMAIN A.client PROVE c \notin DOMAIN P.client
  <2>1. c <= top /\ c \in Nat
    BY <1>3, <1>4, <1>14
  <2>2. c \notin Range(s3.made)
    BY <2>1, <1>4, <1>14
  <2> QED
    BY <1>13, <2>2
<1> QED
  BY <1>12, <1>16, <1>17, <1>18

------------------------------------------------------------------------------
(* The merge.                                                                 *)

\* Drivers merged without a clash have a name each, and merge again without one.
LEMMA DriversMerged ==
    ASSUME NEW f, NEW g, DriversTyped(f), DriversTyped(g), ~Clash(f, g), NEW h, h = With(f, g)
    PROVE  DriversTyped(h) /\ ~Clash(f, h) /\ With(f, h) = h
<1>1. /\ DOMAIN h = DOMAIN f \cup DOMAIN g /\ h = [d \in DOMAIN h |-> h[d]]
      /\ \A d \in DOMAIN f : h[d] = f[d]
      /\ \A d \in DOMAIN g \ DOMAIN f : h[d] = g[d]
  BY DEF With
<1>2. \A d, e \in DOMAIN f : f[d] = f[e] => d = e
  BY DEF DriversTyped, IsInjective
<1>3. \A d, e \in DOMAIN g : g[d] = g[e] => d = e
  BY DEF DriversTyped, IsInjective
<1>4. \A d \in DOMAIN f, e \in DOMAIN g \ DOMAIN f : f[d] # g[e]
  BY DEF Clash
<1>5. ASSUME NEW d \in DOMAIN h, NEW e \in DOMAIN h, h[d] = h[e] PROVE d = e
  BY <1>1, <1>2, <1>3, <1>4, <1>5
<1>6. DriversTyped(h)
  BY <1>1, <1>5 DEF DriversTyped, IsInjective
<1>7. ~Clash(f, h)
  BY <1>1, <1>5 DEF Clash
<1>8. With(f, h) = h
  <2>1. PICK k : k = With(f, h)
    OBVIOUS
  <2>2. /\ DOMAIN k = DOMAIN f \cup DOMAIN h /\ k = [d \in DOMAIN k |-> k[d]]
        /\ \A d \in DOMAIN f : k[d] = f[d]
        /\ \A d \in DOMAIN h \ DOMAIN f : k[d] = h[d]
    BY <2>1 DEF With
  <2>3. DOMAIN k = DOMAIN h
    BY <1>1, <2>2
  <2>4. \A d \in DOMAIN h : k[d] = h[d]
    BY <1>1, <2>2, <2>3
  <2>5. [d \in DOMAIN k |-> k[d]] = [d \in DOMAIN h |-> h[d]]
    BY <2>3, <2>4
  <2> QED
    BY <1>1, <2>1, <2>2, <2>5
<1> QED
  BY <1>6, <1>7, <1>8

\* Drivers merged with themselves or into an empty table clash with nobody.
LEMMA DriversAlone ==
    ASSUME NEW f, DriversTyped(f), NEW g, g = f \/ DOMAIN g = {}, NEW h, h = With(f, g)
    PROVE  ~Clash(f, g) /\ h = f
<1>1. \A d, e \in DOMAIN f : f[d] = f[e] => d = e
  BY DEF DriversTyped, IsInjective
<1>2. ~Clash(f, g)
  BY <1>1 DEF Clash
<1>3. /\ DOMAIN h = DOMAIN f /\ h = [d \in DOMAIN h |-> h[d]] /\ \A d \in DOMAIN f : h[d] = f[d]
  BY DEF With
<1>4. [d \in DOMAIN h |-> h[d]] = [d \in DOMAIN f |-> f[d]]
  BY <1>3
<1> QED
  BY <1>2, <1>3, <1>4 DEF DriversTyped

\* Of a new and an old row one stays.
LEMMA OverTyped ==
    ASSUME NEW p, NEW q, RowTyped(p), RowTyped(q)
    PROVE  /\ RowTyped(Over(p, q)) /\ Over(p, q) \in {p, q} /\ (Over(p, q).on <=> p.on \/ q.on)
           /\ (p.on => Over(p, q) = p) /\ (~p.on => Over(p, q) = q)
BY DEF Over, RowTyped

\* The parts of a merged database.
MergedIs(D, P, L) ==
    /\ D = [client |-> D.client, fbm |-> D.fbm, payment |-> D.payment, sale |-> D.sale,
            item |-> D.item, alloc |-> D.alloc, rental |-> D.rental, driver |-> D.driver]
    /\ D.fbm = Larger(P.fbm, L.fbm)
    /\ D.payment = Over(P.payment, L.payment) /\ D.sale = Over(P.sale, L.sale)
    /\ D.item = (P.item \/ L.item) /\ D.alloc = (P.alloc \/ L.alloc)
    /\ D.rental = Over(P.rental, L.rental) /\ D.driver = With(P.driver, L.driver)
    /\ DOMAIN D.client = DOMAIN P.client \cup DOMAIN L.client
    /\ D.client = [c \in DOMAIN D.client |-> D.client[c]]
    /\ \A c \in DOMAIN P.client : D.client[c] = P.client[c]
    /\ \A c \in DOMAIN L.client \ DOMAIN P.client : D.client[c] = L.client[c]

LEMMA MergedParts ==
    ASSUME NEW P, NEW L
    PROVE  MergedIs(Merged(P, L), P, L)
<1>1. PICK D : D = Merged(P, L)
  OBVIOUS
<1>2. PICK f, g : f = With(P.client, L.client) /\ g = With(P.driver, L.driver)
  OBVIOUS
<1>3. D = [client |-> f, fbm |-> Larger(P.fbm, L.fbm),
           payment |-> Over(P.payment, L.payment), sale |-> Over(P.sale, L.sale),
           item |-> P.item \/ L.item, alloc |-> P.alloc \/ L.alloc, rental |-> Over(P.rental, L.rental),
           driver |-> g]
  BY <1>1, <1>2 DEF Merged
<1>4. /\ DOMAIN f = DOMAIN P.client \cup DOMAIN L.client /\ f = [c \in DOMAIN f |-> f[c]]
      /\ \A c \in DOMAIN P.client : f[c] = P.client[c]
      /\ \A c \in DOMAIN L.client \ DOMAIN P.client : f[c] = L.client[c]
  BY <1>2 DEF With
<1>5. /\ D.client = f /\ D.fbm = Larger(P.fbm, L.fbm) /\ D.payment = Over(P.payment, L.payment)
      /\ D.sale = Over(P.sale, L.sale) /\ D.item = (P.item \/ L.item) /\ D.alloc = (P.alloc \/ L.alloc)
      /\ D.rental = Over(P.rental, L.rental) /\ D.driver = g
  BY <1>3
<1>6. D = [client |-> D.client, fbm |-> D.fbm, payment |-> D.payment, sale |-> D.sale,
           item |-> D.item, alloc |-> D.alloc, rental |-> D.rental, driver |-> D.driver]
  BY <1>3
<1>7. MergedIs(D, P, L)
  BY <1>2, <1>4, <1>5, <1>6 DEF MergedIs
<1> QED
  BY <1>1, <1>7

\* What a plan is merged into is a database.
LEMMA MergedTyped ==
    ASSUME NEW P, NEW L, PlanTyped(P), DatabaseTyped(L), L.rental.on => L.rental.cid # 0,
           ~Clash(P.driver, L.driver)
    PROVE  LET D == Merged(P, L)
           IN DatabaseTyped(D) /\ (D.rental.on => D.rental.cid # 0)
<1>1. PICK D : D = Merged(P, L)
  OBVIOUS
<1>2. /\ RowTyped(P.payment) /\ RowTyped(P.sale) /\ RowTyped(P.rental) /\ P.sale.cid = 0
      /\ P.rental.text = Blank /\ (P.rental.on => P.rental.cid # 0)
      /\ RowTyped(L.payment) /\ RowTyped(L.sale) /\ RowTyped(L.rental) /\ L.sale.cid = 0
      /\ L.rental.text = Blank
  BY DEF PlanTyped, DatabaseTyped
<1>m. MergedIs(D, P, L)
  BY <1>1, MergedParts
<1>3. /\ RowTyped(D.payment) /\ RowTyped(D.sale) /\ RowTyped(D.rental) /\ D.sale.cid = 0
      /\ D.rental.text = Blank /\ (D.rental.on => D.rental.cid # 0)
  <2>1. /\ D.payment = Over(P.payment, L.payment) /\ D.sale = Over(P.sale, L.sale)
        /\ D.rental = Over(P.rental, L.rental)
    BY <1>m DEF MergedIs
  <2>2. RowTyped(D.payment)
    BY <1>2, <2>1, OverTyped
  <2>3. RowTyped(D.sale) /\ D.sale.cid = 0
    BY <1>2, <2>1, OverTyped
  <2>4. RowTyped(D.rental) /\ D.rental \in {P.rental, L.rental}
    BY <1>2, <2>1, OverTyped
  <2> QED
    BY <1>2, <2>2, <2>3, <2>4
<1>4. /\ DOMAIN D.client = DOMAIN P.client \cup DOMAIN L.client
      /\ D.client = [c \in DOMAIN D.client |-> D.client[c]]
      /\ D = [client |-> D.client, fbm |-> D.fbm, payment |-> D.payment, sale |-> D.sale,
              item |-> D.item, alloc |-> D.alloc, rental |-> D.rental, driver |-> D.driver]
      /\ D.fbm = Larger(P.fbm, L.fbm) /\ D.item = (P.item \/ L.item) /\ D.alloc = (P.alloc \/ L.alloc)
  BY <1>m DEF MergedIs
<1>5. DOMAIN D.client \subseteq Nat \ {0} /\ IsFiniteSet(DOMAIN D.client)
  <2>1. /\ DOMAIN P.client \subseteq Nat \ {0} /\ IsFiniteSet(DOMAIN P.client)
        /\ DOMAIN L.client \subseteq Nat \ {0} /\ IsFiniteSet(DOMAIN L.client)
    BY DEF PlanTyped, DatabaseTyped
  <2>2. PICK F, G : F = DOMAIN P.client /\ G = DOMAIN L.client
    OBVIOUS
  <2>3. IsFiniteSet(F \cup G)
    BY <2>1, <2>2, FS_Union
  <2> QED
    BY <1>4, <2>1, <2>2, <2>3
<1>6. D.fbm \in Nat /\ {D.item, D.alloc} \subseteq BOOLEAN
  <2>1. P.fbm \in Nat /\ L.fbm \in Nat
    BY DEF PlanTyped, DatabaseTyped
  <2> QED
    BY <1>4, <2>1 DEF Larger
<1>7. DriversTyped(D.driver)
  <2>1. D.driver = With(P.driver, L.driver)
    BY <1>m DEF MergedIs
  <2>2. DriversTyped(P.driver) /\ DriversTyped(L.driver)
    BY DEF PlanTyped, DatabaseTyped
  <2> QED
    BY <2>1, <2>2, DriversMerged
<1>8. DatabaseTyped(D)
  BY <1>3, <1>4, <1>5, <1>6, <1>7 DEF DatabaseTyped
<1> QED
  BY <1>1, <1>3, <1>8

\* A plan can be applied to the database it was made for.
LEMMA PlanFits ==
    ASSUME NEW A, NEW L, DatabaseTyped(A), DatabaseTyped(L), FkClean(L),
           NEW P, P = BuildPlan(A, L), Resolvable(P, L)
    PROVE  FkClean(Merged(P, L))
<1>1. PICK D : D = Merged(P, L)
  OBVIOUS
<1>m. MergedIs(D, P, L)
  BY <1>1, MergedParts
<1>2. /\ PlanTyped(P) /\ P.payment.cid \in DOMAIN P.client \cup DOMAIN L.client \cup {0}
  BY PlanSound
<1>3. /\ RowTyped(P.payment) /\ RowTyped(P.sale) /\ RowTyped(P.rental)
      /\ RowTyped(L.payment) /\ RowTyped(L.sale) /\ RowTyped(L.rental)
      /\ P.fbm \in Nat /\ L.fbm \in Nat
  BY <1>2 DEF PlanTyped, DatabaseTyped
<1>4. /\ L.payment.cid \in DOMAIN L.client \cup {0} /\ L.rental.cid \in 0..L.fbm
      /\ (L.item => L.sale.on) /\ (L.alloc => L.sale.on /\ L.item)
  BY DEF FkClean
<1>5. D.payment.cid \in DOMAIN D.client \cup {0}
  <2>1. D.payment = Over(P.payment, L.payment) /\ DOMAIN D.client = DOMAIN P.client \cup DOMAIN L.client
    BY <1>m DEF MergedIs
  <2> QED
    BY <1>2, <1>3, <1>4, <2>1, OverTyped
<1>6. D.rental.cid \in 0..D.fbm
  <2>1. D.rental = Over(P.rental, L.rental) /\ D.fbm = Larger(P.fbm, L.fbm)
    BY <1>m DEF MergedIs
  <2>2. P.rental.on => P.rental.cid \in 1..D.fbm
    BY <2>1 DEF Resolvable
  <2>3. D.fbm \in Nat /\ L.fbm <= D.fbm
    BY <1>3, <2>1 DEF Larger
  <2> QED
    BY <1>3, <1>4, <2>1, <2>2, <2>3, OverTyped
<1>7. (D.item => D.sale.on) /\ (D.alloc => D.sale.on /\ D.item)
  <2>1. D.sale = Over(P.sale, L.sale) /\ D.item = (P.item \/ L.item) /\ D.alloc = (P.alloc \/ L.alloc)
    BY <1>m DEF MergedIs
  <2>2. D.sale.on <=> P.sale.on \/ L.sale.on
    BY <1>3, <2>1, OverTyped
  <2>3. (P.item \/ P.alloc => L.sale.on \/ P.sale.on) /\ (P.alloc => L.item \/ P.item)
    BY DEF Resolvable
  <2> QED
    BY <1>4, <2>1, <2>2, <2>3
<1> QED
  BY <1>1, <1>5, <1>6, <1>7 DEF FkClean


------------------------------------------------------------------------------
(* What a backup brings back.                                                 *)

\* A plan that makes no orphan.
LEMMA PlainPlan ==
    ASSUME NEW A, NEW L, DatabaseTyped(A), DatabaseTyped(L), NEW s, s = Start(A, L),
           \A paper \in {Kept(A.sale), A.rental, Kept(A.payment)} :
               NeedsClient(s, paper) => Identity(paper) \in DOMAIN s.index
    PROVE  BuildPlan(A, L) =
               [client |-> A.client, fbm |-> A.fbm, sale |-> Kept(A.sale),
                item |-> A.item /\ ~VoidedSale(A), alloc |-> A.alloc,
                rental |-> Resettled(s, s, A.rental), payment |-> Resettled(s, s, Kept(A.payment)),
                driver |-> A.driver, made |-> {}]
<1>1. /\ WithOrphan(s, Kept(A.sale)) = s /\ WithOrphan(s, A.rental) = s
      /\ WithOrphan(s, Kept(A.payment)) = s
  BY DEF WithOrphan
<1>2. TableByTable(A, L, s, s, s, s)
  BY <1>1 DEF TableByTable
<1>3. PlanIs(BuildPlan(A, L), A, s, s, s)
  BY <1>2, PlanStages
<1>4. Range(s.made) = {}
  BY DEF Start, Range
<1>5. PICK g : g = [c \in Range(s.made) |-> OrphanName(CHOOSE n \in DOMAIN s.made : s.made[n] = c)]
  OBVIOUS
<1>6. With(g, A.client) = A.client
  <2>1. DOMAIN g = {}
    BY <1>4, <1>5
  <2>2. With(g, A.client) = [c \in DOMAIN A.client |-> A.client[c]]
    BY <2>1 DEF With
  <2> QED
    BY <2>2 DEF DatabaseTyped
<1> QED
  BY <1>3, <1>4, <1>5, <1>6 DEF PlanIs

\* A plan without orphans met no row that needed one.
LEMMA NoneMissing ==
    ASSUME NEW A, NEW L, DatabaseTyped(A), DatabaseTyped(L), BuildPlan(A, L).made = {},
           NEW s, s = Start(A, L)
    PROVE  \A paper \in {Kept(A.sale), A.rental, Kept(A.payment)} :
               NeedsClient(s, paper) => Identity(paper) \in DOMAIN s.index
<1>1. PICK s1, s2, s3 : TableByTable(A, L, s, s1, s2, s3)
  BY DEF TableByTable
<1>2. Range(s3.made) = {}
  <2>1. PICK P : P = BuildPlan(A, L) /\ P.made = {}
    OBVIOUS
  <2>2. PlanIs(P, A, s1, s2, s3)
    BY <1>1, <2>1, PlanStages
  <2> QED
    BY <2>1, <2>2 DEF PlanIs
<1>3. PICK S, top : S = DOMAIN L.client \cup DOMAIN A.client /\ top = HighestId(A, L)
  OBVIOUS
<1>4. PlannerSound(s, S, top) /\ top \in Nat
  <2>1. PlannerSound(s, S, top)
    BY <1>3, StartSound
  <2>2. S \in SUBSET (Nat \ {0}) /\ IsFiniteSet(S)
    BY <1>3, FS_Union DEF DatabaseTyped
  <2> QED
    BY <1>3, <2>1, <2>2, LargestClient DEF HighestId
<1>5. /\ PlannerSound(s1, S, top) /\ Range(s.made) \subseteq Range(s1.made) /\ (s1 = s \/ Range(s1.made) # {})
  BY <1>1, <1>4, OrphanSound DEF TableByTable
<1>6. /\ PlannerSound(s2, S, top) /\ Range(s1.made) \subseteq Range(s2.made) /\ (s2 = s1 \/ Range(s2.made) # {})
  BY <1>1, <1>4, <1>5, OrphanSound DEF TableByTable
<1>7. Range(s2.made) \subseteq Range(s3.made) /\ (s3 = s2 \/ Range(s3.made) # {})
  BY <1>1, <1>4, <1>6, OrphanSound DEF TableByTable
<1>8. s1 = s /\ s2 = s /\ s3 = s
  BY <1>2, <1>5, <1>6, <1>7
<1>9. /\ WithOrphan(s, Kept(A.sale)) = s /\ WithOrphan(s, A.rental) = s
      /\ WithOrphan(s, Kept(A.payment)) = s
  BY <1>1, <1>8 DEF TableByTable
<1> QED
  BY <1>4, <1>9, OrphanSound

\* In a database without strays every row names its client.
LEMMA NobodyMissing ==
    ASSUME NEW B, NEW L, DatabaseTyped(B), DatabaseTyped(L), FkClean(B), ~Strays(B)
    PROVE  \A paper \in {Kept(B.sale), B.rental, Kept(B.payment)} : ~NeedsClient(Start(B, L), paper)
<1>1. PICK s : s = Start(B, L)
  OBVIOUS
<1>2. DOMAIN B.client \subseteq s.known /\ NamesOf(B) \subseteq DOMAIN s.index
  BY <1>1 DEF Start, Existing
<1>3. ~NeedsClient(s, Kept(B.sale))
  <2>1. Kept(B.sale).cid = 0 /\ Kept(B.sale).text \in NamesOf(B) \cup {Blank}
    BY DEF Strays, Kept, NoRow, DatabaseTyped
  <2> QED
    BY <1>2, <2>1 DEF NeedsClient
<1>4. ~NeedsClient(s, B.rental)
  <2>1. B.rental.cid \in DOMAIN B.client \cup {0} /\ B.rental.text = Blank
    BY DEF Strays, OddRental, DatabaseTyped
  <2> QED
    BY <1>2, <2>1 DEF NeedsClient
<1>5. ~NeedsClient(s, Kept(B.payment))
  <2>1. Kept(B.payment).cid \in DOMAIN B.client \cup {0} /\ Kept(B.payment).text \in NamesOf(B) \cup {Blank}
    BY DEF Strays, Kept, NoRow, FkClean
  <2> QED
    BY <1>2, <2>1 DEF NeedsClient
<1> QED
  BY <1>1, <1>3, <1>4, <1>5

\* The plan of a database without strays is what is not void of it.
LEMMA OwnPlan ==
    ASSUME NEW B, NEW L, DatabaseTyped(B), DatabaseTyped(L), FkClean(B), ~Strays(B)
    PROVE  BuildPlan(B, L) =
               [client |-> B.client, fbm |-> B.fbm, sale |-> Kept(B.sale),
                item |-> B.item /\ ~VoidedSale(B), alloc |-> B.alloc,
                rental |-> B.rental, payment |-> Kept(B.payment),
                driver |-> B.driver, made |-> {}]
<1>1. PICK s : s = Start(B, L)
  OBVIOUS
<1>2. \A paper \in {Kept(B.sale), B.rental, Kept(B.payment)} : ~NeedsClient(s, paper)
  BY <1>1, NobodyMissing
<1>3. Resettled(s, s, B.rental) = B.rental /\ Resettled(s, s, Kept(B.payment)) = Kept(B.payment)
  BY <1>2 DEF Resettled
<1> QED
  BY <1>1, <1>2, <1>3, PlainPlan

\* A merge of the same plan changes nothing the second time.
LEMMA MergedAgain ==
    ASSUME NEW P, NEW L, PlanTyped(P), DatabaseTyped(L), Resolvable(P, L), ~Clash(P.driver, L.driver),
           NEW D, D = Merged(P, L)
    PROVE  Merged(P, D) = D /\ Resolvable(P, D) /\ ~Clash(P.driver, D.driver)
<1>1. PICK E : E = Merged(P, D)
  OBVIOUS
<1>2. /\ D = [client |-> D.client, fbm |-> D.fbm, payment |-> D.payment, sale |-> D.sale,
              item |-> D.item, alloc |-> D.alloc, rental |-> D.rental, driver |-> D.driver]
      /\ D.fbm = Larger(P.fbm, L.fbm) /\ D.payment = Over(P.payment, L.payment)
      /\ D.sale = Over(P.sale, L.sale) /\ D.item = (P.item \/ L.item) /\ D.alloc = (P.alloc \/ L.alloc)
      /\ D.rental = Over(P.rental, L.rental) /\ D.driver = With(P.driver, L.driver)
      /\ DOMAIN D.client = DOMAIN P.client \cup DOMAIN L.client
      /\ D.client = [c \in DOMAIN D.client |-> D.client[c]]
      /\ \A c \in DOMAIN P.client : D.client[c] = P.client[c]
  <2>1. MergedIs(D, P, L)
    BY MergedParts
  <2> QED
    BY <2>1 DEF MergedIs
<1>3. /\ E = [client |-> E.client, fbm |-> E.fbm, payment |-> E.payment, sale |-> E.sale,
              item |-> E.item, alloc |-> E.alloc, rental |-> E.rental, driver |-> E.driver]
      /\ E.fbm = Larger(P.fbm, D.fbm) /\ E.payment = Over(P.payment, D.payment)
      /\ E.sale = Over(P.sale, D.sale) /\ E.item = (P.item \/ D.item) /\ E.alloc = (P.alloc \/ D.alloc)
      /\ E.rental = Over(P.rental, D.rental) /\ E.driver = With(P.driver, D.driver)
      /\ DOMAIN E.client = DOMAIN P.client \cup DOMAIN D.client
      /\ E.client = [c \in DOMAIN E.client |-> E.client[c]]
      /\ \A c \in DOMAIN P.client : E.client[c] = P.client[c]
      /\ \A c \in DOMAIN D.client \ DOMAIN P.client : E.client[c] = D.client[c]
  <2>1. MergedIs(E, P, D)
    BY <1>1, MergedParts
  <2> QED
    BY <2>1 DEF MergedIs
<1>4. P.fbm \in Nat /\ L.fbm \in Nat /\ {P.item, P.alloc, L.item, L.alloc} \subseteq BOOLEAN
  BY DEF PlanTyped, DatabaseTyped
<1>5. E.client = D.client
  <2>1. DOMAIN E.client = DOMAIN D.client
    BY <1>2, <1>3
  <2>2. \A c \in DOMAIN D.client : E.client[c] = D.client[c]
    BY <1>2, <1>3
  <2>3. [c \in DOMAIN E.client |-> E.client[c]] = [c \in DOMAIN D.client |-> D.client[c]]
    BY <2>1, <2>2
  <2> QED
    BY <1>2, <1>3, <2>3
<1>6. E.fbm = D.fbm
  BY <1>2, <1>3, <1>4 DEF Larger
<1>7. E.payment = D.payment /\ E.sale = D.sale /\ E.rental = D.rental
  BY <1>2, <1>3 DEF Over
<1>8. E.item = D.item /\ E.alloc = D.alloc
  BY <1>2, <1>3, <1>4
<1>d. E.driver = D.driver /\ ~Clash(P.driver, D.driver)
  <2>1. DriversTyped(P.driver) /\ DriversTyped(L.driver)
    BY DEF PlanTyped, DatabaseTyped
  <2> QED
    BY <1>2, <1>3, <2>1, DriversMerged
<1>9. E = D
  BY <1>2, <1>3, <1>5, <1>6, <1>7, <1>8, <1>d
<1>10. D.sale.on <=> P.sale.on \/ L.sale.on
  BY <1>2 DEF Over
<1>11. P.rental.on => P.rental.cid \in 1..Larger(P.fbm, D.fbm)
  BY <1>2, <1>3, <1>6 DEF Resolvable
<1>12. Resolvable(P, D)
  BY <1>2, <1>4, <1>10, <1>11 DEF Resolvable
<1> QED
  BY <1>1, <1>9, <1>12, <1>d

\* A second merge of an archive makes the plan of the first.
LEMMA PlannedAgain ==
    ASSUME NEW A, NEW L, DatabaseTyped(A), DatabaseTyped(L), NEW P, P = BuildPlan(A, L), P.made = {},
           ~Overwrites(A, L), ~Ambiguous(A, L), NEW D, D = Merged(P, L), DatabaseTyped(D)
    PROVE  BuildPlan(A, D) = P
<1>1. PICK s, u : s = Start(A, L) /\ u = Start(A, D)
  OBVIOUS
<1>2. PICK R : R = {Kept(A.sale), A.rental, Kept(A.payment)}
  OBVIOUS
<1>3. \A paper \in R : NeedsClient(s, paper) => Identity(paper) \in DOMAIN s.index
  BY <1>1, <1>2, NoneMissing
<1>4. P = [client |-> A.client, fbm |-> A.fbm, sale |-> Kept(A.sale),
           item |-> A.item /\ ~VoidedSale(A), alloc |-> A.alloc,
           rental |-> Resettled(s, s, A.rental), payment |-> Resettled(s, s, Kept(A.payment)),
           driver |-> A.driver, made |-> {}]
  BY <1>1, <1>2, <1>3, PlainPlan
<1>5. P.client = A.client
  BY <1>4
<1>6. /\ DOMAIN D.client = DOMAIN A.client \cup DOMAIN L.client
      /\ \A c \in DOMAIN A.client : D.client[c] = A.client[c]
      /\ \A c \in DOMAIN L.client \ DOMAIN A.client : D.client[c] = L.client[c]
  <2>1. MergedIs(D, P, L)
    BY MergedParts
  <2> QED
    BY <1>5, <2>1 DEF MergedIs
<1>7. \A c \in DOMAIN L.client : D.client[c] = L.client[c]
  BY <1>6 DEF Overwrites
<1>8. \A n : ClientsNamed(D, n) = ClientsNamed(A, n) \cup ClientsNamed(L, n)
  BY <1>6, <1>7 DEF ClientsNamed
<1>9. NamesOf(D) = NamesOf(A) \cup NamesOf(L)
  BY <1>6, <1>7 DEF NamesOf
<1>10. /\ s.known = DOMAIN L.client \cup DOMAIN A.client /\ s.index = Existing(A, L)
       /\ u.known = DOMAIN D.client \cup DOMAIN A.client /\ u.index = Existing(A, D)
  BY <1>1 DEF Start
<1>11. /\ DOMAIN s.index = NamesOf(L) \cup NamesOf(A) /\ DOMAIN u.index = NamesOf(D) \cup NamesOf(A)
  BY <1>10 DEF Existing
<1>12. u.known = s.known /\ DOMAIN u.index = DOMAIN s.index
  BY <1>6, <1>9, <1>10, <1>11
<1>13. \A paper : NeedsClient(u, paper) <=> NeedsClient(s, paper)
  BY <1>12 DEF NeedsClient
<1>14. \A paper \in R : NeedsClient(u, paper) => Identity(paper) \in DOMAIN u.index
  BY <1>3, <1>12, <1>13
<1>15. ASSUME NEW paper \in {A.rental, Kept(A.payment)} PROVE Resettled(u, u, paper) = Resettled(s, s, paper)
  <2>1. CASE ~NeedsClient(s, paper)
    BY <1>13, <2>1 DEF Resettled
  <2>2. CASE NeedsClient(s, paper)
    <3>1. PICK n : n = Identity(paper) /\ n \in DOMAIN s.index
      BY <1>2, <1>3, <2>2
    <3>2. paper.cid \notin DOMAIN A.client \cup DOMAIN L.client \cup {0}
      <4>1. ~(paper.text # Blank /\ paper.text \notin DOMAIN s.index)
        BY <3>1 DEF Identity
      <4> QED
        BY <2>2, <4>1, <1>10 DEF NeedsClient
    <3>3. \A c, d \in ClientsNamed(A, n) \cup ClientsNamed(L, n) : c = d
      BY <1>15, <3>1, <3>2 DEF Ambiguous
    <3>4. s.index[n] \in ClientsNamed(A, n) \cup ClientsNamed(L, n)
      BY <1>10, <1>11, <3>1, NamesHeld
    <3>5. u.index[n] \in ClientsNamed(A, n) \cup ClientsNamed(D, n)
      BY <1>10, <1>11, <1>12, <3>1, NamesHeld
    <3>6. u.index[n] = s.index[n]
      BY <1>8, <3>3, <3>4, <3>5
    <3> QED
      BY <1>13, <3>1, <3>6 DEF Resettled
  <2> QED
    BY <2>1, <2>2
<1>16. BuildPlan(A, D) =
          [client |-> A.client, fbm |-> A.fbm, sale |-> Kept(A.sale),
           item |-> A.item /\ ~VoidedSale(A), alloc |-> A.alloc,
           rental |-> Resettled(u, u, A.rental), payment |-> Resettled(u, u, Kept(A.payment)),
           driver |-> A.driver, made |-> {}]
  BY <1>1, <1>2, <1>14, PlainPlan
<1>17. /\ Resettled(u, u, A.rental) = Resettled(s, s, A.rental)
       /\ Resettled(u, u, Kept(A.payment)) = Resettled(s, s, Kept(A.payment))
  BY <1>15
<1> QED
  BY <1>4, <1>16, <1>17

\* An empty database and one with a void sale are databases.
LEMMA EmptyTyped ==
    /\ DatabaseTyped(Empty) /\ FkClean(Empty) /\ ~Empty.rental.on
    /\ DatabaseTyped(VoidSale) /\ FkClean(VoidSale) /\ ~VoidSale.rental.on
<1>1. PICK f : f = <<>>
  OBVIOUS
<1>2. DOMAIN f = {} /\ f = [c \in DOMAIN f |-> f[c]] /\ IsFiniteSet(DOMAIN f)
  BY <1>1, FS_EmptySet
<1>d. DriversTyped(f)
  BY <1>2 DEF DriversTyped, IsInjective
<1>3. RowTyped(NoRow) /\ NoRow.cid = 0 /\ NoRow.text = Blank /\ NoRow.on = FALSE
  BY DEF RowTyped, NoRow
<1>4. PICK v : v = [on |-> TRUE, cid |-> 0, text |-> Blank, void |-> TRUE]
  OBVIOUS
<1>5. RowTyped(v) /\ v.cid = 0 /\ v.on = TRUE
  BY <1>4 DEF RowTyped
<1>6. Empty = [client |-> f, fbm |-> 0, payment |-> NoRow, sale |-> NoRow,
               item |-> FALSE, alloc |-> FALSE, rental |-> NoRow, driver |-> f]
  BY <1>1 DEF Empty
<1>7. VoidSale = [client |-> f, fbm |-> 0, payment |-> NoRow, sale |-> v,
                  item |-> TRUE, alloc |-> TRUE, rental |-> NoRow, driver |-> f]
  <2>1. [Paper(0, Blank) EXCEPT !.void = TRUE] = v
    <3>1. PICK b : b = Blank
      OBVIOUS
    <3>2. PICK q : q = [on |-> TRUE, cid |-> 0, text |-> b, void |-> FALSE]
      OBVIOUS
    <3>3. Paper(0, Blank) = q
      BY <3>1, <3>2 DEF Paper
    <3>4. v = [on |-> TRUE, cid |-> 0, text |-> b, void |-> TRUE]
      BY <1>4, <3>1
    <3>5. q \in [on : {TRUE}, cid : {0}, text : {b}, void : {FALSE}]
      BY <3>2
    <3>6. [q EXCEPT !.void = TRUE] \in [on : {TRUE}, cid : {0}, text : {b}, void : {TRUE}]
      BY ONLY <3>5
    <3>7. PICK e : e = [q EXCEPT !.void = TRUE]
      OBVIOUS
    <3>8. e \in [on : {TRUE}, cid : {0}, text : {b}, void : {TRUE}]
      BY ONLY <3>6, <3>7
    <3>9. e = v
      BY ONLY <3>4, <3>8
    <3> QED
      BY <3>3, <3>7, <3>9
  <2>2. VoidSale = [Empty EXCEPT !.sale = v, !.item = TRUE, !.alloc = TRUE]
    BY <2>1 DEF VoidSale
  <2> QED
    BY ONLY <1>6, <2>2
<1>8. DatabaseTyped(Empty) /\ FkClean(Empty) /\ ~Empty.rental.on
  BY <1>2, <1>3, <1>6, <1>d DEF DatabaseTyped, FkClean
<1>9. DatabaseTyped(VoidSale) /\ FkClean(VoidSale) /\ ~VoidSale.rental.on
  BY <1>2, <1>3, <1>5, <1>7, <1>d DEF DatabaseTyped, FkClean
<1> QED
  BY <1>8, <1>9

\* What one archive brings a database at hand, taken from it or not.
\* The archive a database made and the database it is merged into.
LEMMA SoundBackupRestores ==
    ASSUME RestoreInv
    PROVE  BackupRestores
<1>1. /\ DatabaseTyped(base) /\ DatabaseTyped(archive) /\ FkClean(base)
      /\ (base.rental.on => base.rental.cid # 0)
  BY DEF RestoreInv
<1>2. PICK P, D : P = BuildPlan(archive, base) /\ D = Merged(P, base)
  OBVIOUS
<1>3. ASSUME Takes(archive, base), P.made = {}, ~Overwrites(archive, base), ~Ambiguous(archive, base)
      PROVE  Takes(archive, D) /\ Restored(archive, D) = D
  <2>0. Resolvable(P, base) /\ ~Clash(P.driver, base.driver)
    BY <1>2, <1>3 DEF Takes
  <2>1. PlanTyped(P)
    BY <1>1, <1>2, <2>0, PlanSound
  <2>2. DatabaseTyped(D)
    BY <1>1, <1>2, <2>0, <2>1, MergedTyped
  <2>3. BuildPlan(archive, D) = P
    BY <1>1, <1>2, <1>3, <2>2, PlannedAgain
  <2>4. Merged(P, D) = D /\ Resolvable(P, D) /\ ~Clash(P.driver, D.driver)
    BY <1>1, <1>2, <2>0, <2>1, MergedAgain
  <2> QED
    BY <2>3, <2>4 DEF Takes, Restored
<1>4. ASSUME ~Strays(base), NEW L, DatabaseTyped(L),
             NEW Q, Q = BuildPlan(base, L)
      PROVE  /\ Q.client = base.client /\ Q.fbm = base.fbm /\ Q.sale = Kept(base.sale)
             /\ Q.item = (base.item /\ ~VoidedSale(base)) /\ Q.alloc = base.alloc
             /\ Q.rental = base.rental /\ Q.payment = Kept(base.payment) /\ Q.driver = base.driver
  BY <1>1, <1>4, OwnPlan
<1>5. /\ RowTyped(base.payment) /\ RowTyped(base.sale) /\ RowTyped(base.rental)
      /\ base.fbm \in Nat /\ {base.item, base.alloc} \subseteq BOOLEAN
      /\ base.client = [c \in DOMAIN base.client |-> base.client[c]] /\ DriversTyped(base.driver)
      /\ base = [client |-> base.client, fbm |-> base.fbm, payment |-> base.payment, sale |-> base.sale,
                 item |-> base.item, alloc |-> base.alloc, rental |-> base.rental, driver |-> base.driver]
  BY <1>1 DEF DatabaseTyped
<1>6. /\ base.rental.on => base.rental.cid \in 1..base.fbm
      /\ (base.item => base.sale.on) /\ (base.alloc => base.sale.on /\ base.item)
  BY <1>1, <1>5 DEF FkClean
<1>7. ASSUME ~Strays(base) PROVE Takes(base, base) /\ Restored(base, base) = base
  <2>1. PICK Q, E : Q = BuildPlan(base, base) /\ E = Merged(Q, base)
    OBVIOUS
  <2>2. /\ Q.client = base.client /\ Q.fbm = base.fbm /\ Q.sale = Kept(base.sale)
        /\ Q.item = (base.item /\ ~VoidedSale(base)) /\ Q.alloc = base.alloc
        /\ Q.rental = base.rental /\ Q.payment = Kept(base.payment) /\ Q.driver = base.driver
    BY <1>1, <1>4, <1>7, <2>1
  <2>3. Resolvable(Q, base)
    BY <1>5, <1>6, <2>2 DEF Resolvable, Larger
  <2>4. /\ E = [client |-> E.client, fbm |-> E.fbm, payment |-> E.payment, sale |-> E.sale,
                item |-> E.item, alloc |-> E.alloc, rental |-> E.rental, driver |-> E.driver]
        /\ E.fbm = Larger(base.fbm, base.fbm) /\ E.payment = Over(Kept(base.payment), base.payment)
        /\ E.sale = Over(Kept(base.sale), base.sale) /\ E.rental = Over(base.rental, base.rental)
        /\ E.item = ((base.item /\ ~VoidedSale(base)) \/ base.item) /\ E.alloc = (base.alloc \/ base.alloc)
        /\ E.driver = With(base.driver, base.driver)
        /\ DOMAIN E.client = DOMAIN base.client
        /\ E.client = [c \in DOMAIN E.client |-> E.client[c]]
        /\ \A c \in DOMAIN base.client : E.client[c] = base.client[c]
    <3>1. MergedIs(E, Q, base)
      BY <2>1, MergedParts
    <3> QED
      BY <2>2, <3>1 DEF MergedIs
  <2>5. E.client = base.client
    BY <1>5, <2>4
  <2>6. E.payment = base.payment /\ E.sale = base.sale /\ E.rental = base.rental
    BY <1>5, <2>4, KeptTyped DEF Over, NoRow
  <2>7. E.fbm = base.fbm /\ E.item = base.item /\ E.alloc = base.alloc
    BY <1>5, <2>4 DEF Larger
  <2>d. E.driver = base.driver /\ ~Clash(Q.driver, base.driver)
    BY <1>5, <2>2, <2>4, DriversAlone
  <2>8. E = base
    BY <1>5, <2>4, <2>5, <2>6, <2>7, <2>d
  <2> QED
    BY <2>1, <2>3, <2>8, <2>d DEF Takes, Restored
<1>8. ASSUME ~Strays(base), ~(VoidedSale(base) /\ base.alloc)
      PROVE  Takes(base, Empty) /\ Restored(base, Empty) = WithoutVoids(base)
  <2>1. PICK Q, E : Q = BuildPlan(base, Empty) /\ E = Merged(Q, Empty)
    OBVIOUS
  <2>2. /\ Q.client = base.client /\ Q.fbm = base.fbm /\ Q.sale = Kept(base.sale)
        /\ Q.item = (base.item /\ ~VoidedSale(base)) /\ Q.alloc = base.alloc
        /\ Q.rental = base.rental /\ Q.payment = Kept(base.payment) /\ Q.driver = base.driver
    BY <1>1, <1>4, <1>8, <2>1, EmptyTyped
  <2>3. /\ Empty.fbm = 0 /\ Empty.payment = NoRow /\ Empty.sale = NoRow /\ Empty.rental = NoRow
        /\ Empty.item = FALSE /\ Empty.alloc = FALSE /\ DOMAIN Empty.client = {}
        /\ DOMAIN Empty.driver = {}
    BY DEF Empty
  <2>4. VoidedSale(base) <=> base.sale.on /\ base.sale.void
    BY DEF VoidedSale
  <2>5. Kept(base.sale).on <=> base.sale.on /\ ~base.sale.void
    BY <1>5, KeptTyped
  <2>6. Larger(Q.fbm, Empty.fbm) = base.fbm
    BY <1>5, <2>2, <2>3 DEF Larger
  <2>7. Resolvable(Q, Empty)
    <3>1. (Q.item \/ Q.alloc => Q.sale.on) /\ (Q.alloc => Q.item)
      BY <1>5, <1>6, <1>8, <2>2, <2>4, <2>5
    <3> QED
      BY <1>6, <2>2, <2>6, <3>1 DEF Resolvable
  <2>8. /\ E = [client |-> E.client, fbm |-> E.fbm, payment |-> E.payment, sale |-> E.sale,
                item |-> E.item, alloc |-> E.alloc, rental |-> E.rental, driver |-> E.driver]
        /\ E.fbm = base.fbm /\ E.payment = Over(Kept(base.payment), NoRow)
        /\ E.sale = Over(Kept(base.sale), NoRow) /\ E.rental = Over(base.rental, NoRow)
        /\ E.item = ((base.item /\ ~VoidedSale(base)) \/ FALSE) /\ E.alloc = (base.alloc \/ FALSE)
        /\ E.driver = With(base.driver, Empty.driver)
        /\ DOMAIN E.client = DOMAIN base.client
        /\ E.client = [c \in DOMAIN E.client |-> E.client[c]]
        /\ \A c \in DOMAIN base.client : E.client[c] = base.client[c]
    <3>1. MergedIs(E, Q, Empty)
      BY <2>1, MergedParts
    <3> QED
      BY <2>2, <2>3, <2>6, <3>1 DEF MergedIs
  <2>9. E.client = base.client
    BY <1>5, <2>8
  <2>10. E.payment = Kept(base.payment) /\ E.sale = Kept(base.sale) /\ E.rental = base.rental
    BY <1>5, <2>8, KeptTyped DEF Over, RowTyped
  <2>11. E.alloc = base.alloc /\ E.item = (base.item /\ ~VoidedSale(base))
    BY <1>5, <2>8
  <2>d. E.driver = base.driver /\ ~Clash(Q.driver, Empty.driver)
    <3>1. PICK f, g : f = base.driver /\ g = Empty.driver /\ DOMAIN g = {} /\ DriversTyped(f)
      BY <1>5, <2>3
    <3>2. ~Clash(f, g) /\ With(f, g) = f
      BY <3>1, DriversAlone
    <3> QED
      BY <2>2, <2>8, <3>1, <3>2
  <2>12. WithoutVoids(base) =
            [client |-> base.client, fbm |-> base.fbm, payment |-> Kept(base.payment),
             sale |-> Kept(base.sale), item |-> base.item /\ ~VoidedSale(base),
             alloc |-> base.alloc, rental |-> base.rental, driver |-> base.driver]
    <3>1. base = [client |-> base.client, fbm |-> base.fbm, payment |-> base.payment, sale |-> base.sale,
                  item |-> base.item, alloc |-> base.alloc, rental |-> base.rental, driver |-> base.driver]
      BY <1>5
    <3>2. PICK p, w, i : p = Kept(base.payment) /\ w = Kept(base.sale) /\ i = (base.item /\ ~VoidedSale(base))
      OBVIOUS
    <3>3. WithoutVoids(base) = [base EXCEPT !.payment = p, !.sale = w, !.item = i]
      BY <3>2 DEF WithoutVoids
    <3>4. [base EXCEPT !.payment = p, !.sale = w, !.item = i] =
             [client |-> base.client, fbm |-> base.fbm, payment |-> p, sale |-> w, item |-> i,
              alloc |-> base.alloc, rental |-> base.rental, driver |-> base.driver]
      <4>1. PICK b, c, f, p0, s0, i0, a, r, d :
               /\ b = base /\ c = base.client /\ f = base.fbm /\ p0 = base.payment /\ s0 = base.sale
               /\ i0 = base.item /\ a = base.alloc /\ r = base.rental /\ d = base.driver
        OBVIOUS
      <4>2. b = [client |-> c, fbm |-> f, payment |-> p0, sale |-> s0, item |-> i0,
                 alloc |-> a, rental |-> r, driver |-> d]
        BY <3>1, <4>1
      <4>3. [b EXCEPT !.payment = p, !.sale = w, !.item = i] =
               [client |-> c, fbm |-> f, payment |-> p, sale |-> w, item |-> i, alloc |-> a, rental |-> r, driver |-> d]
        <5>1. b \in [client : {c}, fbm : {f}, payment : {p0}, sale : {s0}, item : {i0},
                     alloc : {a}, rental : {r}, driver : {d}]
          BY ONLY <4>2
        <5>2. [b EXCEPT !.payment = p, !.sale = w, !.item = i] \in
                 [client : {c}, fbm : {f}, payment : {p}, sale : {w}, item : {i}, alloc : {a}, rental : {r}, driver : {d}]
          BY ONLY <5>1
        <5>3. PICK e : e = [b EXCEPT !.payment = p, !.sale = w, !.item = i]
          OBVIOUS
        <5>4. e \in [client : {c}, fbm : {f}, payment : {p}, sale : {w}, item : {i},
                     alloc : {a}, rental : {r}, driver : {d}]
          BY ONLY <5>2, <5>3
        <5>5. e = [client |-> c, fbm |-> f, payment |-> p, sale |-> w, item |-> i, alloc |-> a, rental |-> r, driver |-> d]
          BY ONLY <5>4
        <5> QED
          BY ONLY <5>3, <5>5
      <4> QED
        BY <4>1, <4>3
    <3> QED
      BY <3>2, <3>3, <3>4
  <2>13. E = WithoutVoids(base)
    BY <2>8, <2>9, <2>10, <2>11, <2>12, <2>d
  <2> QED
    BY <2>1, <2>7, <2>13, <2>d DEF Takes, Restored
<1> QED
  BY <1>2, <1>3, <1>7, <1>8 DEF BackupRestores


------------------------------------------------------------------------------
(* What restores and users keep.                                              *)

\* The invariant holds before the first step.
LEMMA RestoreBegins == RestoreInit => RestoreInv
<1> SUFFICES ASSUME RestoreInit PROVE RestoreInv
  OBVIOUS
<1>1. base \in {Empty, VoidSale} /\ archive \in Foreign \cup {Empty} /\ merge = IdleMerge
  BY DEF RestoreInit
<1>2. DatabaseTyped(base) /\ FkClean(base) /\ ~base.rental.on
  BY <1>1, EmptyTyped
<1>3. DatabaseTyped(archive)
  BY <1>1, EmptyTyped, RestoreAssumption
<1> QED
  BY <1>1, <1>2, <1>3 DEF RestoreInv

\* A plan is made, refused, applied or rolled back.
LEMMA RestoreKeeps ==
    ASSUME RestoreInv, PlanRestore \/ RestoreRefused \/ ApplyPlan
    PROVE  RestoreInv'
<1>1. /\ DatabaseTyped(base) /\ DatabaseTyped(archive) /\ FkClean(base)
      /\ (base.rental.on => base.rental.cid # 0) /\ archive' = archive
  BY DEF RestoreInv, PlanRestore, RestoreRefused, ApplyPlan
<1>2. CASE PlanRestore
  <2>1. PICK P : P = BuildPlan(archive, base)
    OBVIOUS
  <2>2. base' = base
    BY <1>2 DEF PlanRestore
  <2>3. CASE Resolvable(P, base)
    <3>1. merge' = [pc |-> "planned", plan |-> P, stale |-> FALSE]
      BY <1>2, <2>1, <2>3 DEF PlanRestore
    <3>2. PlanTyped(P)
      BY <1>1, <2>1, <2>3, PlanSound
    <3>3. merge'.plan = P /\ merge'.stale = FALSE
      BY <3>1
    <3> QED
      BY <1>1, <2>1, <2>2, <2>3, <3>1, <3>2, <3>3 DEF RestoreInv
  <2>4. CASE ~Resolvable(P, base)
    <3>1. merge' = merge
      BY <1>2, <2>1, <2>4 DEF PlanRestore
    <3> QED
      BY <1>1, <2>2, <3>1 DEF RestoreInv
  <2> QED
    BY <2>3, <2>4
<1>3. CASE RestoreRefused
  BY <1>1, <1>3 DEF RestoreRefused, RestoreInv
<1>4. CASE ApplyPlan
  <2>1. PICK D : D = Merged(merge.plan, base)
    OBVIOUS
  <2>2. /\ merge.pc = "planned" /\ merge' = IdleMerge
        /\ base' = base \/ (base' = D /\ FkClean(D) /\ ~Clash(merge.plan.driver, base.driver))
    BY <1>4, <2>1 DEF ApplyPlan, Lands
  <2>3. PlanTyped(merge.plan)
    BY <2>2 DEF RestoreInv, IdleMerge
  <2>4. ~Clash(merge.plan.driver, base.driver) => DatabaseTyped(D) /\ (D.rental.on => D.rental.cid # 0)
    BY <1>1, <2>1, <2>3, MergedTyped
  <2>5. DatabaseTyped(base') /\ FkClean(base') /\ (base'.rental.on => base'.rental.cid # 0)
    BY <1>1, <2>2, <2>4
  <2> QED
    BY <1>1, <2>2, <2>5 DEF RestoreInv
<1> QED
  BY <1>2, <1>3, <1>4

\* An archive is made of the database at hand, all of it or without the clients.
LEMMA ExportKeeps ==
    ASSUME RestoreInv, NEW full \in BOOLEAN, ExportArchive(full)
    PROVE  RestoreInv'
<1>1. /\ DatabaseTyped(base) /\ base' = base /\ merge' = merge /\ merge = IdleMerge
      /\ archive' = IF full THEN base ELSE [base EXCEPT !.client = <<>>]
  BY DEF RestoreInv, ExportArchive
<1>2. DatabaseTyped([base EXCEPT !.client = <<>>])
  <2>1. PICK f : f = <<>>
    OBVIOUS
  <2>2. DOMAIN f = {} /\ f = [c \in DOMAIN f |-> f[c]] /\ IsFiniteSet(DOMAIN f)
    BY <2>1, FS_EmptySet
  <2>3. [base EXCEPT !.client = f] =
           [client |-> f, fbm |-> base.fbm, payment |-> base.payment, sale |-> base.sale,
            item |-> base.item, alloc |-> base.alloc, rental |-> base.rental, driver |-> base.driver]
    BY <1>1 DEF DatabaseTyped
  <2>4. DatabaseTyped([base EXCEPT !.client = f])
    BY <1>1, <2>2, <2>3 DEF DatabaseTyped
  <2> QED
    BY <2>1, <2>4
<1> QED
  BY <1>1, <1>2 DEF RestoreInv

\* A user's request that leaves a sound database; a plan that waits is stale then.
LEMMA UserKeeps ==
    ASSUME RestoreInv, NEW D, UserChanges(D), DatabaseTyped(D), FkClean(D), D.rental.on => D.rental.cid # 0
    PROVE  RestoreInv'
<1>1. /\ base' = D /\ archive' = archive
      /\ merge' = IF merge.pc = "idle" THEN merge ELSE [merge EXCEPT !.stale = TRUE]
  BY DEF UserChanges
<1>2. CASE merge = IdleMerge
  <2>1. merge' = IdleMerge
    BY <1>1, <1>2 DEF IdleMerge
  <2> QED
    BY <1>1, <2>1 DEF RestoreInv
<1>3. CASE merge # IdleMerge
  <2>1. PICK P, b : merge = [pc |-> "planned", plan |-> P, stale |-> b] /\ PlanTyped(P)
    BY <1>3 DEF RestoreInv
  <2>2. merge' = [pc |-> "planned", plan |-> P, stale |-> TRUE]
    BY <1>1, <2>1
  <2>3. merge' = [pc |-> "planned", plan |-> merge'.plan, stale |-> merge'.stale]
        /\ merge'.plan = P /\ merge'.stale = TRUE
    BY <2>2
  <2> QED
    BY <1>1, <2>1, <2>3 DEF RestoreInv
<1> QED
  BY <1>2, <1>3

\* The database without some of its fields changed.
LEMMA BaseParts ==
    ASSUME RestoreInv
    PROVE  /\ base = [client |-> base.client, fbm |-> base.fbm, payment |-> base.payment, sale |-> base.sale,
                      item |-> base.item, alloc |-> base.alloc, rental |-> base.rental, driver |-> base.driver]
           /\ base.client = [c \in DOMAIN base.client |-> base.client[c]]
           /\ DOMAIN base.client \subseteq Nat \ {0} /\ IsFiniteSet(DOMAIN base.client)
           /\ base.fbm \in Nat /\ {base.item, base.alloc} \subseteq BOOLEAN
           /\ RowTyped(base.payment) /\ RowTyped(base.sale) /\ RowTyped(base.rental)
           /\ base.sale.cid = 0 /\ base.rental.text = Blank
           /\ base.payment.cid \in DOMAIN base.client \cup {0} /\ base.rental.cid \in 0..base.fbm
           /\ (base.item => base.sale.on) /\ (base.alloc => base.sale.on /\ base.item)
           /\ (base.rental.on => base.rental.cid # 0) /\ DriversTyped(base.driver)
BY DEF RestoreInv, DatabaseTyped, FkClean

\* Clients added and renamed.
LEMMA ClientKeeps ==
    ASSUME RestoreInv, NEW n, NewClient(n) \/ \E c \in Ids : RenameClient(c, n)
    PROVE  RestoreInv'
<1>1. CASE NewClient(n)
  <2>1. PICK c, f : /\ c = MaxKey(DOMAIN base.client) + 1 /\ f = With([x \in {c} |-> n], base.client)
    OBVIOUS
  <2>2. c \in Ids /\ UserChanges([base EXCEPT !.client = f])
    BY <1>1, <2>1 DEF NewClient
  <2>3. c \in Nat \ {0}
    BY <2>2, RestoreAssumption DEF Ids
  <2>4. DOMAIN f = DOMAIN base.client \cup {c} /\ f = [x \in DOMAIN f |-> f[x]]
    BY <2>1 DEF With
  <2>5. DOMAIN f \subseteq Nat \ {0} /\ IsFiniteSet(DOMAIN f)
    BY <2>3, <2>4, BaseParts, FS_AddElement
  <2>6. PICK D : D = [base EXCEPT !.client = f]
    OBVIOUS
  <2>7. D = [client |-> f, fbm |-> base.fbm, payment |-> base.payment, sale |-> base.sale,
             item |-> base.item, alloc |-> base.alloc, rental |-> base.rental, driver |-> base.driver]
    BY <2>6, BaseParts
  <2>8. DatabaseTyped(D)
    BY <2>4, <2>5, <2>7, BaseParts DEF DatabaseTyped
  <2>9. FkClean(D) /\ (D.rental.on => D.rental.cid # 0)
    BY <2>4, <2>7, BaseParts DEF FkClean
  <2> QED
    BY <2>2, <2>6, <2>8, <2>9, UserKeeps
<1>2. ASSUME NEW c \in Ids, RenameClient(c, n) PROVE RestoreInv'
  <2>1. PICK f, t : /\ f = [base.client EXCEPT ![c] = n]
                    /\ t = IF base.sale.on /\ base.sale.text = base.client[c] THEN n ELSE base.sale.text
    OBVIOUS
  <2>2. PICK w : w = [on |-> base.sale.on, cid |-> base.sale.cid, text |-> t, void |-> base.sale.void]
    OBVIOUS
  <2>3. PICK D : D = [base EXCEPT !.client[c] = n,
                                  !.sale.text = IF base.sale.on /\ @ = base.client[c] THEN n ELSE @]
    OBVIOUS
  <2>4. UserChanges(D)
    BY <1>2, <2>3 DEF RenameClient
  <2>5. base.sale = [on |-> base.sale.on, cid |-> base.sale.cid, text |-> base.sale.text,
                     void |-> base.sale.void]
    BY BaseParts DEF RowTyped
  <2>6. [base.sale EXCEPT !.text = t] = w
    BY <2>2, <2>5
  <2>7. D = [client |-> f, fbm |-> base.fbm, payment |-> base.payment, sale |-> w,
             item |-> base.item, alloc |-> base.alloc, rental |-> base.rental, driver |-> base.driver]
    BY <2>1, <2>3, <2>6, BaseParts
  <2>8. DOMAIN f = DOMAIN base.client /\ f = [x \in DOMAIN f |-> f[x]]
    BY <2>1
  <2>9. RowTyped(w) /\ w.cid = 0 /\ w.on = base.sale.on
    <3>1. ~base.sale.on => w = base.sale
      BY <2>1, <2>2, <2>5
    <3>2. RowTyped(base.sale) /\ base.sale.cid = 0
      BY BaseParts
    <3> QED
      BY <2>2, <3>1, <3>2 DEF RowTyped
  <2>10. DatabaseTyped(D)
    BY <2>7, <2>8, <2>9, BaseParts DEF DatabaseTyped
  <2>11. FkClean(D) /\ (D.rental.on => D.rental.cid # 0)
    BY <2>7, <2>8, <2>9, BaseParts DEF FkClean
  <2> QED
    BY <2>4, <2>10, <2>11, UserKeeps
<1> QED
  BY <1>1, <1>2

\* Drivers added and renamed.
LEMMA DriverKeeps ==
    ASSUME RestoreInv, NEW n, NewDriver(n) \/ \E d \in Ids : RenameDriver(d, n)
    PROVE  RestoreInv'
<1>1. ASSUME NEW f, DriversTyped(f), UserChanges([base EXCEPT !.driver = f]) PROVE RestoreInv'
  <2>1. PICK D : D = [base EXCEPT !.driver = f]
    OBVIOUS
  <2>2. D = [client |-> base.client, fbm |-> base.fbm, payment |-> base.payment, sale |-> base.sale,
             item |-> base.item, alloc |-> base.alloc, rental |-> base.rental, driver |-> f]
    BY <2>1, BaseParts
  <2>3. DatabaseTyped(D)
    BY <1>1, <2>2, BaseParts DEF DatabaseTyped
  <2>4. FkClean(D) /\ (D.rental.on => D.rental.cid # 0)
    BY <2>2, BaseParts DEF FkClean
  <2> QED
    BY <1>1, <2>1, <2>3, <2>4, UserKeeps
<1>2. PICK g : g = base.driver /\ DriversTyped(g)
  BY BaseParts
<1>3. g = [d \in DOMAIN g |-> g[d]] /\ DOMAIN g \subseteq Nat \ {0}
      /\ \A d, e \in DOMAIN g : g[d] = g[e] => d = e
  BY <1>2 DEF DriversTyped, IsInjective
<1>4. CASE NewDriver(n)
  <2>1. PICK d, f : d = MaxKey(DOMAIN base.driver) + 1 /\ f = With([x \in {d} |-> n], base.driver)
    OBVIOUS
  <2>2. d \in Ids /\ n \notin Range(g) /\ UserChanges([base EXCEPT !.driver = f])
    BY <1>2, <1>4, <2>1 DEF NewDriver
  <2>3. d \in Nat \ {0}
    BY <2>2, RestoreAssumption DEF Ids
  <2>4. /\ DOMAIN f = {d} \cup DOMAIN g /\ f = [x \in DOMAIN f |-> f[x]]
        /\ f[d] = n /\ \A x \in DOMAIN g \ {d} : f[x] = g[x]
    BY <1>2, <2>1 DEF With
  <2>5. \A x \in DOMAIN g : g[x] # n
    BY <2>2 DEF Range
  <2>6. \A x, y \in DOMAIN f : f[x] = f[y] => x = y
    BY <1>3, <2>4, <2>5
  <2>7. DriversTyped(f)
    BY <1>3, <2>3, <2>4, <2>6 DEF DriversTyped, IsInjective
  <2> QED
    BY <1>1, <2>2, <2>7
<1>5. ASSUME NEW d \in Ids, RenameDriver(d, n) PROVE RestoreInv'
  <2>1. PICK f : f = [g EXCEPT ![d] = n]
    OBVIOUS
  <2>2. d \in DOMAIN g /\ n \notin Range(g) /\ UserChanges([base EXCEPT !.driver = f])
    BY <1>2, <1>5, <2>1, BaseParts DEF RenameDriver
  <2>3. /\ DOMAIN f = DOMAIN g /\ f = [x \in DOMAIN f |-> f[x]]
        /\ f[d] = n /\ \A x \in DOMAIN g \ {d} : f[x] = g[x]
    BY <1>3, <2>1, <2>2
  <2>4. \A x \in DOMAIN g : g[x] # n
    BY <2>2 DEF Range
  <2>5. \A x, y \in DOMAIN f : f[x] = f[y] => x = y
    BY <1>3, <2>3, <2>4
  <2>6. DriversTyped(f)
    BY <1>3, <2>3, <2>5 DEF DriversTyped, IsInjective
  <2> QED
    BY <1>1, <2>2, <2>6
<1> QED
  BY <1>4, <1>5

\* A row that was just written.
LEMMA PaperTyped ==
    ASSUME NEW c \in Nat, NEW t
    PROVE  /\ RowTyped(Paper(c, t)) /\ Paper(c, t).on = TRUE /\ Paper(c, t).cid = c /\ Paper(c, t).text = t
           /\ RowTyped(NoRow) /\ NoRow.on = FALSE /\ NoRow.cid = 0 /\ NoRow.text = Blank
BY DEF RowTyped, Paper, NoRow

\* Documents posted and removed.
LEMMA DocumentKeeps ==
    ASSUME RestoreInv,
           \/ \E c \in Ids : PostPayment(c)
           \/ \E t, b : b \in BOOLEAN /\ PostSale(t, b)
           \/ \E p \in 1..Persons : RentOut(p)
           \/ RemovePayment \/ RemoveSale
    PROVE  RestoreInv'
<1>1. ASSUME NEW c \in Ids, PostPayment(c) PROVE RestoreInv'
  <2>1. PICK w : w = Paper(c, base.client[c])
    OBVIOUS
  <2>2. PICK D : D = [base EXCEPT !.payment = w]
    OBVIOUS
  <2>3. c \in DOMAIN base.client /\ UserChanges(D)
    BY <1>1, <2>1, <2>2 DEF PostPayment
  <2>4. c \in Nat
    BY <2>3, BaseParts
  <2>5. RowTyped(w) /\ w.cid = c
    BY <2>1, <2>4, PaperTyped
  <2>6. D = [client |-> base.client, fbm |-> base.fbm, payment |-> w, sale |-> base.sale,
             item |-> base.item, alloc |-> base.alloc, rental |-> base.rental, driver |-> base.driver]
    BY <2>2, BaseParts
  <2>7. DatabaseTyped(D)
    BY <2>5, <2>6, BaseParts DEF DatabaseTyped
  <2>8. FkClean(D) /\ (D.rental.on => D.rental.cid # 0)
    BY <2>3, <2>5, <2>6, BaseParts DEF FkClean
  <2> QED
    BY <2>3, <2>7, <2>8, UserKeeps
<1>2. ASSUME NEW t, NEW b \in BOOLEAN, PostSale(t, b) PROVE RestoreInv'
  <2>1. PICK w : w = Paper(0, t)
    OBVIOUS
  <2>2. PICK D : D = [base EXCEPT !.sale = w, !.item = TRUE, !.alloc = b]
    OBVIOUS
  <2>3. UserChanges(D)
    BY <1>2, <2>1, <2>2 DEF PostSale
  <2>4. RowTyped(w) /\ w.cid = 0 /\ w.on = TRUE
    BY <2>1, PaperTyped
  <2>5. D = [client |-> base.client, fbm |-> base.fbm, payment |-> base.payment, sale |-> w,
             item |-> TRUE, alloc |-> b, rental |-> base.rental, driver |-> base.driver]
    BY <2>2, BaseParts
  <2>6. DatabaseTyped(D)
    BY <2>4, <2>5, BaseParts DEF DatabaseTyped
  <2>7. FkClean(D) /\ (D.rental.on => D.rental.cid # 0)
    BY <2>4, <2>5, BaseParts DEF FkClean
  <2> QED
    BY <2>3, <2>6, <2>7, UserKeeps
<1>3. ASSUME NEW p \in 1..Persons, RentOut(p) PROVE RestoreInv'
  <2>1. PICK w : w = Paper(p, Blank)
    OBVIOUS
  <2>2. PICK D : D = [base EXCEPT !.fbm = p, !.rental = w]
    OBVIOUS
  <2>3. UserChanges(D)
    BY <1>3, <2>1, <2>2 DEF RentOut
  <2>4. p \in Nat /\ p # 0
    BY RestoreAssumption
  <2>5. RowTyped(w) /\ w.cid = p /\ w.text = Blank
    BY <2>1, <2>4, PaperTyped
  <2>6. D = [client |-> base.client, fbm |-> p, payment |-> base.payment, sale |-> base.sale,
             item |-> base.item, alloc |-> base.alloc, rental |-> w, driver |-> base.driver]
    BY <2>2, BaseParts
  <2>7. DatabaseTyped(D)
    BY <2>4, <2>5, <2>6, BaseParts DEF DatabaseTyped
  <2>8. FkClean(D) /\ (D.rental.on => D.rental.cid # 0)
    BY <2>4, <2>5, <2>6, BaseParts DEF FkClean
  <2> QED
    BY <2>3, <2>7, <2>8, UserKeeps
<1>4. CASE RemovePayment
  <2>1. PICK D : D = [base EXCEPT !.payment = NoRow]
    OBVIOUS
  <2>2. UserChanges(D)
    BY <1>4, <2>1 DEF RemovePayment
  <2>3. RowTyped(NoRow) /\ NoRow.cid = 0
    BY PaperTyped
  <2>4. D = [client |-> base.client, fbm |-> base.fbm, payment |-> NoRow, sale |-> base.sale,
             item |-> base.item, alloc |-> base.alloc, rental |-> base.rental, driver |-> base.driver]
    BY <2>1, BaseParts
  <2>5. DatabaseTyped(D)
    BY <2>3, <2>4, BaseParts DEF DatabaseTyped
  <2>6. FkClean(D) /\ (D.rental.on => D.rental.cid # 0)
    BY <2>3, <2>4, BaseParts DEF FkClean
  <2> QED
    BY <2>2, <2>5, <2>6, UserKeeps
<1>5. CASE RemoveSale
  <2>1. PICK D : D = [base EXCEPT !.sale = NoRow, !.item = FALSE, !.alloc = FALSE]
    OBVIOUS
  <2>2. UserChanges(D)
    BY <1>5, <2>1 DEF RemoveSale
  <2>3. RowTyped(NoRow) /\ NoRow.cid = 0
    BY PaperTyped
  <2>4. D = [client |-> base.client, fbm |-> base.fbm, payment |-> base.payment, sale |-> NoRow,
             item |-> FALSE, alloc |-> FALSE, rental |-> base.rental, driver |-> base.driver]
    BY <2>1, BaseParts
  <2>5. DatabaseTyped(D)
    BY <2>3, <2>4, BaseParts DEF DatabaseTyped
  <2>6. FkClean(D) /\ (D.rental.on => D.rental.cid # 0)
    BY <2>4, BaseParts DEF FkClean
  <2> QED
    BY <2>2, <2>5, <2>6, UserKeeps
<1> QED
  BY <1>1, <1>2, <1>3, <1>4, <1>5

\* Every step keeps the invariant.
LEMMA RestoreStays == RestoreInv /\ [RestoreNext]_restoreVars => RestoreInv'
<1> SUFFICES ASSUME RestoreInv, [RestoreNext]_restoreVars PROVE RestoreInv'
  OBVIOUS
<1>1. CASE UNCHANGED restoreVars
  BY <1>1 DEF restoreVars, RestoreInv
<1>2. CASE PlanRestore \/ RestoreRefused \/ ApplyPlan
  BY <1>2, RestoreKeeps
<1>3. ASSUME NEW full \in BOOLEAN, ExportArchive(full) PROVE RestoreInv'
  BY <1>3, ExportKeeps
<1>4. ASSUME NEW n \in Names, NewClient(n) \/ \E c \in Ids : RenameClient(c, n) PROVE RestoreInv'
  BY <1>4, ClientKeeps
<1>6. ASSUME NEW n \in Names, NewDriver(n) \/ \E d \in Ids : RenameDriver(d, n) PROVE RestoreInv'
  BY <1>6, DriverKeeps
<1>5. CASE \/ \E c \in Ids : PostPayment(c)
           \/ \E t \in NamesOf(base) \cup {Stranger}, b \in BOOLEAN : PostSale(t, b)
           \/ \E p \in 1..Persons : RentOut(p)
           \/ RemovePayment \/ RemoveSale
  BY <1>5, DocumentKeeps
<1> QED
  BY <1>1, <1>2, <1>3, <1>4, <1>5, <1>6 DEF RestoreNext

\* An archive of any database: a merge that is repeated changes nothing, unless it
\* made an orphan, overwrote a client or went by a name that two have; and a backup
\* changes nothing in its own database and brings back an emptied one.
THEOREM BackupRestoresHolds == RestoreSpec => []BackupRestores
<1>1. RestoreInv => BackupRestores
  BY SoundBackupRestores
<1> QED
  BY <1>1, RestoreBegins, RestoreStays, PTL DEF RestoreSpec

\* What applying a plan answers and writes.
LEMMA AppliedHonestly ==
    ASSUME RestoreInv, ApplyPlan
    PROVE  /\ answer' = "refused" /\ base' # base => OddRental(base')
           /\ ~merge.stale =>
                 /\ base' = Merged(merge.plan, base) \/ NameTaken(archive, base)
                 /\ \A c \in DOMAIN base.client \ DOMAIN archive.client :
                        base'.client[c] = base.client[c]
<1>1. PICK P, D : P = merge.plan /\ D = Merged(P, base)
  OBVIOUS
<1>2. merge.pc = "planned" /\ (IF Lands(P, base) THEN base' = D /\ answer' = (IF Verified(D) THEN "done" ELSE "refused")
                                                ELSE base' = base /\ answer' = "refused")
  BY <1>1 DEF ApplyPlan
<1>3. ASSUME answer' = "refused", base' # base PROVE OddRental(base')
  BY <1>1, <1>2, <1>3 DEF Verified, Lands
<1>4. ASSUME ~merge.stale
      PROVE  /\ base' = D \/ NameTaken(archive, base)
             /\ \A c \in DOMAIN base.client \ DOMAIN archive.client : base'.client[c] = base.client[c]
  <2>1. /\ P = BuildPlan(archive, base) /\ Resolvable(P, base)
        /\ DatabaseTyped(base) /\ DatabaseTyped(archive) /\ FkClean(base)
    BY <1>1, <1>2, <1>4 DEF RestoreInv, IdleMerge
  <2>2. FkClean(D)
    BY <1>1, <2>1, PlanFits
  <2>3. base' = D \/ (base' = base /\ NameTaken(archive, base))
    <3>1. P.driver = archive.driver
      BY <2>1, PlanSound
    <3>2. Clash(P.driver, base.driver) => NameTaken(archive, base)
      BY <3>1 DEF Clash, NameTaken
    <3>3. Lands(P, base) <=> ~Clash(P.driver, base.driver)
      BY <1>1, <2>2 DEF Lands
    <3> QED
      BY <1>2, <3>2, <3>3
  <2>4. ASSUME NEW c \in DOMAIN base.client \ DOMAIN archive.client PROVE D.client[c] = base.client[c]
    <3>1. c \notin DOMAIN P.client
      BY <2>1, PlanSound
    <3>2. MergedIs(D, P, base)
      BY <1>1, MergedParts
    <3> QED
      BY <3>1, <3>2 DEF MergedIs
  <2> QED
    BY <2>3, <2>4
<1> QED
  BY <1>1, <1>3, <1>4

\* What a merge answers is so, for any archive: a plan that no change overtook is written
\* in full, unless a unique value of its rows is another row's, and replaces no client the
\* archive does not hold, and "nothing changed"
\* is said of a changed database only after the verification of a rental.
THEOREM MergeHonestHolds == RestoreSpec => MergeHonest
<1>1. RestoreInv /\ [RestoreNext]_restoreVars =>
          [ApplyPlan =>
             /\ answer' = "refused" /\ base' # base => OddRental(base')
             /\ ~merge.stale =>
                   /\ base' = Merged(merge.plan, base) \/ NameTaken(archive, base)
                   /\ \A c \in DOMAIN base.client \ DOMAIN archive.client :
                          base'.client[c] = base.client[c]]_restoreVars
  BY AppliedHonestly
<1> QED
  BY <1>1, RestoreBegins, RestoreStays, PTL DEF RestoreSpec, MergeHonest
=============================================================================
