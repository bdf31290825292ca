------------------------ MODULE PipelineAndRents_proofs ------------------------
(***************************************************************************)
(* Two components, one after the other.                                    *)
(*                                                                         *)
(* UpdatePipeline: the migration ledger tells the truth about the          *)
(* database, for any number of processes and revisions, any failures,      *)
(* deaths and restarts, and any releases between runs, when runs do not    *)
(* overlap.                                                                *)
(*                                                                         *)
(* DriverRents: a driver is owed what he earned, for any sales, drivers,   *)
(* rents and payments, however sales are edited and settlements spread;    *)
(* and a settlement pays no more than he was owed, unless it was crossed.  *)
(***************************************************************************)
EXTENDS UpdatePipeline, DriverRents, SumTheorems, SequenceTheorems, WellFoundedInduction, TLAPS

Stages == {"off", "ledger", "collect", "backup", "baseline", "apply", "undo", "failed",
           "committed", "versioned", "verify", "finish"}
RunsTyped ==
    run \in [Runs -> [at : Stages, todo : SUBSET Revisions, stopped : BOOLEAN,
                      backup : {"none", "PASS", "FAIL", "SKIPPED"},
                      verdict : {"none", "READY", "ATTENTION"}]]
BaseTyped ==
    /\ policy \in [backup : BOOLEAN, legacy : BOOLEAN] /\ drift \in BOOLEAN
    /\ broken \in SUBSET Breakable /\ partial \in SUBSET Revisions /\ lost \in SUBSET Revisions
    /\ applied \in [Revisions -> Nat] /\ ledger \in [Revisions -> {"none", "APPLIED", "FAILED"}]
    /\ faults \in Nat

Alone == \A p, q \in Runs : run[p].at # "off" /\ run[q].at # "off" => p = q

\* The stages at which a revision is in hand, and those that follow the collection.
InHand == {"undo", "failed", "committed", "versioned"}
Working == {"backup", "baseline", "apply"} \cup InHand
Unrecorded(r) == \E p \in Runs : run[p].at \in {"committed", "versioned"} /\ r = Current(p)

HandFull == \A p \in Runs : run[p].at \in InHand => run[p].todo # {} /\ ~run[p].stopped

\* The ledger is right about what is not lost, but for the upgrade just committed.
ExactNow ==
    \A r \in Revisions \ lost :
        applied[r] = IF ledger[r] = "APPLIED" \/ Unrecorded(r) THEN 1 ELSE 0
\* What a run is about to apply is not recorded as applied, unless it was lost.
TodoIsNew ==
    \A p \in Runs : run[p].at \in Working =>
        \A r \in run[p].todo \ lost : ledger[r] # "APPLIED"
\* A run that was not stopped has nothing else to do.
RestIsDone ==
    \A p \in Runs : run[p].at \in Working \cup {"verify", "finish"} /\ ~run[p].stopped =>
        broken = {} /\ \A r \in Revisions \ run[p].todo : ledger[r] = "APPLIED"
EndIsDone ==
    \A p \in Runs : ~run[p].stopped =>
        /\ run[p].at \in {"verify", "finish"} => run[p].todo = {}
        /\ run[p].at = "finish" => ~drift
Ordered ==
    lost = {} => \A r \in Revisions : applied[r] > 0 => \A q \in 1..(r - 1) : applied[q] > 0

IInv == /\ RunsTyped /\ BaseTyped /\ Alone /\ HandFull /\ ExactNow
        /\ TodoIsNew /\ RestIsDone /\ EndIsDone /\ Ordered

\* A set of revisions has a first one: Current is what sort_revisions puts first.
LEMMA FirstOfMany ==
    ASSUME NEW S \in SUBSET Revisions, S # {}
    PROVE  Min(S) \in S /\ \A r \in S : Min(S) <= r
<1>1. S \subseteq Nat
  BY RevisionAssumption DEF Revisions
<1>2. PICK x \in S : \A y \in S : ~ (<<y, x>> \in OpToRel(<, Nat))
  <2> HIDE DEF OpToRel
  <2> QED
    BY <1>1, NatLessThanWellFounded, WFMin
<1>3. \A y \in S : x <= y
  <2> SUFFICES ASSUME NEW y \in S, ~(x <= y) PROVE FALSE
    OBVIOUS
  <2>1. y < x /\ <<y, x>> \in Nat \X Nat
    BY <1>1
  <2>2. <<y, x>> \in OpToRel(<, Nat)
    BY <2>1 DEF OpToRel
  <2> HIDE DEF OpToRel
  <2> QED
    BY <1>2, <2>2
<1> QED
  BY <1>3 DEF Min

LEMMA InitInv == Init => IInv
<1> SUFFICES ASSUME Init PROVE IInv
  OBVIOUS
<1> USE DEF Init, Off
<1>1. RunsTyped
  BY DEF RunsTyped, Stages
<1>2. BaseTyped
  BY BoundAssumption DEF BaseTyped
<1>3. Alone /\ HandFull /\ ExactNow /\ TodoIsNew
  BY DEF Alone, HandFull, InHand, ExactNow, Unrecorded, TodoIsNew, Working
<1>4. RestIsDone /\ EndIsDone /\ Ordered
  BY DEF RestIsDone, EndIsDone, Ordered, Working, InHand
<1> QED
  BY <1>1, <1>2, <1>3, <1>4 DEF IInv

\* What a process does alone keeps the types.
LEMMA TypeStep == IInv /\ [Next]_vars => RunsTyped' /\ BaseTyped'
<1> SUFFICES ASSUME IInv, [Next]_vars PROVE RunsTyped' /\ BaseTyped'
  OBVIOUS
<1>i. RunsTyped /\ BaseTyped
  BY DEF IInv
<1>0. CASE UNCHANGED vars \/ Deploy
  BY <1>0, <1>i DEF vars, code, db, Deploy, RunsTyped, BaseTyped
<1> SUFFICES ASSUME NEW p \in Runs, Proceed(p) \/ CollectUnread(p) \/ UpgradeFails(p) \/ Crash(p)
             PROVE  RunsTyped' /\ BaseTyped'
  BY <1>0 DEF Next
<1> USE <1>i DEF code, db
<1>c. run[p].todo # {} => Current(p) \in Revisions /\ Current(p) \in run[p].todo
  BY FirstOfMany DEF Current, RunsTyped
<1>h. run[p].at \in InHand => run[p].todo # {}
  BY DEF IInv, HandFull
<1>1. CASE Start(p) \/ EnsureLedger(p) \/ Finish(p)
  <2>1. CASE Start(p)
    BY <2>1 DEF Start, Off, RunsTyped, BaseTyped, Stages
  <2>2. CASE EnsureLedger(p)
    BY <2>2 DEF EnsureLedger, Goto, Block, Fault, RunsTyped, BaseTyped, Stages
  <2>3. CASE Finish(p)
    BY <2>3 DEF Finish, Off, RunsTyped, BaseTyped, Stages
  <2> QED
    BY <1>1, <2>1, <2>2, <2>3
<1>2. CASE Collect(p) \/ CollectUnread(p)
  <2>1. run' = [run EXCEPT ![p].at = "backup", ![p].todo = run'[p].todo, ![p].stopped = run'[p].stopped]
        /\ run'[p].todo \in SUBSET Revisions /\ run'[p].stopped \in BOOLEAN
    <3>1. PICK known \in SUBSET Revisions : Collected(p, known)
      BY <1>2 DEF Collect, CollectUnread, AppliedRevisions
    <3>2. policy.legacy \in BOOLEAN /\ run[p].stopped \in BOOLEAN
      BY DEF RunsTyped, BaseTyped
    <3> QED
      BY <3>1, <3>2 DEF Collected, RunsTyped, BaseTyped
  <2>2. RunsTyped'
    BY <2>1 DEF RunsTyped, Stages
  <2> QED
    BY <1>2, <2>2 DEF Collect, CollectUnread, AppliedRevisions, Fault, BaseTyped
<1>3. CASE Backup(p)
  <2>1. RunsTyped'
    BY <1>3 DEF Backup, RunsTyped, BaseTyped, Stages
  <2> QED
    BY <1>3, <2>1 DEF Backup, Fault, BaseTyped
<1>4. CASE Baseline(p) \/ ApplyDone(p) \/ Verify(p)
  <2>1. CASE Baseline(p)
    <3>1. RunsTyped'
      BY <2>1 DEF Baseline, Goto, Block, RunsTyped, Stages
    <3>2. BaseTyped'
      <4>1. drift' = drift \/ drift' = FALSE
        BY <2>1 DEF Baseline
      <4>2. drift' \in BOOLEAN
        BY <4>1 DEF BaseTyped
      <4>3. faults' \in Nat
        BY <2>1 DEF Baseline, Fault, BaseTyped
      <4> QED
        BY <2>1, <4>2, <4>3 DEF Baseline, BaseTyped
    <3> QED
      BY <3>1, <3>2
  <2>2. CASE ApplyDone(p)
    BY <2>2 DEF ApplyDone, Goto, RunsTyped, BaseTyped, Stages
  <2>3. CASE Verify(p)
    BY <2>3 DEF Verify, Goto, Block, Fault, RunsTyped, BaseTyped, Stages
  <2> QED
    BY <1>4, <2>1, <2>2, <2>3
<1>5. CASE Upgrade(p)
  BY <1>5, <1>c DEF Upgrade, Goto, RunsTyped, BaseTyped, Stages
<1>6. CASE UpgradeFails(p)
  BY <1>6, <1>c DEF UpgradeFails, Goto, Fault, RunsTyped, BaseTyped, Stages
<1>7. CASE Undo(p)
  BY <1>7, <1>c, <1>h DEF Undo, Goto, Fault, RunsTyped, BaseTyped, Stages, InHand
<1>8. CASE RecordFailed(p)
  BY <1>8, <1>c, <1>h DEF RecordFailed, Block, Fault, RunsTyped, BaseTyped, Stages, InHand
<1>9. CASE WriteVersion(p)
  BY <1>9 DEF WriteVersion, Goto, Fault, RunsTyped, BaseTyped, Stages
<1>10. CASE RecordApplied(p)
  BY <1>10, <1>c, <1>h DEF RecordApplied, Block, Fault, RunsTyped, BaseTyped, Stages, InHand
<1>11. CASE Crash(p)
  BY <1>11, <1>c, <1>h DEF Crash, Off, Fault, RunsTyped, BaseTyped, Stages, InHand
<1> QED
  BY <1>1, <1>2, <1>3, <1>4, <1>5, <1>6, <1>7, <1>8, <1>9, <1>10, <1>11 DEF Proceed

\* When runs do not overlap a step is made by the one process at work.
LEMMA AloneStep == ~Overlap /\ IInv /\ RunsTyped' /\ [Next]_vars => Alone'
<1> SUFFICES ASSUME ~Overlap, IInv, [Next]_vars, RunsTyped' PROVE Alone'
  OBVIOUS
<1> USE DEF IInv, Alone, RunsTyped
<1>0. CASE UNCHANGED vars \/ Deploy
  BY <1>0 DEF vars, Deploy
<1> SUFFICES ASSUME NEW p \in Runs, Proceed(p) \/ CollectUnread(p) \/ UpgradeFails(p) \/ Crash(p)
             PROVE  Alone'
  BY <1>0 DEF Next
<1>1. \A q \in Runs \ {p} : run'[q] = run[q]
  BY DEF Proceed, CollectUnread, UpgradeFails, Crash, Start, EnsureLedger, Collect, Collected, Backup,
         Baseline, ApplyDone, Upgrade, Undo, RecordFailed, WriteVersion, RecordApplied, Verify,
         Finish, Goto, Block
<1>2. Start(p) \/ run[p].at # "off"
  BY DEF Proceed, CollectUnread, UpgradeFails, Crash, EnsureLedger, Collect, Backup,
         Baseline, ApplyDone, Upgrade, Undo, RecordFailed, WriteVersion, RecordApplied, Verify, Finish
<1>3. \A q \in Runs \ {p} : run[q].at = "off"
  BY <1>2 DEF Start
<1> QED
  BY <1>1, <1>3

\* No step of the one process at work makes the ledger wrong about what is not lost.
LEMMA ExactStep ==
    ~Overlap /\ IInv /\ RunsTyped' /\ BaseTyped' /\ Alone' /\ [Next]_vars =>
        HandFull' /\ ExactNow' /\ TodoIsNew' /\ Ordered'
<1> SUFFICES ASSUME ~Overlap, IInv, RunsTyped', BaseTyped', Alone', [Next]_vars
             PROVE  HandFull' /\ ExactNow' /\ TodoIsNew' /\ Ordered'
  OBVIOUS
<1>i. RunsTyped /\ BaseTyped /\ Alone /\ HandFull /\ ExactNow /\ TodoIsNew /\ RestIsDone /\ Ordered
  BY DEF IInv
<1>0. CASE UNCHANGED vars \/ Deploy
  BY <1>0, <1>i
  DEF vars, code, db, Deploy, HandFull, ExactNow, Unrecorded, Current, TodoIsNew, Ordered, Working, InHand
<1> SUFFICES ASSUME NEW p \in Runs, Proceed(p) \/ CollectUnread(p) \/ UpgradeFails(p) \/ Crash(p)
             PROVE  HandFull' /\ ExactNow' /\ TodoIsNew' /\ Ordered'
  BY <1>0 DEF Next
<1> USE <1>i DEF code, db
<1>1. Start(p) \/ run[p].at # "off"
  BY DEF Proceed, CollectUnread, UpgradeFails, Crash, EnsureLedger, Collect, Backup,
         Baseline, ApplyDone, Upgrade, Undo, RecordFailed, WriteVersion, RecordApplied, Verify, Finish
<1>2. \A q \in Runs \ {p} : run'[q] = run[q]
  BY DEF RunsTyped, Proceed, CollectUnread, UpgradeFails, Crash, Start, EnsureLedger, Collect, Collected,
         Backup, Baseline, ApplyDone, Upgrade, Undo, RecordFailed, WriteVersion, RecordApplied, Verify,
         Finish, Goto, Block
<1>3. \A q \in Runs \ {p} : run[q].at = "off" /\ run'[q].at = "off"
  BY <1>1, <1>2 DEF Start, Alone
<1>4. \A r : Unrecorded(r) <=> run[p].at \in {"committed", "versioned"} /\ r = Current(p)
  BY <1>3 DEF Unrecorded
<1>5. \A r : Unrecorded(r)' <=> run'[p].at \in {"committed", "versioned"} /\ r = Current(p)'
  BY <1>3 DEF Unrecorded
<1>6. run'[p].todo = run[p].todo => Current(p)' = Current(p)
  BY DEF Current
<1>7. run[p].at \in InHand \/ Upgrade(p) =>
         /\ Current(p) \in run[p].todo /\ Current(p) \in Revisions /\ ~run[p].stopped
         /\ \A r \in run[p].todo : Current(p) <= r
  BY FirstOfMany DEF Current, RunsTyped, HandFull, Upgrade
<1>8. CASE run[p].at \notin InHand \cup {"apply", "collect"}
  <2>1. run'[p].at \in {"off", "ledger", "collect", "baseline", "apply", "finish"}
    BY <1>8 DEF RunsTyped, Proceed, CollectUnread, UpgradeFails, Crash, Start, EnsureLedger, Collect,
         Backup, Baseline, ApplyDone, Upgrade, Undo, RecordFailed, WriteVersion, RecordApplied, Verify,
         Finish, Goto, Block, InHand, Off
  <2>2. UNCHANGED <<applied, ledger, lost>>
    BY <1>8 DEF Proceed, CollectUnread, UpgradeFails, Crash, Start, EnsureLedger, Collect,
         Backup, Baseline, ApplyDone, Upgrade, Undo, RecordFailed, WriteVersion, RecordApplied, Verify,
         Finish, InHand
  <2>3. run'[p].at \in {"baseline", "apply"} => run[p].at \in Working /\ run'[p].todo = run[p].todo
    BY <1>8 DEF RunsTyped, Proceed, CollectUnread, UpgradeFails, Crash, Start, EnsureLedger, Collect,
         Backup, Baseline, ApplyDone, Upgrade, Undo, RecordFailed, WriteVersion, RecordApplied, Verify,
         Finish, Goto, Block, InHand, Off, Working
  <2>4. HandFull' /\ Ordered'
    BY <1>3, <2>1, <2>2 DEF HandFull, Ordered, InHand
  <2>5. ExactNow'
    BY <1>4, <1>5, <1>8, <2>1, <2>2 DEF ExactNow, InHand
  <2>6. TodoIsNew'
    BY <1>3, <2>1, <2>2, <2>3 DEF TodoIsNew, Working, InHand
  <2> QED
    BY <2>4, <2>5, <2>6
<1> HIDE DEF Unrecorded, Current
<1>9. CASE Collect(p) \/ CollectUnread(p)
  <2>1. PICK known \in {{}, AppliedRevisions} :
           Collected(p, known) /\ lost' = lost \cup (AppliedRevisions \ known) /\ UNCHANGED <<applied, ledger>>
    BY <1>9 DEF Collect, CollectUnread
  <2>2. run'[p].at = "backup" /\ run'[p].todo \subseteq Revisions \ known
    BY <2>1 DEF Collected, RunsTyped
  <2>3. ExactNow'
    BY <1>4, <1>5, <1>9, <2>1, <2>2 DEF ExactNow, Collect, CollectUnread
  <2>4. HandFull' /\ TodoIsNew'
    BY <1>3, <2>1, <2>2 DEF HandFull, TodoIsNew, InHand, Working, AppliedRevisions
  <2> QED
    BY <2>1, <2>3, <2>4 DEF Ordered
<1>10. CASE ApplyDone(p) \/ (Crash(p) /\ run[p].at \in {"apply", "collect"})
  <2>1. run'[p].at \in {"off", "verify"} /\ UNCHANGED <<applied, ledger, lost>>
    BY <1>10 DEF ApplyDone, Crash, Goto, Off, RunsTyped
  <2>2. run[p].at \in {"apply", "collect"}
    BY <1>10 DEF ApplyDone
  <2> QED
    BY <1>3, <1>4, <1>5, <2>1, <2>2 DEF HandFull, ExactNow, TodoIsNew, Ordered, InHand, Working
<1>11. CASE Upgrade(p)
  <2>1. /\ run'[p].at = "committed" /\ run'[p].todo = run[p].todo /\ run'[p].stopped = run[p].stopped
        /\ run[p].at = "apply" /\ ~run[p].stopped /\ run[p].todo # {}
        /\ applied' = [applied EXCEPT ![Current(p)] = @ + 1] /\ UNCHANGED <<ledger, lost>>
    BY <1>11 DEF Upgrade, Goto, RunsTyped
  <2>2. HandFull' /\ TodoIsNew'
    BY <1>3, <2>1 DEF HandFull, TodoIsNew, InHand, Working
  <2>3. ExactNow'
    BY <1>4, <1>5, <1>6, <1>7, <1>11, <2>1 DEF ExactNow, TodoIsNew, Working, BaseTyped
  <2>4. ASSUME lost = {} PROVE \A q \in 1..(Current(p) - 1) : applied[q] > 0
    <3> SUFFICES ASSUME NEW q \in 1..(Current(p) - 1) PROVE applied[q] > 0
      OBVIOUS
    <3>1. q \in Revisions \ run[p].todo
      BY <1>7, <1>11, RevisionAssumption DEF Revisions
    <3>2. ledger[q] = "APPLIED"
      BY <2>1, <3>1 DEF RestIsDone, Working
    <3> QED
      BY <2>4, <3>1, <3>2 DEF ExactNow
  <2>5. Ordered'
    <3> SUFFICES ASSUME lost = {}, NEW r \in Revisions, applied'[r] > 0, NEW q \in 1..(r - 1)
                 PROVE  applied'[q] > 0
      BY <2>1 DEF Ordered
    <3>1. applied'[q] >= applied[q] /\ applied[q] \in Nat /\ applied'[q] \in Nat
      BY <2>1, RevisionAssumption DEF BaseTyped, Revisions
    <3>2. CASE r = Current(p)
      BY <2>4, <3>1, <3>2
    <3>3. CASE r # Current(p)
      BY <2>1, <3>1, <3>3 DEF Ordered, BaseTyped
    <3> QED
      BY <3>2, <3>3
  <2> QED
    BY <2>2, <2>3, <2>5
<1>12. CASE UpgradeFails(p)
  <2>1. /\ run'[p].at = "undo" /\ run'[p].todo = run[p].todo /\ run'[p].stopped = run[p].stopped
        /\ run[p].at = "apply" /\ ~run[p].stopped /\ run[p].todo # {} /\ UNCHANGED <<applied, ledger, lost>>
    BY <1>12 DEF UpgradeFails, Goto, RunsTyped
  <2> QED
    BY <1>3, <1>4, <1>5, <2>1 DEF HandFull, ExactNow, TodoIsNew, Ordered, InHand, Working
<1> HIDE DEF Fault
<1>13. CASE Undo(p)
  <2>1. /\ run'[p].at = "failed" /\ run'[p].todo = run[p].todo /\ run'[p].stopped = run[p].stopped
        /\ run[p].at = "undo" /\ UNCHANGED <<ledger, lost>>
        /\ applied' = applied \/ applied' = [applied EXCEPT ![Current(p)] = 0]
    BY <1>13 DEF Undo, Goto, RunsTyped
  <2>2. Current(p) \in Revisions /\ Current(p) \in run[p].todo
    BY <1>7, <2>1 DEF InHand
  <2>3. Current(p) \notin lost => applied[Current(p)] = 0
    BY <1>4, <2>1, <2>2 DEF ExactNow, TodoIsNew, Working, InHand
  <2>4. \A r \in Revisions \ lost : applied'[r] = applied[r]
    BY <2>1, <2>2, <2>3 DEF BaseTyped
  <2>5. HandFull' /\ TodoIsNew'
    BY <1>3, <2>1 DEF HandFull, TodoIsNew, InHand, Working
  <2>6. ExactNow'
    BY <1>4, <1>5, <2>1, <2>4 DEF ExactNow
  <2>7. Ordered'
    BY <2>1, <2>2, <2>3 DEF Ordered, BaseTyped
  <2> QED
    BY <2>5, <2>6, <2>7
<1>14. CASE RecordFailed(p)
  <2>1. /\ run'[p].at \in {"verify", "finish"} /\ run[p].at = "failed" /\ UNCHANGED <<applied, lost>>
        /\ ledger' = ledger \/ ledger' = [ledger EXCEPT ![Current(p)] = "FAILED"]
    BY <1>14 DEF RecordFailed, Block, RunsTyped
  <2>2. Current(p) \in Revisions /\ Current(p) \in run[p].todo
    BY <1>7, <2>1 DEF InHand
  <2>3. HandFull' /\ TodoIsNew' /\ Ordered'
    BY <1>3, <2>1 DEF HandFull, TodoIsNew, Ordered, InHand, Working
  <2>4. Current(p) \notin lost => ledger[Current(p)] # "APPLIED"
    BY <2>1, <2>2 DEF TodoIsNew, Working, InHand
  <2>5. ExactNow'
    BY <1>4, <1>5, <2>1, <2>2, <2>4 DEF ExactNow, BaseTyped
  <2> QED
    BY <2>3, <2>5
<1>15. CASE WriteVersion(p)
  <2>1. /\ run'[p].at = "versioned" /\ run'[p].todo = run[p].todo /\ run'[p].stopped = run[p].stopped
        /\ run[p].at = "committed" /\ UNCHANGED <<applied, ledger, lost>>
    BY <1>15 DEF WriteVersion, Goto, RunsTyped
  <2>2. HandFull' /\ TodoIsNew' /\ Ordered'
    BY <1>3, <2>1 DEF HandFull, TodoIsNew, Ordered, InHand, Working
  <2>3. ExactNow'
    BY <1>4, <1>5, <1>6, <2>1 DEF ExactNow
  <2> QED
    BY <2>2, <2>3
<1>16. CASE RecordApplied(p)
  <2>1. run[p].at = "versioned" /\ applied' = applied
    BY <1>16 DEF RecordApplied
  <2>2. Current(p) \in Revisions /\ Current(p) \in run[p].todo
    BY <1>7, <2>1 DEF InHand
  <2>3. CASE /\ ledger' = [ledger EXCEPT ![Current(p)] = "APPLIED"] /\ lost' = lost
             /\ run' = [run EXCEPT ![p].at = "apply", ![p].todo = @ \ {Current(p)}]
    <3>1. run'[p].at = "apply" /\ run'[p].todo = run[p].todo \ {Current(p)}
      BY <2>3 DEF RunsTyped
    <3>2. HandFull' /\ Ordered'
      BY <1>3, <2>1, <2>3, <3>1 DEF HandFull, InHand, Ordered
    <3>3. TodoIsNew'
      <4> SUFFICES ASSUME NEW r \in run'[p].todo \ lost' PROVE ledger'[r] # "APPLIED"
        BY <1>3 DEF TodoIsNew, Working, InHand
      <4>1. r \in run[p].todo \ lost /\ r # Current(p)
        BY <2>3, <3>1
      <4>2. ledger[r] # "APPLIED"
        BY <2>1, <4>1 DEF TodoIsNew, Working, InHand
      <4> QED
        BY <2>3, <4>1, <4>2 DEF BaseTyped, RunsTyped
    <3>4. ExactNow'
      BY <1>4, <1>5, <2>1, <2>2, <2>3, <3>1 DEF ExactNow, BaseTyped
    <3> QED
      BY <3>2, <3>3, <3>4
  <2>4. CASE Block(p, "finish") /\ lost' = lost \cup {Current(p)} /\ ledger' = ledger
    <3>1. run'[p].at = "finish"
      BY <2>4 DEF Block, RunsTyped
    <3>2. HandFull' /\ TodoIsNew' /\ Ordered'
      BY <1>3, <2>1, <2>4, <3>1 DEF HandFull, TodoIsNew, Ordered, InHand, Working
    <3>3. ExactNow'
      BY <1>4, <1>5, <2>1, <2>4, <3>1 DEF ExactNow
    <3> QED
      BY <3>2, <3>3
  <2> QED
    BY <1>16, <2>3, <2>4 DEF RecordApplied
<1>17. CASE Crash(p) /\ run[p].at \in InHand
  <2>1. /\ run'[p].at = "off" /\ UNCHANGED <<applied, ledger>>
        /\ lost' = IF run[p].at \in {"committed", "versioned"} THEN lost \cup {Current(p)} ELSE lost
    BY <1>17 DEF Crash, Off, RunsTyped
  <2>2. HandFull' /\ TodoIsNew' /\ Ordered'
    BY <1>3, <2>1 DEF HandFull, TodoIsNew, Ordered, InHand, Working
  <2>3. ExactNow'
    BY <1>4, <1>5, <2>1 DEF ExactNow
  <2> QED
    BY <2>2, <2>3
<1> QED
  BY <1>8, <1>9, <1>10, <1>11, <1>12, <1>13, <1>14, <1>15, <1>16, <1>17
  DEF Proceed, Start, EnsureLedger, Backup, Baseline, Verify, Finish, InHand

\* A run that was not stopped has nothing left but what it is about to apply.
LEMMA DoneStep ==
    ~Overlap /\ IInv /\ RunsTyped' /\ [Next]_vars => RestIsDone' /\ EndIsDone'
<1> SUFFICES ASSUME ~Overlap, IInv, RunsTyped', [Next]_vars PROVE RestIsDone' /\ EndIsDone'
  OBVIOUS
<1>i. RunsTyped /\ BaseTyped /\ Alone /\ HandFull /\ RestIsDone /\ EndIsDone
  BY DEF IInv
<1> USE <1>i DEF code, db, Working, InHand
<1>0. CASE UNCHANGED vars \/ Deploy
  BY <1>0 DEF vars, Deploy, RestIsDone, EndIsDone
<1> SUFFICES ASSUME NEW p \in Runs, Proceed(p) \/ CollectUnread(p) \/ UpgradeFails(p) \/ Crash(p)
             PROVE  RestIsDone' /\ EndIsDone'
  BY <1>0 DEF Next
<1>1. \A q \in Runs \ {p} : run'[q].at = "off"
  <2>1. \A q \in Runs \ {p} : run'[q] = run[q]
    BY DEF RunsTyped, Proceed, CollectUnread, UpgradeFails, Crash, Start, EnsureLedger, Collect, Collected,
           Backup, Baseline, ApplyDone, Upgrade, Undo, RecordFailed, WriteVersion, RecordApplied, Verify,
           Finish, Goto, Block
  <2>2. Start(p) \/ run[p].at # "off"
    BY DEF Proceed, CollectUnread, UpgradeFails, Crash, EnsureLedger, Collect, Backup,
           Baseline, ApplyDone, Upgrade, Undo, RecordFailed, WriteVersion, RecordApplied, Verify, Finish
  <2> QED
    BY <2>1, <2>2 DEF Start, Alone
<1>2. broken' = broken
  BY DEF Proceed, CollectUnread, UpgradeFails, Crash, Start, EnsureLedger, Collect, Backup, Baseline,
         ApplyDone, Upgrade, Undo, RecordFailed, WriteVersion, RecordApplied, Verify, Finish
<1> SUFFICES ASSUME ~run'[p].stopped
             PROVE  /\ run'[p].at \in Working \cup {"verify", "finish"} =>
                          broken = {} /\ \A r \in Revisions \ run'[p].todo : ledger'[r] = "APPLIED"
                    /\ run'[p].at \in {"verify", "finish"} => run'[p].todo = {}
                    /\ run'[p].at = "finish" => ~drift'
  BY <1>1, <1>2 DEF RestIsDone, EndIsDone
<1>3. CASE Start(p) \/ EnsureLedger(p) \/ Finish(p) \/ Crash(p)
  BY <1>3 DEF Start, EnsureLedger, Finish, Crash, Goto, Block, Off, RunsTyped
<1>4. CASE Collect(p) \/ CollectUnread(p)
  <2>1. PICK known \in {{}, AppliedRevisions} : Collected(p, known) /\ ledger' = ledger
    BY <1>4 DEF Collect, CollectUnread
  <2>2. /\ run'[p].at = "backup" /\ run'[p].todo = (Revisions \ known) \ broken
        /\ run'[p].stopped = (run[p].stopped \/ broken # {} \/ (drift /\ ~policy.legacy))
    BY <2>1 DEF Collected, RunsTyped
  <2> QED
    BY <2>1, <2>2 DEF AppliedRevisions
<1>5. CASE Backup(p) \/ Baseline(p) \/ Upgrade(p) \/ UpgradeFails(p) \/ Undo(p) \/ WriteVersion(p)
  <2>1. /\ run[p].at \in Working /\ run'[p].at \in Working \cup {"finish"} /\ run'[p].todo = run[p].todo
        /\ ledger' = ledger /\ ~run[p].stopped
    BY <1>5 DEF Backup, Baseline, Upgrade, UpgradeFails, Undo, WriteVersion, Goto, Block, RunsTyped
  <2>2. run'[p].at # "finish"
    BY <1>5 DEF Backup, Baseline, Upgrade, UpgradeFails, Undo, WriteVersion, Goto, Block, RunsTyped
  <2> QED
    BY <2>1, <2>2 DEF RestIsDone
<1>6. CASE ApplyDone(p)
  <2>1. /\ run[p].at \in Working /\ run'[p].at = "verify" /\ run'[p].todo = run[p].todo
        /\ ledger' = ledger /\ ~run[p].stopped /\ run[p].todo = {}
    BY <1>6 DEF ApplyDone, Goto, RunsTyped
  <2> QED
    BY <2>1 DEF RestIsDone
<1>7. CASE RecordFailed(p)
  BY <1>7 DEF RecordFailed, Block, RunsTyped
<1>8. CASE RecordApplied(p)
  <2>1. /\ ledger' = [ledger EXCEPT ![Current(p)] = "APPLIED"] /\ ~run[p].stopped /\ run[p].at \in Working
        /\ run'[p].at = "apply" /\ run'[p].todo = run[p].todo \ {Current(p)}
    BY <1>8 DEF RecordApplied, Block, RunsTyped
  <2> QED
    BY <2>1 DEF RestIsDone, BaseTyped
<1>9. CASE Verify(p)
  <2>1. /\ run[p].at = "verify" /\ run'[p].at = "finish" /\ run'[p].todo = run[p].todo
        /\ ledger' = ledger /\ ~run[p].stopped /\ ~drift'
    BY <1>9 DEF Verify, Goto, Block, RunsTyped
  <2> QED
    BY <2>1 DEF RestIsDone, EndIsDone
<1> QED
  BY <1>3, <1>4, <1>5, <1>6, <1>7, <1>8, <1>9 DEF Proceed

LEMMA StepInv == ~Overlap /\ IInv /\ [Next]_vars => IInv'
  BY TypeStep, AloneStep, ExactStep, DoneStep DEF IInv

\* Whatever fails or dies between the three commits of a revision, and however often
\* the pipeline is restarted by whichever process: the ledger says what is in the
\* database, revisions stand on their predecessors, and READY means done.
THEOREM LedgerTrue == ASSUME ~Overlap PROVE Spec => []LedgerExact
<1>1. IInv => LedgerExact
  <2> SUFFICES ASSUME IInv PROVE LedgerExact
    OBVIOUS
  <2>1. Quiet => \A r \in Revisions : ~Unrecorded(r)
    BY DEF Quiet, Unrecorded
  <2>2. \A p \in Runs : run[p].at = "finish" /\ ~run[p].stopped =>
            (\A r \in Revisions : ledger[r] = "APPLIED") /\ ~drift
    BY DEF IInv, RestIsDone, EndIsDone
  <2> QED
    BY <2>1, <2>2 DEF LedgerExact, IInv, ExactNow, Ordered
<1>2. IInv /\ [Next]_vars => IInv'
  BY StepInv
<1> QED
  BY <1>1, <1>2, InitInv, PTL DEF Spec

---------------------------------------------------------------------------
(***************************************************************************)
(* What the drivers of delivered sales are owed.  A rent is kept twice:    *)
(* in a row for each driver, and whole under the name of the first.  The   *)
(* sums agree because the rows of a sale are those of its drivers, in      *)
(* their order (RowsMatch), and the old rents that still count are those   *)
(* of sales with a deleted row of the driver.  A payment stays on a row of *)
(* its driver because an edited sale gives its rows new ids only when no   *)
(* payment names them, and a request that has read such a row is marked    *)
(* crossed when the row goes (VisitsOnOwnRows).                            *)
(***************************************************************************)

Shares == [driver : Drivers, rent : Int]
RentRows == [sale : Nat, driver : Drivers, rent : Int, live : BOOLEAN]
PayLines == [on : Nat, sale : Nat, driver : Drivers, rent : Int]
Slips == [driver : Drivers, on : Nat, sale : Nat, sum : Int, from : Accounts \cup {Waived},
          live : BOOLEAN, form : Forms \cup {"none"}]
Sheets == [step : {"loaded", "read", "ready"}, page : {"driver", "accounts", "entry", "edit", "restore"},
           driver : Drivers, from : Accounts \cup {Waived}, sum : Int, form : Forms \cup {"none"},
           own : Nat, lines : Seq(PayLines), rows : Nat, first : Nat \ {0}, due : Int,
           stale : BOOLEAN, crossed : BOOLEAN]

\* Sales, rows, payments and requests are well formed, and the rows are of sales.
RentsTyped ==
    /\ owing \in [Drivers -> Int]
    /\ IsFiniteSet(DOMAIN share) /\ DOMAIN share \subseteq Nat /\ share = [s \in DOMAIN share |-> share[s]]
    /\ \A s \in DOMAIN share : share[s] \in Seq(Shares) /\ share[s] # <<>>
    /\ oldRent = [s \in DOMAIN share |-> [driver |-> share[s][1].driver, sum |-> Rents(share[s])]]
    /\ IsFiniteSet(DOMAIN row) /\ DOMAIN row \subseteq Nat \ {0} /\ row = [i \in DOMAIN row |-> row[i]]
    /\ \A i \in DOMAIN row : row[i] \in RentRows /\ row[i].sale \in DOMAIN share
PaymentsTyped == settled \in Seq(Slips)

\* What a request that is not edited or restored holds
SheetTyped(v) ==
    /\ v \in Sheets /\ v.rows <= Len(v.lines)
    /\ v.own # 0 <=> v.page \in {"edit", "restore"}
    /\ v.page = "entry" => Len(v.lines) = 1
    /\ v.page = "driver" => v.step # "loaded"
VisitsTyped ==
    /\ DOMAIN visit = Clerks
    /\ \A c \in Clerks : visit[c] = Away \/ (SheetTyped(visit[c]) /\ visit[c].own <= Len(settled))

\* The rows of a sale are numbered one after another in the order of its drivers
RowsOf(s) == {i \in DOMAIN row : row[i].sale = s}
Matches(s) ==
    \E t \in Nat :
        /\ RowsOf(s) = (t + 1)..(t + Len(share[s]))
        /\ \A k \in 1..Len(share[s]) :
              row[t + k].driver = share[s][k].driver /\ row[t + k].rent = share[s][k].rent
RowsMatch == \A s \in DOMAIN share : Matches(s)

OnOwnRow(on, d) == on # 0 => on \in DOMAIN row /\ row[on].driver = d
PaymentsOnOwnRows == "crossed" \in mishaps \/ \A n \in DOMAIN settled : OnOwnRow(settled[n].on, settled[n].driver)
Relying(v) == v.step # "away" /\ ~v.crossed /\ (v.step = "loaded" => v.page = "entry") /\ v.page \in {"driver", "accounts", "entry"}
VisitsOnOwnRows ==
    \A c \in Clerks : Relying(visit[c]) =>
        \A n \in DOMAIN visit[c].lines : OnOwnRow(visit[c].lines[n].on, visit[c].driver)

RentsInv ==
    /\ RentsTyped /\ PaymentsTyped /\ VisitsTyped
    /\ RowsMatch /\ PaymentsOnOwnRows /\ VisitsOnOwnRows

\* Lines that are ordered by sale and row, when any two of them differ in one.
LinesApart(L) ==
    \A k \in L : /\ k.sale \in Nat /\ k.on \in Nat
                 /\ \A l \in L : (k.sale = l.sale /\ k.on = l.on) => k = l

\* What InOrder lists are the elements of the set, as many as it has.
LEMMA InOrderListsAll ==
    ASSUME NEW L, IsFiniteSet(L), LinesApart(L)
    PROVE  InOrder(L) \in Seq(L) /\ Len(InOrder(L)) = Cardinality(L)
<1> DEFINE many == Cardinality(L)
           lt == {e \in L \X L : Before(e[1], e[2])}
<1>1. many \in Nat
  BY FS_CardinalityType
<1>2. \A l \in L : {k \in L : Before(k, l)} = {k \in L : <<k, l>> \in lt}
  OBVIOUS
<1>3. StrictOrder(L, lt)
  BY DEF StrictOrder, LinesApart, Before
<1>4. \A n \in 1..many : \E l \in L : Cardinality({k \in L : Before(k, l)}) = n - 1
  <2> HIDE DEF lt
  <2>1. HaveTurns(L, lt)
    BY <1>3, EachHasItsTurn
  <2> QED
    BY <1>2, <2>1 DEF HaveTurns, many
<1>5. InOrder(L) = [n \in 1..many |-> CHOOSE l \in L : Cardinality({k \in L : Before(k, l)}) = n - 1]
  BY DEF InOrder
<1> HIDE DEF many, lt
<1>6. InOrder(L) \in [1..many -> L]
  BY <1>4, <1>5
<1>7. InOrder(L) \in Seq(L)
  BY <1>1, <1>6
<1>8. Len(InOrder(L)) = many
  BY <1>1, <1>6, <1>7
<1> QED
  BY <1>7, <1>8 DEF many

\* Rows that follow one another for the drivers of a sale sum, for one driver, to his part.
FollowShares(rows, s, t, who) ==
    /\ {i \in DOMAIN rows : rows[i].sale = s} = (t + 1)..(t + Len(who))
    /\ \A k \in 1..Len(who) : rows[t + k].driver = who[k].driver /\ rows[t + k].rent = who[k].rent

LEMMA RowsOfSaleSum ==
    ASSUME NEW rows, IsFiniteSet(DOMAIN rows), NEW d, NEW s, NEW who \in Seq(Shares), NEW t \in Nat,
           FollowShares(rows, s, t, who),
           NEW f, \A i \in DOMAIN rows :
               f[i] = IF rows[i].sale = s THEN IF rows[i].driver = d THEN rows[i].rent ELSE 0 ELSE 0
    PROVE  /\ SumFunctionOnSet(f, DOMAIN rows) = PartOf(d, who)
           /\ PartOf(d, who) \in Int
<1> DEFINE K == 1..Len(who)
           h == [k \in K |-> IF who[k].driver = d THEN who[k].rent ELSE 0]
           g == [k \in K |-> t + k]
           R == {i \in DOMAIN rows : rows[i].sale = s}
           w == [i \in DOMAIN rows |-> IF rows[i].sale = s /\ rows[i].driver = d THEN rows[i].rent ELSE 0]
<1>1. Len(who) \in Nat /\ DOMAIN who = K /\ \A k \in K : who[k] \in Shares
  OBVIOUS
<1>2. \A k \in K : h[k] \in Int
  BY <1>1 DEF Shares
<1>3. R = {g[k] : k \in K}
  <2>1. R = (t + 1)..(t + Len(who))
    BY DEF FollowShares
  <2>2. ASSUME NEW i \in (t + 1)..(t + Len(who)) PROVE i \in {g[k] : k \in K}
    <3>1. i - t \in K /\ g[i - t] = i
      BY <1>1
    <3> QED
      BY <3>1
  <2>3. \A k \in K : g[k] \in (t + 1)..(t + Len(who))
    BY <1>1
  <2> HIDE DEF g, R, K
  <2> QED
    BY <2>1, <2>2, <2>3
<1>4. \A k \in K : g[k] \in R /\ f[g[k]] = h[k]
  <2> TAKE k \in K
  <2>1. g[k] \in R
    BY <1>3
  <2>2. rows[t + k].driver = who[k].driver /\ rows[t + k].rent = who[k].rent
    BY DEF FollowShares
  <2> QED
    BY <2>1, <2>2
<1>5. IsFiniteSet(K) /\ R \in SUBSET DOMAIN rows
  BY <1>1, FS_Interval
<1>6. SumFunctionOnSet(f, {g[k] : k \in K}) = SumFunctionOnSet(h, K)
  <2>1. \A x, y \in K : g[x] = g[y] => x = y
    BY <1>1
  <2>2. \A x \in K : h[x] \in Int /\ f[g[x]] = h[x]
    BY <1>2, <1>4
  <2> HIDE DEF g, h, K
  <2> QED
    BY <1>5, <2>1, <2>2, SumRenamed
<1>7. \A i \in DOMAIN rows : f[i] \in Int /\ f[i] = IF i \in R THEN f[i] ELSE 0
  <2> TAKE i \in DOMAIN rows
  <2>1. CASE i \in R
    <3>1. PICK k \in K : i = g[k]
      BY <1>3, <2>1
    <3> QED
      BY <1>2, <1>4, <2>1, <3>1
  <2>2. CASE i \notin R
    BY <2>2
  <2> QED
    BY <2>1, <2>2
<1>8. SumFunctionOnSet(f, R) = SumFunctionOnSet(f, DOMAIN rows)
  <2> HIDE DEF R
  <2> QED
    BY <1>5, <1>7, SumPart
<1>9. PartOf(d, who) = SumFunctionOnSet(h, K)
  BY <1>1 DEF PartOf, SumFunction
<1>10. SumFunctionOnSet(h, K) \in Int
  <2> HIDE DEF h, K
  <2> QED
    BY <1>2, <1>5, SumType
<1> HIDE DEF R, h, K
<1> QED
  BY <1>3, <1>6, <1>8, <1>9, <1>10

\* A sum with one entry that counts is that entry.
LEMMA SumOfOne ==
    ASSUME NEW S, IsFiniteSet(S), NEW e \in S, NEW x \in Int,
           NEW f, \A z \in S : f[z] = IF z = e THEN x ELSE 0
    PROVE  SumFunctionOnSet(f, S) = x
<1>1. SumFunctionOnSet(f, S) = f[e] + SumFunctionOnSet(f, S \ {e})
  BY SumRemove
<1>2. IsFiniteSet(S \ {e})
  BY FS_Difference, FS_Singleton
<1>3. SumFunctionOnSet(f, S \ {e}) = 0
  <2>1. \A z \in S \ {e} : f[z] = 0
    OBVIOUS
  <2> QED
    BY <1>2, <2>1, SumZero
<1> QED
  BY <1>1, <1>3

\* The rents of a driver's rows are, together, his parts of the sales the rows are of.
LEMMA RowsAreParts ==
    ASSUME NEW rows, IsFiniteSet(DOMAIN rows), NEW parts, IsFiniteSet(DOMAIN parts), NEW d,
           \A i \in DOMAIN rows : rows[i] \in RentRows /\ rows[i].sale \in DOMAIN parts,
           \A s \in DOMAIN parts : /\ parts[s] \in Seq(Shares)
                                   /\ \E t \in Nat : FollowShares(rows, s, t, parts[s])
    PROVE  /\ SumFunctionOnSet([i \in DOMAIN rows |-> rows[i].rent], {i \in DOMAIN rows : rows[i].driver = d})
                  = SumFunction([s \in DOMAIN parts |-> PartOf(d, parts[s])])
           /\ SumFunction([s \in DOMAIN parts |-> PartOf(d, parts[s])]) \in Int
<1> DEFINE R == DOMAIN rows
           C == DOMAIN parts
           worth == [i \in R |-> IF rows[i].driver = d THEN rows[i].rent ELSE 0]
           part == [s \in C |-> PartOf(d, parts[s])]
           table == [p \in R \X C |-> IF rows[p[1]].sale = p[2] THEN worth[p[1]] ELSE 0]
           column == [s \in C |-> [i \in R |-> table[<<i, s>>]]]
           line == [i \in R |-> [s \in C |-> table[<<i, s>>]]]
<1>1. \A i \in R : rows[i].rent \in Int /\ worth[i] \in Int /\ rows[i].sale \in C
  BY DEF RentRows
<1>2. \A i \in R, s \in C :
        /\ table[<<i, s>>] = IF rows[i].sale = s THEN worth[i] ELSE 0
        /\ table[<<i, s>>] \in Int
  <2> TAKE i \in R, s \in C
  <2>1. table[<<i, s>>] = IF rows[i].sale = s THEN worth[i] ELSE 0
    <3> HIDE DEF worth
    <3> QED
      OBVIOUS
  <2> HIDE DEF table, worth
  <2> QED
    BY <1>1, <2>1
<1>3. \A s \in C : part[s] = SumFunctionOnSet(column[s], R) /\ part[s] \in Int
  <2> TAKE s \in C
  <2>1. PICK t \in Nat : FollowShares(rows, s, t, parts[s])
    OBVIOUS
  <2>2. parts[s] \in Seq(Shares)
    OBVIOUS
  <2>3. \A i \in DOMAIN rows :
          column[s][i] = IF rows[i].sale = s THEN IF rows[i].driver = d THEN rows[i].rent ELSE 0 ELSE 0
    <3> TAKE i \in DOMAIN rows
    <3>1. column[s][i] = table[<<i, s>>]
      <4> HIDE DEF table
      <4> QED
        OBVIOUS
    <3>2. worth[i] = IF rows[i].driver = d THEN rows[i].rent ELSE 0
      OBVIOUS
    <3> HIDE DEF table, worth, column
    <3> QED
      BY <1>2, <3>1, <3>2
  <2>4. part[s] = PartOf(d, parts[s])
    OBVIOUS
  <2> HIDE DEF column, part
  <2>5. SumFunctionOnSet(column[s], DOMAIN rows) = PartOf(d, parts[s]) /\ PartOf(d, parts[s]) \in Int
    <3>1. PICK who, f : who = parts[s] /\ f = column[s]
      OBVIOUS
    <3>2. /\ who \in Seq(Shares) /\ FollowShares(rows, s, t, who)
          /\ \A i \in DOMAIN rows :
                f[i] = IF rows[i].sale = s THEN IF rows[i].driver = d THEN rows[i].rent ELSE 0 ELSE 0
      BY <2>1, <2>2, <2>3, <3>1
    <3>3. IsFiniteSet(DOMAIN rows) /\ t \in Nat
      BY <2>1
    <3>4. SumFunctionOnSet(f, DOMAIN rows) = PartOf(d, who) /\ PartOf(d, who) \in Int
      BY ONLY <3>2, <3>3, RowsOfSaleSum
    <3> QED
      BY <3>1, <3>4
  <2> QED
    BY <2>4, <2>5
<1>4. \A i \in R : worth[i] = SumFunctionOnSet(line[i], C)
  <2> TAKE i \in R
  <2>1. \A s \in C : line[i][s] = IF s = rows[i].sale THEN worth[i] ELSE 0
    <3> TAKE s \in C
    <3>1. line[i][s] = table[<<i, s>>]
      <4> HIDE DEF table
      <4> QED
        OBVIOUS
    <3> HIDE DEF table, worth, line
    <3> QED
      BY <1>2, <3>1
  <2> HIDE DEF line, worth
  <2> QED
    BY <1>1, <2>1, SumOfOne
<1>5. TableColumns(table, R, C, part, column)
  <2>1. \A s \in C : \A i \in R : column[s][i] = table[<<i, s>>]
    <3> HIDE DEF table
    <3> QED
      OBVIOUS
  <2> HIDE DEF table, column, part
  <2> QED
    BY <1>2, <1>3, <2>1 DEF TableColumns
<1>6. TableRows(table, R, C, worth, line)
  <2>1. \A i \in R : \A s \in C : line[i][s] = table[<<i, s>>]
    <3> HIDE DEF table
    <3> QED
      OBVIOUS
  <2> HIDE DEF table, line, worth
  <2> QED
    BY <1>2, <1>4, <2>1 DEF TableRows
<1>7. SumFunctionOnSet(worth, R) = SumFunctionOnSet(part, C)
  <2> HIDE DEF table, line, worth, column, part
  <2>1. IsFiniteSet(R) /\ IsFiniteSet(C)
    OBVIOUS
  <2> HIDE DEF R, C
  <2>2. SumFunctionOnSet(table, R \X C) = SumFunctionOnSet(part, C)
    BY ONLY <1>5, <2>1, SumColumns
  <2>3. SumFunctionOnSet(table, R \X C) = SumFunctionOnSet(worth, R)
    BY ONLY <1>6, <2>1, SumRows
  <2> QED
    BY <2>2, <2>3
<1>8. SumFunctionOnSet([i \in DOMAIN rows |-> rows[i].rent], {i \in DOMAIN rows : rows[i].driver = d})
        = SumFunctionOnSet(worth, R)
  <2> DEFINE rent == [i \in DOMAIN rows |-> rows[i].rent]
             mine == {i \in DOMAIN rows : rows[i].driver = d}
  <2>1. \A i \in R : rent[i] \in Int /\ worth[i] = IF i \in mine THEN rent[i] ELSE 0
    BY <1>1
  <2>2. mine \in SUBSET R
    OBVIOUS
  <2> HIDE DEF rent, mine, worth
  <2>3. SumFunctionOnSet(rent, mine) = SumFunctionOnSet(worth, R)
    BY <2>1, <2>2, SumPart
  <2> QED
    BY <2>3 DEF rent, mine
<1>9. SumFunction(part) = SumFunctionOnSet(part, C)
  BY DEF SumFunction
<1>10. SumFunctionOnSet(part, C) \in Int
  <2> HIDE DEF part
  <2> QED
    BY <1>3, SumType
<1> HIDE DEF worth
<1>11. SumFunction(part) = SumFunctionOnSet(worth, R)
  BY <1>7, <1>9
<1> QED
  BY <1>8, <1>9, <1>10, <1>11

\* In such a state, what a driver is owed is what he earned.
LEMMA RowsGiveWhatIsOwed ==
    ASSUME RentsTyped, PaymentsTyped, RowsMatch, PaymentsOnOwnRows
    PROVE  OwedIsEarned
<1> USE DEF RentsTyped
<1>1. SUFFICES ASSUME "crossed" \notin mishaps, NEW d \in Drivers
               PROVE  /\ \A n \in DOMAIN settled : settled[n].driver = d /\ settled[n].on # 0
                             => settled[n].on \in DOMAIN row /\ row[settled[n].on].driver = d
                      /\ (\A i \in DOMAIN row : row[i].driver = d => row[i].live) =>
                            Owed(d, 0) = owing[d]
                              + SumFunction([s \in DOMAIN share |-> PartOf(d, share[s])])
                              - SumFunctionOnSet([n \in DOMAIN settled |-> settled[n].sum],
                                    {n \in DOMAIN settled : settled[n].driver = d /\ settled[n].live})
  BY DEF OwedIsEarned
<1>2. \A n \in DOMAIN settled : settled[n].driver = d /\ settled[n].on # 0
          => settled[n].on \in DOMAIN row /\ row[settled[n].on].driver = d
  BY <1>1 DEF PaymentsOnOwnRows, OnOwnRow
<1>3. SUFFICES ASSUME \A i \in DOMAIN row : row[i].driver = d => row[i].live
               PROVE  Owed(d, 0) = owing[d]
                        + SumFunction([s \in DOMAIN share |-> PartOf(d, share[s])])
                        - SumFunctionOnSet([n \in DOMAIN settled |-> settled[n].sum],
                              {n \in DOMAIN settled : settled[n].driver = d /\ settled[n].live})
  BY <1>2
<1>4. LiveRows(d) = {i \in DOMAIN row : row[i].driver = d}
  BY <1>3 DEF LiveRows
<1>5. Uncovered(d) = {}
  <2>1. SUFFICES ASSUME NEW s \in DOMAIN oldRent, oldRent[s].driver = d
                 PROVE  \E i \in LiveRows(d) : row[i].sale = s
    BY DEF Uncovered
  <2>2. s \in DOMAIN share /\ share[s][1].driver = d
    BY <2>1
  <2>3. share[s] \in Seq(Shares) /\ Len(share[s]) >= 1
    BY <2>2
  <2>4. PICK t \in Nat : /\ RowsOf(s) = (t + 1)..(t + Len(share[s]))
                         /\ \A k \in 1..Len(share[s]) : row[t + k].driver = share[s][k].driver
    BY <2>2 DEF RowsMatch, Matches
  <2>5. t + 1 \in RowsOf(s) /\ row[t + 1].driver = d
    BY <2>2, <2>3, <2>4
  <2> QED
    BY <1>4, <2>5 DEF RowsOf
<1>6. SumFunctionOnSet([s \in DOMAIN oldRent |-> oldRent[s].sum], Uncovered(d)) = 0
  BY <1>5, FS_EmptySet, SumZero
<1>7. SumFunctionOnSet([i \in DOMAIN row |-> row[i].rent], LiveRows(d))
          = SumFunction([s \in DOMAIN share |-> PartOf(d, share[s])])
      /\ SumFunction([s \in DOMAIN share |-> PartOf(d, share[s])]) \in Int
  <2>1. PICK rows, parts : rows = row /\ parts = share
    OBVIOUS
  <2>2. /\ IsFiniteSet(DOMAIN rows) /\ IsFiniteSet(DOMAIN parts)
        /\ \A i \in DOMAIN rows : rows[i] \in RentRows /\ rows[i].sale \in DOMAIN parts
    BY <2>1
  <2>3. \A s \in DOMAIN parts : /\ parts[s] \in Seq(Shares)
                                /\ \E t \in Nat : FollowShares(rows, s, t, parts[s])
    <3>1. TAKE s \in DOMAIN parts
    <3>2. s \in DOMAIN share /\ parts[s] \in Seq(Shares)
      BY <2>1
    <3>3. PICK t \in Nat :
             /\ RowsOf(s) = (t + 1)..(t + Len(share[s]))
             /\ \A k \in 1..Len(share[s]) :
                   row[t + k].driver = share[s][k].driver /\ row[t + k].rent = share[s][k].rent
      BY <3>2 DEF RowsMatch, Matches
    <3>4. FollowShares(rows, s, t, parts[s])
      BY <2>1, <3>3 DEF RowsOf, FollowShares
    <3> QED
      BY <3>2, <3>4
  <2>4. /\ SumFunctionOnSet([i \in DOMAIN rows |-> rows[i].rent], {i \in DOMAIN rows : rows[i].driver = d})
               = SumFunction([s \in DOMAIN parts |-> PartOf(d, parts[s])])
        /\ SumFunction([s \in DOMAIN parts |-> PartOf(d, parts[s])]) \in Int
    BY ONLY <2>2, <2>3, RowsAreParts
  <2> QED
    BY <1>4, <2>1, <2>4
<1>8. {n \in DOMAIN settled \ {0} : settled[n].driver = d /\ InForce(settled[n])}
        = {n \in DOMAIN settled : settled[n].driver = d /\ settled[n].live}
  <2>0. 0 \notin DOMAIN settled
    BY ElementOfSeq DEF PaymentsTyped
  <2>1. ASSUME NEW n \in DOMAIN settled, settled[n].driver = d, settled[n].live PROVE InForce(settled[n])
    <3>1. settled[n].on \in DOMAIN row => settled[n].on # 0
      OBVIOUS
    <3>2. settled[n].on \in DOMAIN row => row[settled[n].on].live
      BY <1>2, <1>3, <2>1, <3>1
    <3> QED
      BY <2>1, <3>2 DEF InForce
  <2> QED
    BY <2>0, <2>1 DEF InForce
<1> DEFINE x == SumFunction([s \in DOMAIN share |-> PartOf(d, share[s])])
           y == SumFunctionOnSet([n \in DOMAIN settled |-> settled[n].sum],
                    {n \in DOMAIN settled : settled[n].driver = d /\ settled[n].live})
<1>9. Owed(d, 0) = owing[d] + x + 0 - y
  BY <1>6, <1>7, <1>8 DEF Owed
<1>10. x \in Int /\ owing[d] \in Int
  BY <1>7
<1>11. y \in Int
  <2> DEFINE f == [n \in DOMAIN settled |-> settled[n].sum]
             S == {n \in DOMAIN settled : settled[n].driver = d /\ settled[n].live}
  <2>1. IsFiniteSet(S) /\ \A n \in S : f[n] \in Int
    <3>1. DOMAIN settled = 1..Len(settled) /\ Len(settled) \in Nat
      BY DEF PaymentsTyped
    <3>2. \A n \in DOMAIN settled : settled[n] \in Slips
      BY DEF PaymentsTyped
    <3>3. IsFiniteSet(S)
      <4>0. S \subseteq DOMAIN settled
        OBVIOUS
      <4> HIDE DEF S
      <4>1. IsFiniteSet(1..Len(settled))
        BY ONLY <3>1, FS_Interval
      <4> QED
        BY <3>1, <4>0, <4>1, FS_Subset
    <3> QED
      BY <3>2, <3>3 DEF Slips
  <2> HIDE DEF f, S
  <2>2. SumFunctionOnSet(f, S) \in Int
    BY <2>1, SumType
  <2> QED
    BY <2>2 DEF f, S
<1> HIDE DEF x, y
<1>12. Owed(d, 0) = owing[d] + x - y
  BY <1>9, <1>10, <1>11
<1> QED
  BY <1>12 DEF x, y

\* Every rent and every payment is a number, and so is what sums of them make.
LEMMA RentsAreNumbers ==
    ASSUME NEW who \in Seq(Shares)
    PROVE  Rents(who) \in Int
<1>1. DOMAIN who = 1..Len(who) /\ Len(who) \in Nat /\ \A n \in DOMAIN who : who[n].rent \in Int
  <2>1. \A n \in DOMAIN who : who[n] \in Shares
    OBVIOUS
  <2> QED
    BY <2>1 DEF Shares
<1> DEFINE f == [n \in DOMAIN who |-> who[n].rent]
<1>2. IsFiniteSet(DOMAIN who) /\ \A n \in DOMAIN who : f[n] \in Int
  BY <1>1, FS_Interval
<1>3. Rents(who) = SumFunctionOnSet(f, DOMAIN who)
  BY DEF Rents, SumFunction
<1> HIDE DEF f
<1> QED
  BY <1>2, <1>3, SumType

\* What is due on a line is a number.
LEMMA DueIsNumber ==
    ASSUME NEW line, line.rent \in Int, NEW ps \in Seq(Slips), NEW own
    PROVE  Due(line, ps, own) \in Int
<1> DEFINE f == [n \in DOMAIN ps |-> ps[n].sum]
           S == {n \in DOMAIN ps \ {own} :
                    /\ ps[n].live /\ ps[n].on = line.on
                    /\ line.on = 0 => ps[n].driver = line.driver /\ ps[n].sale = line.sale}
<1>1. IsFiniteSet(DOMAIN ps) /\ \A n \in DOMAIN ps : f[n] \in Int
  <2>1. DOMAIN ps = 1..Len(ps) /\ Len(ps) \in Nat /\ \A n \in DOMAIN ps : ps[n] \in Slips
    OBVIOUS
  <2>2. \A n \in DOMAIN ps : ps[n].sum \in Int
    BY <2>1 DEF Slips
  <2> QED
    BY <2>1, <2>2, FS_Interval
<1>2. IsFiniteSet(S) /\ S \subseteq DOMAIN ps
  BY <1>1, FS_Subset
<1>3. Due(line, ps, own) = line.rent - SumFunctionOnSet(f, S)
  BY DEF Due
<1> HIDE DEF f, S
<1>4. SumFunctionOnSet(f, S) \in Int
  BY <1>1, <1>2, SumType
<1> QED
  BY <1>3, <1>4

\* The payable rows are rows of the driver ...
LEMMA RowLinesAreRows ==
    ASSUME RentsTyped, NEW d
    PROVE  /\ RowLines(d) \in Seq(PayLines)
           /\ \A n \in DOMAIN RowLines(d) : RowLines(d)[n].on \in LiveRows(d)
<1> DEFINE L == {RowLine(i) : i \in LiveRows(d)}
<1>1. IsFiniteSet(LiveRows(d)) /\ LiveRows(d) \subseteq DOMAIN row
  BY FS_Subset DEF LiveRows, RentsTyped
<1>2. IsFiniteSet(L)
  <2> DEFINE f == [i \in LiveRows(d) |-> RowLine(i)]
  <2>1. f \in Surjection(LiveRows(d), L)
    BY DEF Surjection
  <2> HIDE DEF L, f
  <2> QED
    BY <1>1, <2>1, FS_Surjection
<1>3. \A l \in L : l \in PayLines /\ l.on \in LiveRows(d)
  BY <1>1 DEF RowLine, PayLines, RentsTyped, RentRows
<1>4. LinesApart(L)
  BY <1>3 DEF LinesApart, RowLine, PayLines
<1>5. RowLines(d) = InOrder(L)
  BY DEF RowLines
<1> HIDE DEF L
<1>6. RowLines(d) \in Seq(L)
  BY <1>2, <1>4, <1>5, InOrderListsAll
<1>7. \A n \in DOMAIN RowLines(d) : RowLines(d)[n] \in L
  BY <1>6
<1> QED
  BY <1>3, <1>6, <1>7

\* ... and the old rents name none.
LEMMA OldLinesNameNone ==
    ASSUME RentsTyped, NEW d \in Drivers, NEW lines
    PROVE  /\ OldLines(d, lines) \in Seq(PayLines)
           /\ \A n \in DOMAIN OldLines(d, lines) : OldLines(d, lines)[n].on = 0
<1> DEFINE S == {t \in DOMAIN oldRent : /\ oldRent[t].driver = d
                                        /\ \A n \in DOMAIN lines : lines[n].sale # t}
           line(s) == [on |-> 0, sale |-> s, driver |-> d, rent |-> oldRent[s].sum]
           L == {line(s) : s \in S}
<1>1. IsFiniteSet(S) /\ S \subseteq DOMAIN share
  <2>1. DOMAIN oldRent = DOMAIN share
    BY DEF RentsTyped
  <2> QED
    BY <2>1, FS_Subset DEF RentsTyped
<1>2. \A s \in S : s \in Nat /\ oldRent[s].sum \in Int
  BY <1>1, RentsAreNumbers DEF RentsTyped
<1>3. IsFiniteSet(L)
  <2> DEFINE f == [s \in S |-> line(s)]
  <2>1. f \in Surjection(S, L)
    <3> HIDE DEF S
    <3> QED
      BY DEF Surjection
  <2> HIDE DEF L, f, S
  <2> QED
    BY <1>1, <2>1, FS_Surjection
<1>4. \A l \in L : l \in PayLines /\ l.on = 0
  <2> HIDE DEF S
  <2> QED
    BY <1>2 DEF PayLines
<1>5. LinesApart(L)
  <2> HIDE DEF S
  <2> QED
    BY <1>2 DEF LinesApart
<1>6. OldLines(d, lines) = InOrder(L)
  BY DEF OldLines
<1> HIDE DEF L
<1>7. OldLines(d, lines) \in Seq(L)
  BY <1>3, <1>5, <1>6, InOrderListsAll
<1>8. \A n \in DOMAIN OldLines(d, lines) : OldLines(d, lines)[n] \in L
  BY <1>7
<1> QED
  BY <1>4, <1>7, <1>8
\* Lines that name rows of the driver, or none
LinesSound(lines, d) == \A n \in DOMAIN lines : OnOwnRow(lines[n].on, d)

\* What a request lists is in type and names rows of its driver.
LEMMA ListedIsSound ==
    ASSUME RentsTyped, PaymentsTyped, NEW v \in Sheets, v.page \in {"driver", "accounts"}, v.own = 0,
           NEW st \in {"read", "ready"}
    PROVE  LET w == [Listed(v) EXCEPT !.step = st] IN
           /\ SheetTyped(w) /\ w.step = st /\ w.crossed = v.crossed /\ w.page = v.page
           /\ w.driver = v.driver /\ w.own = 0
           /\ LinesSound(w.lines, w.driver)
<1> DEFINE rows == RowLines(v.driver)
           old == OldLines(v.driver, rows)
           lines == rows \o old
           open == {n \in DOMAIN lines : Due(lines[n], settled, 0) > 0}
           first == IF open = {} THEN Len(lines) + 1 ELSE Min(open)
           due == IF open = {} THEN 0 ELSE Due(lines[first], settled, 0)
<1>1. v.driver \in Drivers
  BY DEF Sheets
<1>2. /\ rows \in Seq(PayLines) /\ old \in Seq(PayLines)
      /\ \A n \in DOMAIN rows : rows[n].on \in LiveRows(v.driver)
      /\ \A n \in DOMAIN old : old[n].on = 0
  BY <1>1, RowLinesAreRows, OldLinesNameNone
<1> HIDE DEF rows, old
<1>3. /\ lines \in Seq(PayLines) /\ DOMAIN lines = 1..Len(lines)
      /\ Len(rows) \in Nat /\ Len(old) \in Nat /\ Len(lines) = Len(rows) + Len(old)
      /\ \A n \in DOMAIN lines : lines[n] = IF n <= Len(rows) THEN rows[n] ELSE old[n - Len(rows)]
  BY <1>2
<1>4. LinesSound(lines, v.driver)
  <2>1. SUFFICES ASSUME NEW n \in DOMAIN lines, lines[n].on # 0
                 PROVE  lines[n].on \in DOMAIN row /\ row[lines[n].on].driver = v.driver
    BY DEF LinesSound, OnOwnRow
  <2>2. CASE n <= Len(rows)
    <3>1. n \in DOMAIN rows /\ lines[n] = rows[n]
      BY <1>2, <1>3, <2>2
    <3> QED
      BY <1>2, <3>1 DEF LiveRows
  <2>3. CASE ~(n <= Len(rows))
    <3>1. n - Len(rows) \in DOMAIN old /\ lines[n] = old[n - Len(rows)]
      BY <1>2, <1>3, <2>3
    <3> QED
      BY <1>2, <2>1, <3>1
  <2> QED
    BY <2>2, <2>3
<1> HIDE DEF lines
<1>5. \A n \in DOMAIN lines : lines[n] \in PayLines /\ Due(lines[n], settled, 0) \in Int
  <2> TAKE n \in DOMAIN lines
  <2>0. lines[n] \in PayLines
    BY <1>3
  <2>1. lines[n] \in PayLines /\ lines[n].rent \in Int
    BY <2>0 DEF PayLines
  <2> QED
    BY <2>1, DueIsNumber DEF PaymentsTyped
<1>6. open # {} => first \in open
  <2>1. open \subseteq DOMAIN lines
    OBVIOUS
  <2>2. IsFiniteSet(open) /\ open \in SUBSET Nat
    <3> HIDE DEF open
    <3>1. Len(lines) \in Nat
      BY <1>3
    <3>2. IsFiniteSet(1..Len(lines)) /\ 1..Len(lines) \subseteq Nat
      BY <3>1, FS_Interval
    <3> QED
      BY <1>3, <2>1, <3>2, FS_Subset
  <2> HIDE DEF open
  <2> QED
    BY <2>2, GreatestAndLeast
<1>7. first \in Nat \ {0} /\ due \in Int
  <2>1. CASE open = {}
    BY <1>3, <2>1
  <2>2. CASE open # {}
    <3>1. first \in DOMAIN lines
      BY <1>6, <2>2
    <3> HIDE DEF open
    <3>2. first \in Nat \ {0}
      BY <1>3, <3>1
    <3>3. due = Due(lines[first], settled, 0)
      BY <2>2
    <3> QED
      BY <1>5, <3>1, <3>2, <3>3
  <2> QED
    BY <2>1, <2>2
<1>8. Listed(v) = [v EXCEPT !.lines = lines, !.rows = Len(rows), !.first = first, !.due = due]
  BY DEF Listed, rows, old, lines
<1> HIDE DEF open, first, due
<1> DEFINE w == [Listed(v) EXCEPT !.step = st]
<1>9. w = [v EXCEPT !.step = st, !.lines = lines, !.rows = Len(rows), !.first = first, !.due = due]
  BY <1>8 DEF Sheets
<1>10. w \in Sheets
  <2>1. PICK l, r, f, b : l = lines /\ r = Len(rows) /\ f = first /\ b = due
    OBVIOUS
  <2>2. l \in Seq(PayLines) /\ r \in Nat /\ f \in Nat \ {0} /\ b \in Int
    BY <1>3, <1>7, <2>1
  <2>3. w = [v EXCEPT !.step = st, !.lines = l, !.rows = r, !.first = f, !.due = b]
    BY <1>9, <2>1
  <2> HIDE DEF w
  <2> QED
    BY <2>2, <2>3 DEF Sheets
<1>11. /\ w.step = st /\ w.crossed = v.crossed /\ w.page = v.page /\ w.driver = v.driver /\ w.own = v.own
       /\ w.lines = lines /\ w.rows = Len(rows)
  BY <1>9 DEF Sheets
<1> HIDE DEF w
<1>12. SheetTyped(w)
  BY <1>3, <1>10, <1>11 DEF SheetTyped
<1> QED
  BY <1>4, <1>11, <1>12 DEF w

\* A payment is put on a row of its driver, or on none.
LEMMA SlipIsSound ==
    ASSUME RentsTyped, NEW v \in Sheets, NEW ps \in Seq(Slips), NEW line,
           line.on \in Nat, line.sale \in Nat, NEW sum \in Int
    PROVE  /\ Slip(v, ps, line, sum) \in Slips
           /\ Slip(v, ps, line, sum).driver = v.driver
           /\ OnOwnRow(line.on, v.driver) => OnOwnRow(Slip(v, ps, line, sum).on, v.driver)
<1> DEFINE rows == RowLines(v.driver)
           open == {n \in DOMAIN rows : Due(rows[n], ps, 0) > 0}
           picked == Picked(v.driver, ps)
           pick == IF line.on = 0 THEN picked ELSE line
<1>1. /\ rows \in Seq(PayLines) /\ DOMAIN rows = 1..Len(rows) /\ Len(rows) \in Nat
      /\ \A n \in DOMAIN rows : rows[n].on \in LiveRows(v.driver)
  BY RowLinesAreRows
<1>2. picked = IF open = {} THEN [on |-> 0, sale |-> 0] ELSE rows[Min(open)]
  BY DEF Picked
<1> HIDE DEF rows, picked
<1>3. open # {} => Min(open) \in DOMAIN rows
  <2>1. open \subseteq DOMAIN rows
    OBVIOUS
  <2>2. IsFiniteSet(open) /\ open \in SUBSET Nat
    <3> HIDE DEF open
    <3>1. IsFiniteSet(1..Len(rows)) /\ 1..Len(rows) \subseteq Nat
      BY <1>1, FS_Interval
    <3> QED
      BY <1>1, <2>1, <3>1, FS_Subset
  <2>3. open # {} => Min(open) \in open
    <3> HIDE DEF open
    <3> QED
      BY <2>2, GreatestAndLeast
  <2> QED
    BY <2>3
<1> HIDE DEF open
<1>4. picked.on \in Nat /\ picked.sale \in Nat /\ OnOwnRow(picked.on, v.driver)
  <2>1. CASE open = {}
    BY <1>2, <2>1 DEF OnOwnRow
  <2>2. CASE open # {}
    <3>1. picked = rows[Min(open)] /\ Min(open) \in DOMAIN rows
      BY <1>2, <1>3, <2>2
    <3>2. picked \in PayLines /\ picked.on \in LiveRows(v.driver)
      BY <1>1, <3>1
    <3> QED
      BY <3>2 DEF PayLines, LiveRows, OnOwnRow
  <2> QED
    BY <2>1, <2>2
<1>5. pick.on \in Nat /\ pick.sale \in Nat /\ (OnOwnRow(line.on, v.driver) => OnOwnRow(pick.on, v.driver))
  BY <1>4
<1>6. Slip(v, ps, line, sum) =
        [driver |-> v.driver, on |-> pick.on, sale |-> IF pick.on = 0 THEN line.sale ELSE pick.sale,
         sum |-> sum, from |-> v.from, live |-> TRUE, form |-> v.form]
  BY DEF Slip, picked
<1> HIDE DEF pick
<1>7. v.driver \in Drivers /\ v.from \in Accounts \cup {Waived} /\ v.form \in Forms \cup {"none"}
  BY DEF Sheets
<1> QED
  BY <1>5, <1>6, <1>7 DEF Slips
\* Payments that are there already, or that the request adds
Added(ps, d, sound) ==
    /\ ps \in Seq(Slips) /\ Len(ps) >= Len(settled)
    /\ \A n \in DOMAIN ps : \/ \E m \in DOMAIN settled : ps[n] = settled[m]
                            \/ ps[n].driver = d /\ (sound => OnOwnRow(ps[n].on, d))

LEMMA AddedAppend ==
    ASSUME RentsTyped, NEW v \in Sheets, NEW sound, NEW ps, Added(ps, v.driver, sound), NEW line,
           line.on \in Nat, line.sale \in Nat, sound => OnOwnRow(line.on, v.driver), NEW sum \in Int
    PROVE  Added(Append(ps, Slip(v, ps, line, sum)), v.driver, sound)
<1>1. ps \in Seq(Slips)
  BY DEF Added
<1>2. PICK slip : slip = Slip(v, ps, line, sum)
  OBVIOUS
<1>3. slip \in Slips /\ slip.driver = v.driver /\ (sound => OnOwnRow(slip.on, v.driver))
  BY <1>1, <1>2, SlipIsSound
<1>4. /\ Append(ps, slip) \in Seq(Slips) /\ Len(Append(ps, slip)) = Len(ps) + 1
      /\ DOMAIN Append(ps, slip) = 1..(Len(ps) + 1)
      /\ \A n \in DOMAIN Append(ps, slip) : Append(ps, slip)[n] = IF n \in DOMAIN ps THEN ps[n] ELSE slip
  BY <1>1, <1>3
<1>5. Len(Append(ps, slip)) >= Len(settled)
  <2>1. Len(ps) \in Nat /\ Len(ps) >= Len(settled)
    BY <1>1 DEF Added
  <2> QED
    BY <1>4, <2>1
<1>6. \A n \in DOMAIN Append(ps, slip) :
          \/ \E m \in DOMAIN settled : Append(ps, slip)[n] = settled[m]
          \/ /\ Append(ps, slip)[n].driver = v.driver
             /\ sound => OnOwnRow(Append(ps, slip)[n].on, v.driver)
  <2> TAKE n \in DOMAIN Append(ps, slip)
  <2>1. CASE n \in DOMAIN ps
    <3>1. Append(ps, slip)[n] = ps[n]
      BY <1>4, <2>1
    <3> QED
      BY <2>1, <3>1 DEF Added
  <2>2. CASE n \notin DOMAIN ps
    <3>1. Append(ps, slip)[n] = slip
      BY <1>4, <2>2
    <3> QED
      BY <1>3, <3>1
  <2> QED
    BY <2>1, <2>2
<1> QED
  BY <1>2, <1>4, <1>5, <1>6 DEF Added

PaidInTurn(f, v, lines, many) ==
    f = [n \in 0..many |-> IF n = 0 THEN [ps |-> settled, left |-> v.sum]
                        ELSE Paying(v, lines, f[n - 1], n)]

\* The lines are paid one after another.
LEMMA PaidLineByLine ==
    ASSUME NEW v, NEW lines, NEW many \in Nat
    PROVE  \E f : PaidInTurn(f, v, lines, many)
<1> USE DEF PaidInTurn
<1> DEFINE Stage(f, n) == IF n = 0 THEN [ps |-> settled, left |-> v.sum] ELSE Paying(v, lines, f[n - 1], n)
           Missing == {k \in Nat : ~ \E f : f = [n \in 0..k |-> Stage(f, n)]}
<1>1. SUFFICES ASSUME Missing # {} PROVE FALSE
  OBVIOUS
<1>2. PICK k \in Missing : \A m \in Missing : k <= m
  <2>1. Missing \in SUBSET Nat
    OBVIOUS
  <2> HIDE DEF Missing
  <2> QED
    BY <1>1, <2>1, LeastNumber
<1>3. k \in Nat /\ ~ \E f : f = [n \in 0..k |-> Stage(f, n)]
  OBVIOUS
<1>4. CASE k = 0
  <2> DEFINE f == [n \in 0..0 |-> [ps |-> settled, left |-> v.sum]]
  <2>1. f = [n \in 0..0 |-> Stage(f, n)]
    <3>1. \A n \in 0..0 : n = 0
      OBVIOUS
    <3>2. \A n \in 0..0 : Stage(f, n) = [ps |-> settled, left |-> v.sum]
      BY <3>1
    <3> HIDE DEF Stage
    <3> QED
      BY <3>2
  <2> HIDE DEF f
  <2> QED
    BY <1>3, <1>4, <2>1
<1>5. CASE k # 0
  <2>1. k - 1 \in Nat /\ k - 1 \notin Missing
    <3> HIDE DEF Missing
    <3> QED
      BY <1>2, <1>3, <1>5
  <2>2. PICK g : g = [n \in 0..(k - 1) |-> Stage(g, n)]
    BY <2>1
  <2> DEFINE f == [n \in 0..k |-> IF n = k THEN Paying(v, lines, g[k - 1], k) ELSE g[n]]
  <2>3. \A n \in 0..k : f[n] = Stage(f, n)
    <3> TAKE n \in 0..k
    <3>1. CASE n = 0
      BY <1>3, <1>5, <2>1, <2>2, <3>1
    <3>2. CASE n # 0 /\ n # k
      <4>1. n \in 0..(k - 1) /\ n - 1 \in 0..(k - 1) /\ n - 1 \in 0..k /\ n - 1 # k
        BY <1>3, <3>2
      <4>2. f[n] = g[n] /\ f[n - 1] = g[n - 1]
        BY <3>2, <4>1
      <4>3. g[n] = Stage(g, n)
        <5> HIDE DEF Stage, f
        <5> QED
          BY <2>2, <4>1
      <4>4. g[n] = Paying(v, lines, g[n - 1], n)
        BY <3>2, <4>3
      <4>5. Stage(f, n) = Paying(v, lines, f[n - 1], n)
        BY <3>2
      <4> HIDE DEF f, Stage
      <4> QED
        BY <4>2, <4>4, <4>5
    <3>3. CASE n # 0 /\ n = k
      <4>1. k - 1 \in 0..k /\ k - 1 # k
        BY <1>3, <1>5
      <4>2. f[k - 1] = g[k - 1] /\ f[n] = Paying(v, lines, g[k - 1], k)
        BY <3>3, <4>1
      <4>3. Stage(f, n) = Paying(v, lines, f[k - 1], k)
        BY <3>3
      <4> HIDE DEF f, Stage
      <4> QED
        BY <4>2, <4>3
    <3> QED
      BY <3>1, <3>2, <3>3
  <2>4. f = [n \in 0..k |-> f[n]]
    OBVIOUS
  <2> HIDE DEF f, Stage
  <2>5. f = [n \in 0..k |-> Stage(f, n)]
    BY <2>3, <2>4
  <2> QED
    BY <1>3, <2>5
<1> QED
  BY <1>4, <1>5

\* The lines a settlement is spread over name rows of the driver, or none.
LEMMA PayableIsSound ==
    ASSUME RentsTyped, NEW v, SheetTyped(v)
    PROVE  /\ Payable(v) \in Seq(PayLines)
           /\ LinesSound(v.lines, v.driver) => LinesSound(Payable(v), v.driver)
<1>1. /\ v \in Sheets /\ v.lines \in Seq(PayLines) /\ v.rows \in Nat /\ v.first \in Nat \ {0}
      /\ v.rows <= Len(v.lines) /\ Len(v.lines) \in Nat /\ v.driver \in Drivers
  BY DEF SheetTyped, Sheets
<1> DEFINE Cut(last) == SubSeq(v.lines, v.first, last)
           old == OldLines(v.driver, SubSeq(v.lines, 1, v.rows))
<1>2. ASSUME NEW last \in Nat, last <= Len(v.lines)
      PROVE  /\ Cut(last) \in Seq(PayLines)
             /\ LinesSound(v.lines, v.driver) => LinesSound(Cut(last), v.driver)
  <2>1. \A i \in v.first..last : v.lines[i] \in PayLines
    <3> TAKE i \in v.first..last
    <3>1. i \in 1..Len(v.lines)
      BY <1>1, <1>2
    <3> QED
      BY <1>1, <3>1
  <2>2. /\ Cut(last) \in Seq(PayLines)
        /\ Len(Cut(last)) = IF v.first <= last THEN last - v.first + 1 ELSE 0
        /\ \A i \in 1..(last - v.first + 1) : Cut(last)[i] = v.lines[v.first + i - 1]
    <3>1. PICK lines, m : lines = v.lines /\ m = v.first
      OBVIOUS
    <3>3. CASE m <= last
      <4>1. m \in 1..(Len(lines) + 1) /\ last \in (m - 1)..Len(lines) /\ lines \in Seq(PayLines)
        BY <1>1, <1>2, <3>1, <3>3
      <4>2. /\ SubSeq(lines, m, last) \in Seq(PayLines)
            /\ Len(SubSeq(lines, m, last)) = last - m + 1
            /\ \A i \in 1..(last - m + 1) : SubSeq(lines, m, last)[i] = lines[m + i - 1]
        BY ONLY <4>1, SubSeqProperties
      <4> QED
        BY <3>1, <3>3, <4>2
    <3>4. CASE ~(m <= last)
      <4>1. SubSeq(lines, m, last) = << >> /\ 1..(last - m + 1) = {}
        BY <1>1, <1>2, <3>1, <3>4
      <4> QED
        BY <3>1, <3>4, <4>1
    <3> QED
      BY <3>3, <3>4
  <2>3. ASSUME LinesSound(v.lines, v.driver), NEW i \in DOMAIN Cut(last)
        PROVE  OnOwnRow(Cut(last)[i].on, v.driver)
    <3>1. DOMAIN Cut(last) = 1..Len(Cut(last))
      BY <2>2
    <3>2. i \in 1..(last - v.first + 1) /\ v.first + i - 1 \in DOMAIN v.lines
      <4> HIDE DEF Cut
      <4>1. i \in 1..(last - v.first + 1)
        BY <1>1, <1>2, <2>2, <2>3, <3>1
      <4> QED
        BY <1>1, <1>2, <4>1
    <3>3. Cut(last)[i] = v.lines[v.first + i - 1]
      BY <2>2, <3>2
    <3> HIDE DEF Cut
    <3> QED
      BY <2>3, <3>2, <3>3 DEF LinesSound
  <2> HIDE DEF Cut
  <2> QED
    BY <2>2, <2>3 DEF LinesSound
<1>3. old \in Seq(PayLines) /\ LinesSound(old, v.driver)
  BY <1>1, OldLinesNameNone DEF LinesSound, OnOwnRow
<1>4. Payable(v) = IF v.first <= v.rows THEN Cut(v.rows) \o old ELSE Cut(Len(v.lines))
  BY DEF Payable
<1>5. Cut(v.rows) \o old \in Seq(PayLines)
      /\ (LinesSound(Cut(v.rows), v.driver) => LinesSound(Cut(v.rows) \o old, v.driver))
  <2>1. Cut(v.rows) \in Seq(PayLines)
    BY <1>1, <1>2
  <2>2. PICK p, q : p = Cut(v.rows) /\ q = old
    OBVIOUS
  <2>3. p \in Seq(PayLines) /\ q \in Seq(PayLines)
    BY <1>3, <2>1, <2>2
  <2>4. /\ p \o q \in Seq(PayLines) /\ DOMAIN (p \o q) = 1..(Len(p) + Len(q))
        /\ \A n \in DOMAIN (p \o q) : (p \o q)[n] = IF n <= Len(p) THEN p[n] ELSE q[n - Len(p)]
    BY ONLY <2>3
  <2>5. ASSUME LinesSound(p, v.driver), NEW n \in DOMAIN (p \o q) PROVE OnOwnRow((p \o q)[n].on, v.driver)
    <3>1. Len(p) \in Nat /\ Len(q) \in Nat /\ DOMAIN p = 1..Len(p) /\ DOMAIN q = 1..Len(q)
      BY <2>3
    <3>2. CASE n <= Len(p)
      <4>1. n \in DOMAIN p /\ (p \o q)[n] = p[n]
        BY <2>4, <2>5, <3>1, <3>2
      <4> QED
        BY <2>5, <4>1 DEF LinesSound
    <3>3. CASE ~(n <= Len(p))
      <4>1. n - Len(p) \in DOMAIN q /\ (p \o q)[n] = q[n - Len(p)]
        BY <2>4, <2>5, <3>1, <3>3
      <4>2. LinesSound(q, v.driver)
        BY <1>3, <2>2
      <4> QED
        BY <4>1, <4>2 DEF LinesSound
    <3> QED
      BY <3>2, <3>3
  <2> HIDE DEF Cut, old
  <2> QED
    BY <2>2, <2>4, <2>5 DEF LinesSound
<1> HIDE DEF Cut, old
<1> QED
  BY <1>1, <1>2, <1>4, <1>5

\* What a settlement leaves is what was there and payments on rows of its driver.
LEMMA SpreadIsSound ==
    ASSUME RentsTyped, PaymentsTyped, NEW v, SheetTyped(v)
    PROVE  Added(Spread(v), v.driver, LinesSound(v.lines, v.driver))
<1> DEFINE lines == Payable(v)
           many == Len(lines)
           sound == LinesSound(v.lines, v.driver)
           after == CHOOSE f : f = [n \in 0..many |-> IF n = 0 THEN [ps |-> settled, left |-> v.sum]
                                                   ELSE Paying(v, lines, f[n - 1], n)]
           paid == after[many]
<1>1. lines \in Seq(PayLines) /\ many \in Nat /\ (sound => LinesSound(lines, v.driver))
  BY PayableIsSound
<1>2. v \in Sheets /\ v.sum \in Int /\ v.due \in Int
  BY DEF SheetTyped, Sheets
<1>3. Spread(v) = IF paid.left = 0 THEN paid.ps
                  ELSE Append(paid.ps, Slip(v, paid.ps, [on |-> 0, sale |-> 0], paid.left))
  BY DEF Spread
<1> HIDE DEF lines, many, sound
<1>4. after = [n \in 0..many |-> IF n = 0 THEN [ps |-> settled, left |-> v.sum]
                              ELSE Paying(v, lines, after[n - 1], n)]
  <2>1. \E f : f = [n \in 0..many |-> IF n = 0 THEN [ps |-> settled, left |-> v.sum]
                                   ELSE Paying(v, lines, f[n - 1], n)]
    <3>1. PICK ls, m : ls = lines /\ m = many
      OBVIOUS
    <3>2. m \in Nat
      BY <1>1, <3>1
    <3>3. \E f : PaidInTurn(f, v, ls, m)
      BY ONLY <3>2, PaidLineByLine
    <3>4. \E f : PaidInTurn(f, v, lines, many)
      BY <3>1, <3>3
    <3> QED
      BY <3>4 DEF PaidInTurn
  <2> QED
    BY <2>1
<1> HIDE DEF after
<1> DEFINE Right(w) == Added(w.ps, v.driver, sound) /\ w.left \in Int
           Wrong == {n \in 0..many : ~Right(after[n])}
<1>5. Right(after[0])
  <2>1. after[0] = [ps |-> settled, left |-> v.sum]
    BY <1>1, <1>4
  <2>2. Added(settled, v.driver, sound)
    BY DEF Added, PaymentsTyped
  <2> QED
    BY <1>2, <2>1, <2>2
<1>6. ASSUME NEW n \in 1..many, Right(after[n - 1]) PROVE Right(after[n])
  <2> DEFINE before == after[n - 1]
             due == IF n = 1 THEN v.due ELSE Due(lines[n], before.ps, 0)
             part == Min({due, before.left})
  <2>1. after[n] = IF part <= 0 THEN before
                   ELSE [ps |-> Append(before.ps, Slip(v, before.ps, lines[n], part)),
                         left |-> before.left - part]
    <3>1. n \in 0..many /\ n # 0
      BY <1>1
    <3>2. after[n] = Paying(v, lines, after[n - 1], n)
      BY <1>4, <3>1
    <3> QED
      BY <3>2 DEF Paying
  <2>2. Added(before.ps, v.driver, sound) /\ before.left \in Int
    BY <1>6
  <2> HIDE DEF before
  <2>3. lines[n] \in PayLines
    BY <1>1 DEF many
  <2>4. /\ lines[n].on \in Nat /\ lines[n].sale \in Nat /\ lines[n].rent \in Int
        /\ sound => OnOwnRow(lines[n].on, v.driver)
    <3>1. n \in DOMAIN lines
      BY <1>1 DEF many
    <3> QED
      BY <1>1, <2>3, <3>1 DEF PayLines, LinesSound
  <2>5. due \in Int
    BY <1>2, <2>2, <2>4, DueIsNumber DEF Added
  <2> HIDE DEF due
  <2>6. part \in Int
    <3>1. \E x \in {due, before.left} : \A y \in {due, before.left} : x <= y
      BY <2>2, <2>5
    <3>2. part \in {due, before.left}
      BY <3>1 DEF Min
    <3> QED
      BY <2>2, <2>5, <3>2
  <2> HIDE DEF part
  <2>7. Added(Append(before.ps, Slip(v, before.ps, lines[n], part)), v.driver, sound)
    BY <1>2, <2>2, <2>4, <2>6, AddedAppend
  <2>8. before.left - part \in Int
    BY <2>2, <2>6
  <2>9. CASE part <= 0
    BY <2>1, <2>2, <2>9
  <2>10. CASE ~(part <= 0)
    BY <2>1, <2>7, <2>8, <2>10
  <2> QED
    BY <2>9, <2>10
<1> HIDE DEF Right
<1>7. Wrong = {}
  <2>1. SUFFICES ASSUME Wrong # {} PROVE FALSE
    OBVIOUS
  <2>2. PICK n \in Wrong : \A m \in Wrong : n <= m
    <3>1. Wrong \in SUBSET Nat
      BY <1>1
    <3> HIDE DEF Wrong
    <3> QED
      BY <2>1, <3>1, LeastNumber
  <2>3. n \in 0..many /\ ~Right(after[n])
    OBVIOUS
  <2>4. n # 0
    BY <1>5, <2>3
  <2>5. n \in 1..many /\ n - 1 \in 0..many /\ ~(n <= n - 1)
    BY <1>1, <2>3, <2>4
  <2>6. n - 1 \notin Wrong
    BY <2>2, <2>5
  <2>7. Right(after[n - 1])
    BY <2>5, <2>6
  <2> QED
    BY <1>6, <2>3, <2>5, <2>7
<1>8. Added(paid.ps, v.driver, sound) /\ paid.left \in Int
  <2>1. many \in 0..many
    BY <1>1
  <2> QED
    BY <1>7, <2>1 DEF Right
<1> HIDE DEF paid
<1> DEFINE nothing == [on |-> 0, sale |-> 0]
<1>9. nothing.on \in Nat /\ nothing.sale \in Nat /\ OnOwnRow(nothing.on, v.driver)
  BY DEF OnOwnRow
<1> HIDE DEF nothing
<1>10. Added(Append(paid.ps, Slip(v, paid.ps, nothing, paid.left)), v.driver, sound)
  BY <1>2, <1>8, <1>9, AddedAppend
<1> QED
  BY <1>3, <1>8, <1>10 DEF nothing, sound

\* What the drivers of a sale are given is listed in order.
LEMMA AssignmentsAreLists ==
    ASSUME NEW who \in Assignments
    PROVE  who \in Seq(Shares) /\ who # << >>
<1>1. \A r \in RentChoices : r \in Int
  BY RentsAssumption
<1>2. CASE \E d \in Drivers, r \in RentChoices : who = <<[driver |-> d, rent |-> r]>>
  BY <1>1, <1>2 DEF Shares
<1>3. CASE \E d \in Drivers, e \in Drivers, r \in RentChoices, q \in RentChoices :
               who = <<[driver |-> d, rent |-> r], [driver |-> e, rent |-> q]>>
  <2>1. PICK d \in Drivers, e \in Drivers, r \in RentChoices, q \in RentChoices :
               who = <<[driver |-> d, rent |-> r], [driver |-> e, rent |-> q]>>
    BY <1>3
  <2>2. [driver |-> d, rent |-> r] \in Shares /\ [driver |-> e, rent |-> q] \in Shares
    BY <1>1 DEF Shares
  <2> QED
    BY <2>1, <2>2
<1> QED
  BY <1>2, <1>3 DEF Assignments

\* The rows with those of a sale replaced: the others stay as they are.
Replaced(rows, s, who, t) ==
    LET kept == {i \in DOMAIN row : row[i].sale # s} IN
    /\ DOMAIN rows = kept \cup (t + 1)..(t + Len(who))
    /\ IsFiniteSet(DOMAIN rows) /\ rows = [i \in DOMAIN rows |-> rows[i]]
    /\ \A i \in kept : i <= t /\ rows[i] = row[i]
    /\ \A k \in 1..Len(who) :
          rows[t + k] = [sale |-> s, driver |-> who[k].driver, rent |-> who[k].rent, live |-> TRUE]

LEMMA RowsAreReplaced ==
    ASSUME RentsTyped, NEW s, NEW who \in Seq(Shares)
    PROVE  \E t \in Nat : Replaced(WithRows(s, who), s, who, t)
<1> DEFINE kept == {i \in DOMAIN row : row[i].sale # s}
           t == Max(kept \cup {0})
           rows == WithRows(s, who)
<1>1. IsFiniteSet(kept) /\ kept \subseteq Nat
  BY FS_Subset DEF RentsTyped
<1>2. t \in Nat /\ \A i \in kept : i <= t
  <2>1. IsFiniteSet(kept \cup {0}) /\ kept \cup {0} \in SUBSET Nat /\ kept \cup {0} # {}
    <3> HIDE DEF kept
    <3> QED
      BY <1>1, FS_AddElement
  <2> HIDE DEF kept
  <2> QED
    BY <1>1, <2>1, GreatestAndLeast
<1>3. rows = [i \in kept \cup (t + 1)..(t + Len(who)) |->
                 IF i \in kept THEN row[i]
                 ELSE [sale |-> s, driver |-> who[i - t].driver, rent |-> who[i - t].rent, live |-> TRUE]]
  BY DEF WithRows
<1>4. Len(who) \in Nat
  OBVIOUS
<1> HIDE DEF t, rows
<1>5. IsFiniteSet(kept \cup (t + 1)..(t + Len(who)))
  <2>1. IsFiniteSet((t + 1)..(t + Len(who)))
    <3>1. t + 1 \in Int /\ t + Len(who) \in Int
      BY <1>2, <1>4
    <3> QED
      BY <3>1, FS_Interval
  <2> HIDE DEF kept
  <2> QED
    BY <1>1, <2>1, FS_Union
<1>6. \A k \in 1..Len(who) :
          rows[t + k] = [sale |-> s, driver |-> who[k].driver, rent |-> who[k].rent, live |-> TRUE]
  <2> TAKE k \in 1..Len(who)
  <2>1. t + k \in (t + 1)..(t + Len(who)) /\ (t + k) - t = k /\ ~(t + k <= t)
    BY <1>2, <1>4
  <2>2. t + k \notin kept
    BY <1>2, <2>1
  <2> HIDE DEF kept
  <2> QED
    BY <1>3, <2>1, <2>2
<1>7. DOMAIN rows = kept \cup (t + 1)..(t + Len(who)) /\ rows = [i \in DOMAIN rows |-> rows[i]]
  <2> HIDE DEF kept
  <2> QED
    BY <1>3
<1>8. \A i \in kept : rows[i] = row[i]
  <2> HIDE DEF kept
  <2> QED
    BY <1>3
<1>9. Replaced(rows, s, who, t)
  BY <1>2, <1>5, <1>6, <1>7, <1>8 DEF Replaced
<1> QED
  BY <1>2, <1>9 DEF rows

\* New or changed, a sale has the rows of its drivers, one after another.
LEMMA SaleHasItsRows ==
    ASSUME RentsTyped, RowsMatch, NEW s \in SaleDates, NEW who \in Assignments,
           share' = With(share, s, who), row' = WithRows(s, who), oldRent' = SyncRent(s, who), owing' = owing
    PROVE  RentsTyped' /\ RowsMatch'
<1>1. who \in Seq(Shares) /\ who # << >> /\ Len(who) \in Nat
  BY AssignmentsAreLists
<1>2. PICK t \in Nat : Replaced(row', s, who, t)
  BY <1>1, RowsAreReplaced
<1> DEFINE kept == {i \in DOMAIN row : row[i].sale # s}
<1>3. /\ DOMAIN row' = kept \cup (t + 1)..(t + Len(who))
      /\ IsFiniteSet(DOMAIN row') /\ row' = [i \in DOMAIN row' |-> row'[i]]
      /\ \A i \in kept : i <= t /\ row'[i] = row[i]
      /\ \A k \in 1..Len(who) :
            row'[t + k] = [sale |-> s, driver |-> who[k].driver, rent |-> who[k].rent, live |-> TRUE]
  BY <1>2 DEF Replaced
<1>13. \A k \in 1..Len(who) : /\ row'[t + k].sale = s /\ row'[t + k].driver = who[k].driver
                              /\ row'[t + k].rent = who[k].rent
  <2> TAKE k \in 1..Len(who)
  <2>1. row'[t + k] = [sale |-> s, driver |-> who[k].driver, rent |-> who[k].rent, live |-> TRUE]
    BY <1>3
  <2> QED
    BY <2>1
<1>4. /\ DOMAIN share' = DOMAIN share \cup {s} /\ share' = [u \in DOMAIN share' |-> share'[u]]
      /\ share'[s] = who /\ \A u \in DOMAIN share \ {s} : share'[u] = share[u]
  BY DEF With
<1>5. s \in Nat
  BY RentsAssumption
<1>6. \A i \in (t + 1)..(t + Len(who)) : i - t \in 1..Len(who) /\ t + (i - t) = i
  BY <1>1
<1>7. /\ IsFiniteSet(DOMAIN share') /\ DOMAIN share' \subseteq Nat
      /\ \A u \in DOMAIN share' : share'[u] \in Seq(Shares) /\ share'[u] # << >>
  <2>1. IsFiniteSet(DOMAIN share') /\ DOMAIN share' \subseteq Nat
    <3>1. PICK D : D = DOMAIN share
      OBVIOUS
    <3>2. IsFiniteSet(D) /\ D \subseteq Nat
      BY <3>1 DEF RentsTyped
    <3>3. IsFiniteSet(D \cup {s})
      BY ONLY <3>2, FS_AddElement
    <3> QED
      BY <1>4, <1>5, <3>1, <3>2, <3>3
  <2>2. \A u \in DOMAIN share' : share'[u] \in Seq(Shares) /\ share'[u] # << >>
    BY <1>1, <1>4 DEF RentsTyped
  <2> QED
    BY <2>1, <2>2
<1>8. oldRent' = [u \in DOMAIN share' |-> [driver |-> share'[u][1].driver, sum |-> Rents(share'[u])]]
  <2>1. oldRent' = [u \in DOMAIN oldRent \cup {s} |->
                       IF u = s THEN [driver |-> who[1].driver, sum |-> Rents(who)] ELSE oldRent[u]]
    BY DEF SyncRent, With
  <2>2. DOMAIN oldRent = DOMAIN share
        /\ \A u \in DOMAIN share : oldRent[u] = [driver |-> share[u][1].driver, sum |-> Rents(share[u])]
    BY DEF RentsTyped
  <2>3. \A u \in DOMAIN share' : oldRent'[u] = [driver |-> share'[u][1].driver, sum |-> Rents(share'[u])]
    BY <1>4, <2>1, <2>2
  <2> QED
    BY <1>4, <2>1, <2>2, <2>3
<1>9. DOMAIN row' \subseteq Nat \ {0}
  <2>1. \A i \in (t + 1)..(t + Len(who)) : i \in Nat \ {0}
    BY <1>1
  <2> QED
    BY <1>3, <2>1 DEF RentsTyped
<1>10. \A i \in DOMAIN row' : row'[i] \in RentRows /\ row'[i].sale \in DOMAIN share'
  <2> TAKE i \in DOMAIN row'
  <2>1. CASE i \in kept
    BY <1>3, <1>4, <2>1 DEF RentsTyped
  <2>2. CASE i \in (t + 1)..(t + Len(who))
    <3>1. PICK k \in 1..Len(who) : i = t + k
      BY <1>6, <2>2
    <3>2. row'[i] = [sale |-> s, driver |-> who[k].driver, rent |-> who[k].rent, live |-> TRUE]
      BY <1>3, <3>1
    <3>3. who[k] \in Shares
      BY <1>1
    <3> QED
      BY <1>4, <1>5, <3>2, <3>3 DEF Shares, RentRows
  <2> QED
    BY <1>3, <2>1, <2>2
<1>11. RentsTyped'
  <2>1. owing' \in [Drivers -> Int]
    BY DEF RentsTyped
  <2> QED
    BY ONLY <1>3, <1>4, <1>7, <1>8, <1>9, <1>10, <2>1 DEF RentsTyped
<1>12. \A u \in DOMAIN share' : Matches(u)'
  <2> TAKE u \in DOMAIN share'
  <2>1. CASE u = s
    <3>1. \A i \in DOMAIN row' : row'[i].sale = s <=> i \in (t + 1)..(t + Len(who))
      <4> TAKE i \in DOMAIN row'
      <4>1. CASE i \in kept
        <5>1. row'[i].sale # s /\ i <= t
          BY <1>3, <4>1
        <5>2. i \notin (t + 1)..(t + Len(who))
          BY <5>1, <1>1, <4>1 DEF RentsTyped
        <5> QED
          BY <5>1, <5>2
      <4>2. CASE i \in (t + 1)..(t + Len(who))
        <5>1. PICK k \in 1..Len(who) : i = t + k
          BY <1>6, <4>2
        <5> QED
          BY <1>13, <4>2, <5>1
      <4> QED
        BY <1>3, <4>1, <4>2
    <3>2. RowsOf(s)' = (t + 1)..(t + Len(who))
      BY <1>3, <3>1 DEF RowsOf
    <3>3. \A k \in 1..Len(who) : row'[t + k].driver = who[k].driver /\ row'[t + k].rent = who[k].rent
      BY <1>13
    <3> HIDE DEF kept
    <3> QED
      BY <1>1, <1>2, <1>4, <2>1, <3>2, <3>3 DEF Matches
  <2>2. CASE u # s
    <3>1. u \in DOMAIN share /\ share'[u] = share[u]
      BY <1>4, <2>2
    <3>2. PICK z \in Nat :
             /\ RowsOf(u) = (z + 1)..(z + Len(share[u]))
             /\ \A k \in 1..Len(share[u]) :
                   row[z + k].driver = share[u][k].driver /\ row[z + k].rent = share[u][k].rent
      BY <3>1 DEF RowsMatch, Matches
    <3>3. \A i \in RowsOf(u) : i \in kept
      BY <2>2 DEF RowsOf
    <3>4. RowsOf(u)' = RowsOf(u)
      <4>1. \A i \in DOMAIN row' : row'[i].sale = u => i \in RowsOf(u)
        <5> TAKE i \in DOMAIN row'
        <5>1. CASE i \in kept
          BY <1>3, <5>1 DEF RowsOf
        <5>2. CASE i \in (t + 1)..(t + Len(who))
          <6>1. PICK k \in 1..Len(who) : i = t + k
            BY <1>6, <5>2
          <6> QED
            BY <1>13, <2>2, <6>1
        <5> QED
          BY <1>3, <5>1, <5>2
      <4>2. \A i \in RowsOf(u) : i \in DOMAIN row' /\ row'[i].sale = u
        BY <1>3, <3>3 DEF RowsOf
      <4> QED
        BY <4>1, <4>2 DEF RowsOf
    <3>5. \A k \in 1..Len(share[u]) : row'[z + k] = row[z + k]
      <4> TAKE k \in 1..Len(share[u])
      <4>1. Len(share[u]) \in Nat
        BY <3>1 DEF RentsTyped
      <4>2. z + k \in RowsOf(u)
        BY <3>2, <4>1
      <4> QED
        BY <1>3, <3>3, <4>2
    <3>6. /\ RowsOf(u)' = (z + 1)..(z + Len(share'[u]))
          /\ \A k \in 1..Len(share'[u]) :
                row'[z + k].driver = share'[u][k].driver /\ row'[z + k].rent = share'[u][k].rent
      BY <3>1, <3>2, <3>4, <3>5
    <3> HIDE DEF kept
    <3> QED
      BY ONLY <3>6 DEF Matches
  <2> QED
    BY <2>1, <2>2
<1> QED
  BY <1>11, <1>12 DEF RowsMatch

\* A sale that is deleted takes its rows with it.
LEMMA DeletedSaleHasNoRows ==
    ASSUME RentsTyped, RowsMatch, NEW s,
           share' = Without(share, s), row' = WithRows(s, << >>), oldRent' = Without(oldRent, s), owing' = owing
    PROVE  RentsTyped' /\ RowsMatch'
<1> DEFINE kept == {i \in DOMAIN row : row[i].sale # s}
<1>1. /\ DOMAIN row' = kept /\ IsFiniteSet(DOMAIN row') /\ row' = [i \in DOMAIN row' |-> row'[i]]
      /\ \A i \in kept : row'[i] = row[i]
  <2>1. << >> \in Seq(Shares) /\ Len(<< >>) = 0
    OBVIOUS
  <2>2. PICK t \in Nat : Replaced(row', s, << >>, t)
    BY <2>1, RowsAreReplaced
  <2>3. (t + 1)..(t + 0) = {}
    OBVIOUS
  <2> QED
    BY <2>1, <2>2, <2>3 DEF Replaced
<1>2. /\ DOMAIN share' = DOMAIN share \ {s} /\ share' = [u \in DOMAIN share' |-> share'[u]]
      /\ \A u \in DOMAIN share \ {s} : share'[u] = share[u]
  BY DEF Without
<1>3. IsFiniteSet(DOMAIN share')
  <2>1. PICK D : D = DOMAIN share
    OBVIOUS
  <2>2. IsFiniteSet(D) /\ D \ {s} \subseteq D
    BY <2>1 DEF RentsTyped
  <2>3. IsFiniteSet(D \ {s})
    BY ONLY <2>2, FS_Subset
  <2> QED
    BY <1>2, <2>1, <2>3
<1>4. /\ DOMAIN share' \subseteq Nat
      /\ \A u \in DOMAIN share' : share'[u] \in Seq(Shares) /\ share'[u] # << >>
  BY <1>2 DEF RentsTyped
<1>5. oldRent' = [u \in DOMAIN share' |-> [driver |-> share'[u][1].driver, sum |-> Rents(share'[u])]]
  <2>1. oldRent' = [u \in DOMAIN oldRent \ {s} |-> oldRent[u]]
    BY DEF Without
  <2>2. DOMAIN oldRent = DOMAIN share
        /\ \A u \in DOMAIN share : oldRent[u] = [driver |-> share[u][1].driver, sum |-> Rents(share[u])]
    BY DEF RentsTyped
  <2>3. \A u \in DOMAIN share' : oldRent'[u] = [driver |-> share'[u][1].driver, sum |-> Rents(share'[u])]
    BY <1>2, <2>1, <2>2
  <2> QED
    BY <1>2, <2>1, <2>2, <2>3
<1>6. DOMAIN row' \subseteq Nat \ {0}
      /\ \A i \in DOMAIN row' : row'[i] \in RentRows /\ row'[i].sale \in DOMAIN share'
  BY <1>1, <1>2 DEF RentsTyped
<1>7. RentsTyped'
  <2>1. owing' \in [Drivers -> Int]
    BY DEF RentsTyped
  <2> QED
    BY ONLY <1>1, <1>2, <1>3, <1>4, <1>5, <1>6, <2>1 DEF RentsTyped
<1>8. ASSUME NEW u \in DOMAIN share' PROVE Matches(u)'
  <2>1. u \in DOMAIN share /\ u # s /\ share'[u] = share[u]
    BY <1>2, <1>8
  <2>2. PICK z \in Nat :
           /\ RowsOf(u) = (z + 1)..(z + Len(share[u]))
           /\ \A k \in 1..Len(share[u]) :
                 row[z + k].driver = share[u][k].driver /\ row[z + k].rent = share[u][k].rent
    BY <2>1 DEF RowsMatch, Matches
  <2>3. RowsOf(u)' = RowsOf(u) /\ \A i \in RowsOf(u) : row'[i] = row[i]
    BY <1>1, <2>1 DEF RowsOf
  <2>4. \A k \in 1..Len(share[u]) : row'[z + k] = row[z + k]
    <3> TAKE k \in 1..Len(share[u])
    <3>1. Len(share[u]) \in Nat
      BY <2>1 DEF RentsTyped
    <3>2. z + k \in RowsOf(u)
      BY <2>2, <3>1
    <3> QED
      BY <2>3, <3>2
  <2>5. /\ RowsOf(u)' = (z + 1)..(z + Len(share'[u]))
        /\ \A k \in 1..Len(share'[u]) :
              row'[z + k].driver = share'[u][k].driver /\ row'[z + k].rent = share'[u][k].rent
    BY <2>1, <2>2, <2>3, <2>4
  <2> QED
    BY ONLY <2>5 DEF Matches
<1> QED
  BY <1>7, <1>8 DEF RowsMatch

\* A request as another one's write leaves it: as it was, stale, or crossed.
Marked(v, w) == w = v \/ w = [v EXCEPT !.stale = TRUE] \/ w = [v EXCEPT !.crossed = TRUE]

LEMMA MarkedIsTyped ==
    ASSUME NEW v, SheetTyped(v), NEW w, Marked(v, w)
    PROVE  /\ SheetTyped(w) /\ w.own = v.own /\ w.driver = v.driver /\ w.lines = v.lines
           /\ Relying(w) => Relying(v)
<1>1. v \in Sheets
  BY DEF SheetTyped
<1>2. w \in Sheets
  <2>1. [v EXCEPT !.stale = TRUE] \in Sheets
    BY <1>1 DEF Sheets
  <2>2. [v EXCEPT !.crossed = TRUE] \in Sheets
    BY <1>1 DEF Sheets
  <2> QED
    BY <1>1, <2>1, <2>2 DEF Marked
<1>3. /\ w.own = v.own /\ w.driver = v.driver /\ w.lines = v.lines /\ w.rows = v.rows /\ w.page = v.page
      /\ w.step = v.step /\ (w.crossed = v.crossed \/ w.crossed)
  BY <1>1 DEF Marked, Sheets
<1> QED
  BY <1>2, <1>3 DEF SheetTyped, Relying

\* What a write does to the requests under way.
LEMMA AfterMarks ==
    ASSUME VisitsTyped, NEW drivers, NEW account, NEW form, NEW c \in Clerks
    PROVE  LET w == After(drivers, account, form)[c] IN
           /\ visit[c] = Away => w = Away
           /\ visit[c] # Away => SheetTyped(visit[c]) /\ Marked(visit[c], w)
           /\ account \notin Accounts /\ form \notin Forms /\ visit[c].driver \in drivers
                => ~ (visit[c] # Away /\ Relying(w))
<1> DEFINE v == visit[c]
           w == After(drivers, account, form)[c]
<1>1. w = IF v.step = "away" THEN v
          ELSE IF account \in Accounts /\ v.from = account /\ v.step \in {"loaded", "ready"}
               THEN [v EXCEPT !.stale = TRUE]
          ELSE IF \/ v.step = "loaded" /\ v.page # "entry"
                  \/ v.driver \notin drivers
                  \/ form \in Forms /\ v.form = form
               THEN v
          ELSE [v EXCEPT !.crossed = TRUE]
  BY DEF After
<1> HIDE DEF w
<1>2. v = Away => w = Away
  BY <1>1 DEF Away
<1>3. ASSUME v # Away PROVE SheetTyped(v) /\ v \in Sheets /\ v.step # "away"
  BY <1>3 DEF VisitsTyped, SheetTyped, Sheets
<1>4. v # Away => SheetTyped(v) /\ Marked(v, w)
  BY <1>1, <1>3 DEF Marked
<1>5. ASSUME account \notin Accounts, form \notin Forms, v.driver \in drivers, v # Away
      PROVE  ~Relying(w)
  <2>1. CASE v.step = "loaded" /\ v.page # "entry"
    <3>1. w = v
      BY <1>1, <1>3, <1>5, <2>1
    <3> QED
      BY <2>1, <3>1 DEF Relying
  <2>2. CASE ~(v.step = "loaded" /\ v.page # "entry")
    <3>1. w = [v EXCEPT !.crossed = TRUE]
      BY <1>1, <1>3, <1>5, <2>2
    <3>2. w.crossed = TRUE
      BY <1>3, <1>5, <3>1 DEF Sheets
    <3> QED
      BY <3>2 DEF Relying
  <2> QED
    BY <2>1, <2>2
<1> QED
  BY <1>2, <1>4, <1>5 DEF w

\* Rows of other sales, and what relies on them, stay.
LEMMA ReplacedKeepsRelying ==
    ASSUME RentsTyped, PaymentsTyped, VisitsTyped, PaymentsOnOwnRows, VisitsOnOwnRows, NEW s, NEW drivers,
           \A i \in DOMAIN row : row[i].sale # s => i \in DOMAIN row' /\ row'[i] = row[i],
           DriversOf(s) \subseteq drivers, visit' = After(drivers, Waived, Waived),
           Released(s), settled' = settled, mishaps' = mishaps
    PROVE  PaymentsTyped' /\ VisitsTyped' /\ PaymentsOnOwnRows' /\ VisitsOnOwnRows'
<1>1. PaymentsTyped'
  BY DEF PaymentsTyped
<1>2. DOMAIN visit' = Clerks /\ \A c \in Clerks : visit'[c] = After(drivers, Waived, Waived)[c]
  BY DEF After
<1>3. ASSUME NEW c \in Clerks, visit'[c] # Away
      PROVE  SheetTyped(visit[c]) /\ Marked(visit[c], visit'[c]) /\ visit[c].own <= Len(settled)
  BY <1>2, <1>3, AfterMarks DEF VisitsTyped
<1>4. VisitsTyped'
  <2>1. ASSUME NEW c \in Clerks, visit'[c] # Away
        PROVE  SheetTyped(visit'[c]) /\ visit'[c].own <= Len(settled')
    BY <1>3, <2>1, MarkedIsTyped
  <2> QED
    BY <1>2, <2>1 DEF VisitsTyped, SheetTyped
<1>5. PaymentsOnOwnRows'
  <2>1. ASSUME "crossed" \notin mishaps, NEW n \in DOMAIN settled, settled[n].on # 0
        PROVE  settled[n].on \in DOMAIN row' /\ row'[settled[n].on].driver = settled[n].driver
    BY <2>1 DEF PaymentsOnOwnRows, OnOwnRow, Released
  <2> QED
    BY <2>1 DEF PaymentsOnOwnRows, OnOwnRow
<1>6. VisitsOnOwnRows'
  <2>1. ASSUME NEW c \in Clerks, Relying(visit'[c]), NEW n \in DOMAIN visit'[c].lines, visit'[c].lines[n].on # 0
        PROVE  /\ visit'[c].lines[n].on \in DOMAIN row'
               /\ row'[visit'[c].lines[n].on].driver = visit'[c].driver
    <3>1. visit'[c] # Away
      BY <2>1 DEF Relying, Away
    <3>2. /\ visit'[c].driver = visit[c].driver /\ visit'[c].lines = visit[c].lines /\ Relying(visit[c])
      BY <1>3, <2>1, <3>1, MarkedIsTyped
    <3>3. visit[c] # Away /\ visit[c].driver \notin drivers
      <4>1. visit[c] # Away
        BY <3>2 DEF Relying, Away
      <4>2. Waived \notin Accounts /\ Waived \notin Forms
        BY RentsAssumption
      <4> QED
        BY <1>2, <2>1, <4>1, <4>2, AfterMarks
    <3>4. PICK i : i = visit[c].lines[n].on
      OBVIOUS
    <3>5. i \in DOMAIN row /\ row[i].driver = visit[c].driver
      BY <2>1, <3>2, <3>4 DEF VisitsOnOwnRows, OnOwnRow
    <3>6. row[i].sale # s
      BY <3>3, <3>5 DEF DriversOf
    <3> QED
      BY <3>2, <3>4, <3>5, <3>6
  <2> QED
    BY <2>1 DEF VisitsOnOwnRows, OnOwnRow
<1> QED
  BY <1>1, <1>4, <1>5, <1>6

\* Sales are added and changed.
LEMMA SaleIsSound ==
    ASSUME RentsInv, NEW s \in SaleDates, NEW who \in Assignments, AddSale(s, who) \/ EditSale(s, who)
    PROVE  RentsInv'
<1>1. RentsTyped /\ PaymentsTyped /\ VisitsTyped /\ RowsMatch /\ PaymentsOnOwnRows /\ VisitsOnOwnRows
  BY DEF RentsInv
<1>2. /\ row' = WithRows(s, who) /\ oldRent' = SyncRent(s, who)
      /\ owing' = owing /\ settled' = settled /\ mishaps' = mishaps
  BY DEF AddSale, EditSale
<1>3. share' = With(share, s, who)
  <2>1. CASE AddSale(s, who)
    BY <2>1 DEF AddSale
  <2>2. CASE EditSale(s, who)
    <3>1. s \in DOMAIN share /\ share' = [share EXCEPT ![s] = who]
      BY <2>2 DEF EditSale
    <3>2. DOMAIN share \cup {s} = DOMAIN share
      BY <3>1
    <3> QED
      BY <3>1, <3>2 DEF With
  <2> QED
    BY <2>1, <2>2
<1>4. RentsTyped' /\ RowsMatch'
  BY <1>1, <1>2, <1>3, SaleHasItsRows
<1>5. PICK t \in Nat : Replaced(row', s, who, t)
  BY <1>1, <1>2, AssignmentsAreLists, RowsAreReplaced
<1>6. \A i \in DOMAIN row : row[i].sale # s => i \in DOMAIN row' /\ row'[i] = row[i]
  BY <1>5 DEF Replaced
<1>7. \E drivers : DriversOf(s) \subseteq drivers /\ visit' = After(drivers, Waived, Waived) /\ Released(s)
  <2>1. CASE AddSale(s, who)
    <3>1. \A i \in DOMAIN row : row[i].sale # s
      BY <1>1, <2>1 DEF AddSale, RentsTyped
    <3>2. DriversOf(s) = {} /\ Released(s)
      BY <3>1 DEF DriversOf, Released
    <3>3. visit' = After(AmongOf(who), Waived, Waived)
      BY <2>1 DEF AddSale, Move
    <3> QED
      BY <3>2, <3>3
  <2>2. CASE EditSale(s, who)
    BY <2>2 DEF EditSale, Move
  <2> QED
    BY <2>1, <2>2
<1>8. PaymentsTyped' /\ VisitsTyped' /\ PaymentsOnOwnRows' /\ VisitsOnOwnRows'
  BY <1>1, <1>2, <1>6, <1>7, ReplacedKeepsRelying
<1> QED
  BY <1>4, <1>8 DEF RentsInv

\* A sale is deleted.
LEMMA DeletedSaleIsSound ==
    ASSUME RentsInv, NEW s, DeleteSale(s)
    PROVE  RentsInv'
<1>1. RentsTyped /\ PaymentsTyped /\ VisitsTyped /\ RowsMatch /\ PaymentsOnOwnRows /\ VisitsOnOwnRows
  BY DEF RentsInv
<1>2. /\ share' = Without(share, s) /\ row' = WithRows(s, << >>) /\ oldRent' = Without(oldRent, s)
      /\ owing' = owing /\ settled' = settled /\ mishaps' = mishaps
      /\ visit' = After(DriversOf(s), Waived, Waived) /\ Released(s)
  BY DEF DeleteSale, Move
<1>3. RentsTyped' /\ RowsMatch'
  BY <1>1, <1>2, DeletedSaleHasNoRows
<1>4. PICK t \in Nat : Replaced(row', s, << >>, t)
  <2>1. << >> \in Seq(Shares)
    OBVIOUS
  <2> QED
    BY <1>1, <1>2, <2>1, RowsAreReplaced
<1>5. \A i \in DOMAIN row : row[i].sale # s => i \in DOMAIN row' /\ row'[i] = row[i]
  BY <1>4 DEF Replaced
<1>6. PaymentsTyped' /\ VisitsTyped' /\ PaymentsOnOwnRows' /\ VisitsOnOwnRows'
  BY <1>1, <1>2, <1>5, ReplacedKeepsRelying
<1> QED
  BY <1>3, <1>6 DEF RentsInv

\* The rows keep their ids, their drivers and their rents, and no payment is put
\* on another row: what is deleted, voided or opened otherwise changes nothing.
LEMMA SameRowsAreSound ==
    ASSUME RentsInv, NEW drivers, NEW account, visit' = After(drivers, account, Waived),
           share' = share, oldRent' = oldRent, mishaps' = mishaps, owing' \in [Drivers -> Int],
           DOMAIN row' = DOMAIN row, row' = [i \in DOMAIN row |-> row'[i]],
           \A i \in DOMAIN row : /\ row'[i] \in RentRows /\ row'[i].sale = row[i].sale
                                 /\ row'[i].driver = row[i].driver /\ row'[i].rent = row[i].rent,
           settled' \in Seq(Slips), Len(settled') = Len(settled),
           \A n \in DOMAIN settled : settled'[n].on = settled[n].on /\ settled'[n].driver = settled[n].driver
    PROVE  RentsInv'
<1>1. RentsTyped /\ PaymentsTyped /\ VisitsTyped /\ RowsMatch /\ PaymentsOnOwnRows /\ VisitsOnOwnRows
  BY DEF RentsInv
<1>2. RentsTyped' /\ PaymentsTyped'
  BY <1>1 DEF RentsTyped, PaymentsTyped
<1>3. RowsMatch'
  <2>1. ASSUME NEW s \in DOMAIN share PROVE Matches(s)'
    <3>1. PICK z \in Nat :
             /\ RowsOf(s) = (z + 1)..(z + Len(share[s]))
             /\ \A k \in 1..Len(share[s]) :
                   row[z + k].driver = share[s][k].driver /\ row[z + k].rent = share[s][k].rent
      BY <1>1 DEF RowsMatch, Matches
    <3>2. RowsOf(s)' = RowsOf(s)
      BY DEF RowsOf
    <3>3. \A k \in 1..Len(share[s]) : z + k \in DOMAIN row
      <4>1. Len(share[s]) \in Nat
        BY <1>1 DEF RentsTyped
      <4>2. \A k \in 1..Len(share[s]) : z + k \in RowsOf(s)
        BY <3>1, <4>1
      <4> QED
        BY <4>2 DEF RowsOf
    <3>4. /\ RowsOf(s)' = (z + 1)..(z + Len(share'[s]))
          /\ \A k \in 1..Len(share'[s]) :
                row'[z + k].driver = share'[s][k].driver /\ row'[z + k].rent = share'[s][k].rent
      BY <3>1, <3>2, <3>3
    <3> QED
      BY ONLY <3>4 DEF Matches
  <2> QED
    BY <2>1 DEF RowsMatch
<1>4. DOMAIN settled' = DOMAIN settled
  BY <1>1 DEF PaymentsTyped
<1>5. PaymentsOnOwnRows'
  <2>1. ASSUME "crossed" \notin mishaps, NEW n \in DOMAIN settled, settled'[n].on # 0
        PROVE  settled'[n].on \in DOMAIN row' /\ row'[settled'[n].on].driver = settled'[n].driver
    BY <1>1, <2>1 DEF PaymentsOnOwnRows, OnOwnRow
  <2> QED
    BY <1>4, <2>1 DEF PaymentsOnOwnRows, OnOwnRow
<1>6. DOMAIN visit' = Clerks /\ \A c \in Clerks : visit'[c] = After(drivers, account, Waived)[c]
  BY DEF After
<1>7. ASSUME NEW c \in Clerks, visit'[c] # Away
      PROVE  SheetTyped(visit[c]) /\ Marked(visit[c], visit'[c]) /\ visit[c].own <= Len(settled)
  BY <1>1, <1>6, <1>7, AfterMarks DEF VisitsTyped
<1>8. VisitsTyped'
  <2>1. ASSUME NEW c \in Clerks, visit'[c] # Away
        PROVE  SheetTyped(visit'[c]) /\ visit'[c].own <= Len(settled')
    BY <1>7, <2>1, MarkedIsTyped
  <2> QED
    BY <1>6, <2>1 DEF VisitsTyped, SheetTyped
<1>9. VisitsOnOwnRows'
  <2>1. ASSUME NEW c \in Clerks, Relying(visit'[c]), NEW n \in DOMAIN visit'[c].lines, visit'[c].lines[n].on # 0
        PROVE  /\ visit'[c].lines[n].on \in DOMAIN row'
               /\ row'[visit'[c].lines[n].on].driver = visit'[c].driver
    <3>1. visit'[c] # Away
      BY <2>1 DEF Relying, Away
    <3>2. /\ visit'[c].driver = visit[c].driver /\ visit'[c].lines = visit[c].lines /\ Relying(visit[c])
      BY <1>7, <2>1, <3>1, MarkedIsTyped
    <3>3. PICK i : i = visit[c].lines[n].on
      OBVIOUS
    <3>4. i \in DOMAIN row /\ row[i].driver = visit[c].driver
      BY <1>1, <2>1, <3>2, <3>3 DEF VisitsOnOwnRows, OnOwnRow
    <3> QED
      BY <3>2, <3>3, <3>4
  <2> QED
    BY <2>1 DEF VisitsOnOwnRows, OnOwnRow
<1> QED
  BY <1>2, <1>3, <1>5, <1>8, <1>9 DEF RentsInv

\* An entry is deleted, an opening is changed, a payment is voided.
LEMMA RecordsAreSound ==
    ASSUME RentsInv,
           \/ \E i \in DOMAIN row : DeleteEntry(i)
           \/ \E d \in Drivers, n \in Openings : ChangeOpening(d, n)
           \/ \E n \in DOMAIN settled : VoidPayment(n)
    PROVE  RentsInv'
<1>1. RentsTyped /\ settled \in Seq(Slips)
  BY DEF RentsInv, PaymentsTyped
<1>2. \A i \in DOMAIN row : row[i] \in RentRows
  BY <1>1 DEF RentsTyped
<1>3. row = [i \in DOMAIN row |-> row[i]] /\ owing \in [Drivers -> Int]
  BY <1>1 DEF RentsTyped
<1>4. ASSUME NEW i \in DOMAIN row, DeleteEntry(i) PROVE RentsInv'
  <2>1. /\ row' = [row EXCEPT ![i].live = FALSE] /\ visit' = After({row[i].driver}, Waived, Waived)
        /\ owing' = owing /\ share' = share /\ oldRent' = oldRent /\ settled' = settled /\ mishaps' = mishaps
    BY <1>4 DEF DeleteEntry, Move
  <2>2. /\ DOMAIN row' = DOMAIN row /\ row' = [j \in DOMAIN row |-> row'[j]]
        /\ \A j \in DOMAIN row : /\ row'[j] \in RentRows /\ row'[j].sale = row[j].sale
                                 /\ row'[j].driver = row[j].driver /\ row'[j].rent = row[j].rent
    BY <1>2, <2>1 DEF RentRows
  <2> QED
    BY <1>1, <1>3, <2>1, <2>2, SameRowsAreSound
<1>5. ASSUME NEW d \in Drivers, NEW n \in Openings, ChangeOpening(d, n) PROVE RentsInv'
  <2>1. /\ owing' = [owing EXCEPT ![d] = n] /\ visit' = After({d}, Waived, Waived)
        /\ row' = row /\ share' = share /\ oldRent' = oldRent /\ settled' = settled /\ mishaps' = mishaps
    BY <1>5 DEF ChangeOpening, Move
  <2>2. owing' \in [Drivers -> Int]
    BY <1>3, <2>1, RentsAssumption
  <2> QED
    BY <1>1, <1>2, <1>3, <2>1, <2>2, SameRowsAreSound
<1>6. ASSUME NEW n \in DOMAIN settled, VoidPayment(n) PROVE RentsInv'
  <2>1. PICK drivers :
           /\ settled' = [settled EXCEPT ![n].live = FALSE]
           /\ visit' = After(drivers, settled[n].from, Waived)
           /\ row' = row /\ share' = share /\ oldRent' = oldRent /\ owing' = owing /\ mishaps' = mishaps
    BY <1>6 DEF VoidPayment, Move
  <2>2. \A m \in DOMAIN settled : settled[m] \in Slips
    BY <1>1
  <2>3. /\ \A m \in DOMAIN settled : /\ settled'[m] \in Slips
                                     /\ settled'[m].on = settled[m].on /\ settled'[m].driver = settled[m].driver
        /\ DOMAIN settled' = DOMAIN settled
    BY <2>1, <2>2 DEF Slips
  <2>4. settled' \in Seq(Slips) /\ Len(settled') = Len(settled)
    <3>1. DOMAIN settled' = 1..Len(settled) /\ Len(settled) \in Nat
      BY <1>1, <2>3
    <3>2. settled' = [m \in 1..Len(settled) |-> settled'[m]]
      BY <2>1, <3>1
    <3> QED
      BY <2>3, <3>1, <3>2
  <2> QED
    BY <1>1, <1>2, <1>3, <2>1, <2>3, <2>4, SameRowsAreSound
<1> QED
  BY <1>4, <1>5, <1>6

\* One request goes on, and nothing else changes.
LEMMA VisitIsSound ==
    ASSUME RentsInv, NEW c \in Clerks, NEW v, visit' = [visit EXCEPT ![c] = v],
           v = Away \/ (SheetTyped(v) /\ v.own <= Len(settled)
                        /\ (Relying(v) => LinesSound(v.lines, v.driver))),
           UNCHANGED <<owing, share, oldRent, row, settled, mishaps>>
    PROVE  RentsInv'
<1>1. RentsTyped /\ PaymentsTyped /\ VisitsTyped /\ RowsMatch /\ PaymentsOnOwnRows /\ VisitsOnOwnRows
  BY DEF RentsInv
<1>2. RentsTyped' /\ PaymentsTyped' /\ RowsMatch' /\ PaymentsOnOwnRows'
  <2>1. RentsTyped' /\ PaymentsTyped'
    BY <1>1 DEF RentsTyped, PaymentsTyped
  <2>2. RowsMatch'
    BY <1>1 DEF RowsMatch, Matches, RowsOf
  <2>3. PaymentsOnOwnRows'
    BY <1>1 DEF PaymentsOnOwnRows, OnOwnRow
  <2> QED
    BY <2>1, <2>2, <2>3
<1>3. DOMAIN visit' = Clerks /\ visit'[c] = v /\ \A b \in Clerks \ {c} : visit'[b] = visit[b]
  BY <1>1 DEF VisitsTyped
<1>4. VisitsTyped'
  BY <1>1, <1>3 DEF VisitsTyped, SheetTyped
<1>5. VisitsOnOwnRows'
  <2>1. ASSUME NEW b \in Clerks, Relying(visit'[b])
        PROVE  \A n \in DOMAIN visit'[b].lines : OnOwnRow(visit'[b].lines[n].on, visit'[b].driver)
    <3>1. CASE b = c
      <4>1. v # Away
        BY <1>3, <2>1, <3>1 DEF Relying, Away
      <4> QED
        BY <1>3, <2>1, <3>1, <4>1 DEF LinesSound
    <3>2. CASE b # c
      BY <1>1, <1>3, <2>1, <3>2 DEF VisitsOnOwnRows
    <3> QED
      BY <3>1, <3>2
  <2> QED
    BY <2>1 DEF VisitsOnOwnRows, OnOwnRow
<1> QED
  BY <1>2, <1>4, <1>5 DEF RentsInv

\* A sheet as it is filled in.
LEMMA SheetIsTyped ==
    ASSUME NEW page \in {"driver", "accounts", "entry", "edit", "restore"}, NEW d \in Drivers,
           NEW from \in Accounts \cup {Waived}, NEW sum \in Int, NEW form \in Forms \cup {"none"}
    PROVE  LET v == Sheet(page, d, from, sum, form) IN
           /\ v \in Sheets /\ v.step = "loaded" /\ v.page = page /\ v.driver = d
           /\ v.own = 0 /\ v.rows = 0
<1> DEFINE v == Sheet(page, d, from, sum, form)
<1>1. << >> \in Seq(PayLines)
  OBVIOUS
<1>2. v = [step |-> "loaded", page |-> page, driver |-> d, from |-> from, sum |-> sum, form |-> form,
           own |-> 0, lines |-> << >>, rows |-> 0, first |-> 1, due |-> 0, stale |-> FALSE, crossed |-> FALSE]
  BY DEF Sheet
<1> HIDE DEF v
<1>3. v \in Sheets
  BY <1>1, <1>2 DEF Sheets
<1>4. v.own = 0 /\ v.page = page /\ v.step = "loaded" /\ v.rows = 0 /\ v.driver = d
  BY <1>2
<1> QED
  BY <1>3, <1>4 DEF v

\* A line made of a row is in type.
LEMMA LineIsTyped ==
    ASSUME RentsTyped, NEW i \in DOMAIN row
    PROVE  RowLine(i) \in PayLines /\ RowLine(i).on = i /\ row[i].driver \in Drivers
BY DEF RentsTyped, RowLine, PayLines, RentRows

\* Requests begin.
LEMMA BegunIsSound ==
    ASSUME RentsInv, NEW c \in Clerks,
           \/ \E n \in DOMAIN settled : OpenRestore(c, n) \/ \E sum \in Sums : OpenEdit(c, n, sum)
           \/ \E from \in Accounts \cup {Waived}, sum \in Sums, form \in Forms :
                 \/ \E d \in Drivers : \/ OpenDriverPage(c, d, from, sum, form)
                                       \/ OpenAccountsPage(c, d, from, sum, form)
                 \/ \E i \in DOMAIN row : OpenEntry(c, i, from, sum, form)
    PROVE  RentsInv'
<1>1. RentsTyped /\ PaymentsTyped
  BY DEF RentsInv
<1>2. settled \in Seq(Slips) /\ Len(settled) \in Nat /\ DOMAIN settled = 1..Len(settled)
  BY <1>1 DEF PaymentsTyped
<1>3. \A sum \in Sums : sum \in Int
  BY RentsAssumption
<1>4. ASSUME NEW v, Arrive(c, v), SheetTyped(v), v.own <= Len(settled), Relying(v) => LinesSound(v.lines, v.driver)
      PROVE  RentsInv'
  <2>1. visit' = [visit EXCEPT ![c] = v] /\ UNCHANGED <<owing, share, oldRent, row, settled, mishaps>>
    BY <1>4 DEF Arrive
  <2> QED
    BY <1>4, <2>1, VisitIsSound
<1>5. ASSUME NEW from \in Accounts \cup {Waived}, NEW sum \in Sums, NEW form \in Forms, NEW d \in Drivers,
             OpenDriverPage(c, d, from, sum, form)
      PROVE  RentsInv'
  <2> DEFINE v == Sheet("driver", d, from, sum, form)
             w == [Listed(v) EXCEPT !.step = "read"]
  <2>1. v \in Sheets /\ v.own = 0 /\ v.page = "driver"
    BY <1>3, SheetIsTyped
  <2>2. Arrive(c, w)
    BY <1>5 DEF OpenDriverPage
  <2> HIDE DEF v
  <2>3. SheetTyped(w) /\ w.own = 0 /\ LinesSound(w.lines, w.driver)
    BY <1>1, <2>1, ListedIsSound
  <2> HIDE DEF w
  <2>4. w.own <= Len(settled)
    BY <1>2, <2>3
  <2> QED
    BY <1>4, <2>2, <2>3, <2>4
<1>6. ASSUME NEW from \in Accounts \cup {Waived}, NEW sum \in Sums, NEW form \in Forms, NEW d \in Drivers,
             OpenAccountsPage(c, d, from, sum, form)
      PROVE  RentsInv'
  <2> DEFINE v == Sheet("accounts", d, from, sum, form)
  <2>0. v \in Sheets /\ v.own = 0 /\ v.rows = 0 /\ v.page = "accounts" /\ v.step = "loaded"
    BY <1>3, SheetIsTyped
  <2>2. Arrive(c, v)
    BY <1>6 DEF OpenAccountsPage
  <2> HIDE DEF v
  <2>1. SheetTyped(v) /\ v.own = 0 /\ ~Relying(v)
    BY <2>0 DEF SheetTyped, Sheets, Relying
  <2>3. v.own <= Len(settled)
    BY <1>2, <2>1
  <2> QED
    BY <1>4, <2>1, <2>2, <2>3
<1>7. ASSUME NEW from \in Accounts \cup {Waived}, NEW sum \in Sums, NEW form \in Forms, NEW i \in DOMAIN row,
             OpenEntry(c, i, from, sum, form)
      PROVE  RentsInv'
  <2> DEFINE w == [Sheet("entry", row[i].driver, from, sum, form) EXCEPT !.lines = <<RowLine(i)>>]
  <2>1. RowLine(i) \in PayLines /\ RowLine(i).on = i /\ row[i].driver \in Drivers
    BY <1>1, LineIsTyped
  <2>2. Arrive(c, w)
    BY <1>7 DEF OpenEntry
  <2>3. PICK l, v : l = RowLine(i) /\ v = Sheet("entry", row[i].driver, from, sum, form)
    OBVIOUS
  <2>4. v \in Sheets /\ v.own = 0 /\ v.rows = 0 /\ v.page = "entry" /\ v.driver = row[i].driver
    BY <1>3, <2>1, <2>3, SheetIsTyped
  <2>5. <<l>> \in Seq(PayLines) /\ Len(<<l>>) = 1 /\ DOMAIN <<l>> = {1} /\ <<l>>[1] = l
    BY <2>1, <2>3
  <2>6. w = [v EXCEPT !.lines = <<l>>]
    BY <2>3
  <2> HIDE DEF w
  <2>7. w \in Sheets /\ w.own = 0 /\ w.rows = 0 /\ w.page = "entry" /\ w.lines = <<l>> /\ w.driver = row[i].driver
    BY <2>4, <2>5, <2>6 DEF Sheets
  <2>8. SheetTyped(w) /\ w.own <= Len(settled)
    BY <1>2, <2>5, <2>7 DEF SheetTyped
  <2>9. LinesSound(w.lines, w.driver)
    BY <2>1, <2>3, <2>5, <2>7 DEF LinesSound, OnOwnRow
  <2> QED
    BY <1>4, <2>2, <2>8, <2>9
<1>8. ASSUME NEW n \in DOMAIN settled, NEW page \in {"edit", "restore"}, NEW sum \in Int,
             Arrive(c, [Sheet(page, settled[n].driver, settled[n].from, sum, "none") EXCEPT
                            !.own = n, !.lines = Line(settled[n])])
      PROVE  RentsInv'
  <2> DEFINE w == [Sheet(page, settled[n].driver, settled[n].from, sum, "none") EXCEPT
                            !.own = n, !.lines = Line(settled[n])]
  <2>2. Arrive(c, w)
    BY <1>8
  <2>3. settled[n] \in Slips /\ n \in Nat /\ n # 0 /\ n <= Len(settled)
    BY <1>2
  <2>4. Line(settled[n]) \in Seq(PayLines)
    <3>1. CASE settled[n].on \in DOMAIN row
      <4>1. RowLine(settled[n].on) \in PayLines
        BY <1>1, <3>1, LineIsTyped
      <4> QED
        BY <3>1, <4>1 DEF Line
    <3>2. CASE settled[n].on \notin DOMAIN row
      BY <3>2 DEF Line
    <3> QED
      BY <3>1, <3>2
  <2>5. settled[n].driver \in Drivers /\ settled[n].from \in Accounts \cup {Waived}
    BY <2>3 DEF Slips
  <2>1. PICK lines, v : /\ lines = Line(settled[n])
                        /\ v = Sheet(page, settled[n].driver, settled[n].from, sum, "none")
    OBVIOUS
  <2>6. v \in Sheets /\ v.rows = 0 /\ v.page = page /\ v.step = "loaded"
    BY <2>1, <2>5, SheetIsTyped
  <2>9. w = [v EXCEPT !.own = n, !.lines = lines]
    BY <2>1
  <2> HIDE DEF w
  <2>7. w \in Sheets /\ w.own = n /\ w.rows = 0 /\ w.page = page /\ w.step = "loaded" /\ w.lines = lines
    BY <2>1, <2>3, <2>4, <2>6, <2>9 DEF Sheets
  <2>8. SheetTyped(w) /\ w.own <= Len(settled) /\ ~Relying(w)
    BY <2>1, <2>3, <2>4, <2>7 DEF SheetTyped, Relying
  <2> QED
    BY <1>4, <2>2, <2>8
<1>9. ASSUME NEW n \in DOMAIN settled, OpenRestore(c, n) PROVE RentsInv'
  <2>0. settled[n] \in Slips
    BY <1>2
  <2>1. settled[n].sum \in Int
    BY <2>0 DEF Slips
  <2> QED
    BY <1>8, <1>9, <2>1 DEF OpenRestore
<1>10. ASSUME NEW n \in DOMAIN settled, NEW sum \in Sums, OpenEdit(c, n, sum) PROVE RentsInv'
  BY <1>3, <1>8, <1>10 DEF OpenEdit
<1> QED
  BY <1>5, <1>6, <1>7, <1>9, <1>10

\* Requests read, and are left.
LEMMA ReadIsSound ==
    ASSUME RentsInv, NEW c \in Clerks, LoadAccount(c) \/ Read(c) \/ Leave(c)
    PROVE  RentsInv'
<1>1. RentsTyped /\ PaymentsTyped /\ VisitsTyped /\ VisitsOnOwnRows
  BY DEF RentsInv
<1>2. ASSUME NEW v, Go(c, v), v = Away \/ (SheetTyped(v) /\ v.own <= Len(settled)
                                          /\ (Relying(v) => LinesSound(v.lines, v.driver)))
      PROVE  RentsInv'
  <2>1. visit' = [visit EXCEPT ![c] = v] /\ UNCHANGED <<owing, share, oldRent, row, settled, mishaps>>
    BY <1>2 DEF Go
  <2> QED
    BY <1>2, <2>1, VisitIsSound
<1>3. CASE Leave(c)
  BY <1>2, <1>3 DEF Leave
<1> DEFINE v == visit[c]
           w == [v EXCEPT !.step = "ready"]
<1>4. ASSUME v # Away
      PROVE  /\ SheetTyped(v) /\ v.own <= Len(settled) /\ SheetTyped(w) /\ w.own = v.own
             /\ w.lines = v.lines /\ w.driver = v.driver /\ w.page = v.page
             /\ w.crossed = v.crossed
  <2>1. SheetTyped(v) /\ v.own <= Len(settled) /\ v \in Sheets
    BY <1>1, <1>4 DEF VisitsTyped, SheetTyped
  <2>2. w \in Sheets
    BY <2>1 DEF Sheets
  <2>3. /\ w.own = v.own /\ w.lines = v.lines /\ w.driver = v.driver /\ w.page = v.page
        /\ w.crossed = v.crossed /\ w.rows = v.rows
    BY <2>1 DEF Sheets
  <2> QED
    BY <2>1, <2>2, <2>3 DEF SheetTyped
<1>5. ASSUME v # Away, Go(c, w), v.step # "loaded" \/ v.page \notin {"driver", "accounts"} PROVE RentsInv'
  <2>1. Relying(w) => Relying(v)
    BY <1>4, <1>5 DEF Relying, SheetTyped, Sheets
  <2>2. Relying(w) => LinesSound(w.lines, w.driver)
    BY <1>1, <1>4, <1>5, <2>1 DEF VisitsOnOwnRows, LinesSound
  <2> QED
    BY <1>2, <1>4, <1>5, <2>2
<1>6. CASE LoadAccount(c)
  <2>1. v.step = "read" /\ Go(c, w)
    BY <1>6 DEF LoadAccount
  <2>2. v # Away
    BY <2>1 DEF Away
  <2> QED
    BY <1>5, <2>1, <2>2
<1>7. CASE Read(c)
  <2>1. v.step = "loaded" /\ Go(c, [(IF v.page = "accounts" THEN Listed(v) ELSE v) EXCEPT !.step = "ready"])
    BY <1>7 DEF Read
  <2>2. v # Away
    BY <2>1 DEF Away
  <2>3. CASE v.page = "accounts"
    <3> DEFINE u == [Listed(v) EXCEPT !.step = "ready"]
    <3>1. Go(c, u)
      BY <2>1, <2>3
    <3>2. v \in Sheets /\ v.own = 0
      BY <1>4, <2>2, <2>3 DEF SheetTyped
    <3> HIDE DEF v
    <3>3. SheetTyped(u) /\ u.own = 0 /\ LinesSound(u.lines, u.driver)
      BY <1>1, <2>3, <3>2, ListedIsSound
    <3> HIDE DEF u
    <3>4. u.own <= Len(settled)
      BY <1>1, <3>3 DEF PaymentsTyped
    <3> QED
      BY <1>2, <3>1, <3>3, <3>4
  <2>4. CASE v.page = "driver"
    BY <1>4, <2>1, <2>2, <2>4 DEF SheetTyped
  <2>5. CASE v.page \notin {"driver", "accounts"}
    <3>1. Go(c, w)
      BY <2>1, <2>5
    <3> QED
      BY <1>5, <2>2, <2>5, <3>1
  <2> QED
    BY <2>3, <2>4, <2>5
<1> QED
  BY <1>3, <1>6, <1>7

\* The payments a request leaves: those that were there, one of them changed or not,
\* and new ones on rows of its driver.
LEMMA ResultIsSound ==
    ASSUME RentsTyped, PaymentsTyped, NEW v, SheetTyped(v), v.own <= Len(settled)
    PROVE  /\ Result(v) \in Seq(Slips) /\ Len(Result(v)) >= Len(settled)
           /\ \A n \in DOMAIN Result(v) :
                 \/ \E m \in DOMAIN settled : Result(v)[n].on = settled[m].on /\ Result(v)[n].driver = settled[m].driver
                 \/ /\ v.page \in {"driver", "accounts", "entry"} /\ Result(v)[n].driver = v.driver
                    /\ LinesSound(v.lines, v.driver) => OnOwnRow(Result(v)[n].on, v.driver)
<1>1. /\ settled \in Seq(Slips) /\ Len(settled) \in Nat /\ DOMAIN settled = 1..Len(settled)
      /\ \A n \in DOMAIN settled : settled[n] \in Slips
  BY DEF PaymentsTyped
<1>2. v \in Sheets /\ v.sum \in Int
  BY DEF SheetTyped, Sheets
<1>3. ASSUME NEW ps, Added(ps, v.driver, LinesSound(v.lines, v.driver)), Result(v) = ps,
             v.page \in {"driver", "accounts", "entry"}
      PROVE  /\ Result(v) \in Seq(Slips) /\ Len(Result(v)) >= Len(settled)
             /\ \A n \in DOMAIN Result(v) :
                   \/ \E m \in DOMAIN settled : Result(v)[n].on = settled[m].on /\ Result(v)[n].driver = settled[m].driver
                   \/ /\ v.page \in {"driver", "accounts", "entry"} /\ Result(v)[n].driver = v.driver
                      /\ LinesSound(v.lines, v.driver) => OnOwnRow(Result(v)[n].on, v.driver)
  BY <1>3 DEF Added
<1>4. ASSUME NEW ps, Result(v) = ps, DOMAIN ps = DOMAIN settled, ps = [n \in DOMAIN settled |-> ps[n]],
             \A n \in DOMAIN settled : ps[n] \in Slips /\ ps[n].on = settled[n].on /\ ps[n].driver = settled[n].driver
      PROVE  /\ Result(v) \in Seq(Slips) /\ Len(Result(v)) >= Len(settled)
             /\ \A n \in DOMAIN Result(v) :
                   \/ \E m \in DOMAIN settled : Result(v)[n].on = settled[m].on /\ Result(v)[n].driver = settled[m].driver
                   \/ /\ v.page \in {"driver", "accounts", "entry"} /\ Result(v)[n].driver = v.driver
                      /\ LinesSound(v.lines, v.driver) => OnOwnRow(Result(v)[n].on, v.driver)
  <2>1. ps \in Seq(Slips) /\ Len(ps) = Len(settled)
    <3>1. PICK many : many = Len(settled)
      OBVIOUS
    <3>2. many \in Nat /\ ps = [n \in 1..many |-> ps[n]] /\ \A n \in 1..many : ps[n] \in Slips
      BY <1>1, <1>4, <3>1
    <3>3. ps \in Seq(Slips) /\ Len(ps) = many
      BY ONLY <3>2
    <3> QED
      BY <3>1, <3>3
  <2> QED
    BY <1>1, <1>4, <2>1
<1>5. CASE v.page = "edit"
  <2>1. Result(v) = [settled EXCEPT ![v.own].sum = v.sum]
    BY <1>5 DEF Result
  <2> DEFINE ps == [settled EXCEPT ![v.own].sum = v.sum]
  <2>2. /\ DOMAIN ps = DOMAIN settled /\ ps = [n \in DOMAIN settled |-> ps[n]]
        /\ \A n \in DOMAIN settled : ps[n] \in Slips /\ ps[n].on = settled[n].on /\ ps[n].driver = settled[n].driver
    BY <1>1, <1>2 DEF Slips
  <2> HIDE DEF ps
  <2> QED
    BY <1>4, <2>1, <2>2 DEF ps
<1>6. CASE v.page = "restore"
  <2>1. Result(v) = [settled EXCEPT ![v.own].live = TRUE]
    BY <1>6 DEF Result
  <2> DEFINE ps == [settled EXCEPT ![v.own].live = TRUE]
  <2>2. /\ DOMAIN ps = DOMAIN settled /\ ps = [n \in DOMAIN settled |-> ps[n]]
        /\ \A n \in DOMAIN settled : ps[n] \in Slips /\ ps[n].on = settled[n].on /\ ps[n].driver = settled[n].driver
    BY <1>1 DEF Slips
  <2> HIDE DEF ps
  <2> QED
    BY <1>4, <2>1, <2>2 DEF ps
<1>7. CASE v.page = "entry"
  <2>1. Result(v) = Append(settled, Slip(v, settled, v.lines[1], v.sum))
    BY <1>7 DEF Result
  <2>2. v.lines \in Seq(PayLines) /\ 1 \in DOMAIN v.lines
    BY <1>2, <1>7 DEF SheetTyped, Sheets
  <2>3. v.lines[1] \in PayLines
    BY <2>2
  <2>4. /\ v.lines[1].on \in Nat /\ v.lines[1].sale \in Nat
        /\ LinesSound(v.lines, v.driver) => OnOwnRow(v.lines[1].on, v.driver)
    BY <2>2, <2>3 DEF PayLines, LinesSound
  <2>5. Added(settled, v.driver, LinesSound(v.lines, v.driver))
    BY <1>1 DEF Added
  <2>6. Added(Append(settled, Slip(v, settled, v.lines[1], v.sum)), v.driver, LinesSound(v.lines, v.driver))
    BY <1>2, <2>4, <2>5, AddedAppend
  <2> QED
    BY <1>3, <1>7, <2>1, <2>6
<1>8. CASE v.page \in {"driver", "accounts"}
  <2>1. Result(v) = Spread(v)
    BY <1>8 DEF Result
  <2>2. Added(Spread(v), v.driver, LinesSound(v.lines, v.driver))
    BY SpreadIsSound
  <2> QED
    BY <1>3, <1>8, <2>1, <2>2
<1> QED
  BY <1>2, <1>5, <1>6, <1>7, <1>8 DEF Sheets

\* A request writes: what makes a payment land on another driver's row is only a
\* change of the rows that crossed it.
LEMMA WriteIsSound ==
    ASSUME RentsInv, NEW c \in Clerks, Write(c)
    PROVE  RentsInv'
<1>1. RentsTyped /\ PaymentsTyped /\ VisitsTyped /\ RowsMatch /\ PaymentsOnOwnRows /\ VisitsOnOwnRows
  BY DEF RentsInv
<1>2. PICK v, ps, paid : v = visit[c] /\ ps = Result(v)
          /\ visit' = [After(paid, v.from, v.form) EXCEPT ![c] = Away]
  BY DEF Write
<1>3. /\ v.step = "ready" /\ settled' = ps
      /\ mishaps' = mishaps \cup (IF v.crossed THEN {"crossed"} ELSE {})
      /\ owing' = owing /\ share' = share /\ oldRent' = oldRent /\ row' = row
  BY <1>2 DEF Write
<1>4. SheetTyped(v) /\ v.own <= Len(settled)
  BY <1>1, <1>2, <1>3 DEF VisitsTyped, Away
<1>5. /\ ps \in Seq(Slips) /\ Len(ps) >= Len(settled)
      /\ \A n \in DOMAIN ps :
            \/ \E m \in DOMAIN settled : ps[n].on = settled[m].on /\ ps[n].driver = settled[m].driver
            \/ /\ v.page \in {"driver", "accounts", "entry"} /\ ps[n].driver = v.driver
               /\ LinesSound(v.lines, v.driver) => OnOwnRow(ps[n].on, v.driver)
  BY <1>1, <1>2, <1>4, ResultIsSound
<1>6. RentsTyped' /\ RowsMatch'
  <2>1. RentsTyped'
    BY <1>1, <1>3 DEF RentsTyped
  <2>2. RowsMatch'
    BY <1>1, <1>3 DEF RowsMatch, Matches, RowsOf
  <2> QED
    BY <2>1, <2>2
<1>7. PaymentsTyped'
  BY <1>3, <1>5 DEF PaymentsTyped
<1>8. PaymentsOnOwnRows'
  <2>1. ASSUME "crossed" \notin mishaps', NEW n \in DOMAIN ps PROVE OnOwnRow(ps[n].on, ps[n].driver)
    <3>1. "crossed" \notin mishaps /\ ~v.crossed
      BY <1>3, <2>1
    <3>2. CASE \E m \in DOMAIN settled : ps[n].on = settled[m].on /\ ps[n].driver = settled[m].driver
      BY <1>1, <3>1, <3>2 DEF PaymentsOnOwnRows
    <3>3. CASE /\ v.page \in {"driver", "accounts", "entry"} /\ ps[n].driver = v.driver
               /\ LinesSound(v.lines, v.driver) => OnOwnRow(ps[n].on, v.driver)
      <4>1. Relying(v)
        BY <1>3, <3>1, <3>3 DEF Relying
      <4>2. LinesSound(v.lines, v.driver)
        BY <1>1, <1>2, <4>1 DEF VisitsOnOwnRows, LinesSound
      <4> QED
        BY <3>3, <4>2
    <3> QED
      BY <1>5, <3>2, <3>3
  <2> QED
    BY <1>3, <2>1 DEF PaymentsOnOwnRows, OnOwnRow
<1>9. /\ DOMAIN visit' = Clerks /\ visit'[c] = Away
      /\ \A b \in Clerks \ {c} : visit'[b] = After(paid, v.from, v.form)[b]
  BY <1>2 DEF After
<1>10. ASSUME NEW b \in Clerks, visit'[b] # Away
       PROVE  /\ b # c /\ SheetTyped(visit[b]) /\ Marked(visit[b], visit'[b])
              /\ visit[b].own <= Len(settled)
  <2>1. b # c /\ visit'[b] = After(paid, v.from, v.form)[b]
    BY <1>9, <1>10
  <2>2. visit[b] # Away /\ SheetTyped(visit[b]) /\ Marked(visit[b], visit'[b])
    BY <1>1, <1>10, <2>1, AfterMarks
  <2> QED
    BY <1>1, <2>1, <2>2 DEF VisitsTyped
<1>11. VisitsTyped'
  <2>1. ASSUME NEW b \in Clerks, visit'[b] # Away
        PROVE  SheetTyped(visit'[b]) /\ visit'[b].own <= Len(settled')
    <3>1. SheetTyped(visit'[b]) /\ visit'[b].own = visit[b].own /\ visit[b].own <= Len(settled)
      BY <1>10, <2>1, MarkedIsTyped
    <3>2. visit[b].own \in Nat /\ Len(settled) \in Nat /\ Len(ps) \in Nat
      BY <1>1, <1>5, <1>10, <2>1 DEF SheetTyped, Sheets, PaymentsTyped
    <3> QED
      BY <1>3, <1>5, <3>1, <3>2
  <2> QED
    BY <1>9, <2>1 DEF VisitsTyped, SheetTyped
<1>12. VisitsOnOwnRows'
  <2>1. ASSUME NEW b \in Clerks, Relying(visit'[b]), NEW n \in DOMAIN visit'[b].lines
        PROVE  OnOwnRow(visit'[b].lines[n].on, visit'[b].driver)
    <3>1. visit'[b] # Away
      BY <2>1 DEF Relying, Away
    <3>2. /\ visit'[b].driver = visit[b].driver /\ visit'[b].lines = visit[b].lines /\ Relying(visit[b])
      BY <1>10, <2>1, <3>1, MarkedIsTyped
    <3> QED
      BY <1>1, <2>1, <3>2 DEF VisitsOnOwnRows
  <2> QED
    BY <1>3, <2>1 DEF VisitsOnOwnRows, OnOwnRow
<1> QED
  BY <1>6, <1>7, <1>8, <1>11, <1>12 DEF RentsInv

\* It holds at first ...
LEMMA RentsBeginSound == RentsInit => RentsInv
<1> SUFFICES ASSUME RentsInit PROVE RentsInv
  OBVIOUS
<1> USE DEF RentsInit
<1>1. /\ IsFiniteSet({}) /\ DOMAIN << >> = {} /\ << >> \in Seq(Slips)
      /\ << >> = [s \in DOMAIN << >> |-> << >>[s]]
  BY FS_EmptySet
<1>2. owing \in [Drivers -> Int]
  OBVIOUS
<1>3. oldRent = [s \in DOMAIN share |-> [driver |-> share[s][1].driver, sum |-> Rents(share[s])]]
  BY <1>1
<1>4. RentsTyped
  BY <1>1, <1>2, <1>3 DEF RentsTyped
<1>5. PaymentsTyped /\ RowsMatch /\ PaymentsOnOwnRows
  BY <1>1 DEF PaymentsTyped, RowsMatch, PaymentsOnOwnRows
<1>6. VisitsTyped
  BY DEF VisitsTyped
<1>7. VisitsOnOwnRows
  BY DEF VisitsOnOwnRows, Relying, Away
<1> QED
  BY <1>4, <1>5, <1>6, <1>7 DEF RentsInv

\* ... and every step keeps it.
LEMMA RentsStaySound == RentsInv /\ [RentsNext]_rentVars => RentsInv'
<1> SUFFICES ASSUME RentsInv, [RentsNext]_rentVars PROVE RentsInv'
  OBVIOUS
<1>1. CASE UNCHANGED rentVars
  <2>1. /\ owing' = owing /\ share' = share /\ oldRent' = oldRent /\ row' = row
        /\ settled' = settled /\ visit' = visit /\ mishaps' = mishaps
    BY <1>1 DEF rentVars
  <2>2. RentsTyped' /\ PaymentsTyped'
    BY <2>1 DEF RentsInv, RentsTyped, PaymentsTyped
  <2>3. VisitsTyped'
    BY <2>1 DEF RentsInv, VisitsTyped
  <2>4. RowsMatch'
    BY <2>1 DEF RentsInv, RowsMatch, Matches, RowsOf
  <2>5. PaymentsOnOwnRows' /\ VisitsOnOwnRows'
    BY <2>1 DEF RentsInv, PaymentsOnOwnRows, VisitsOnOwnRows, OnOwnRow
  <2> QED
    BY <2>2, <2>3, <2>4, <2>5 DEF RentsInv
<1>2. CASE \E s \in SaleDates : DeleteSale(s) \/ \E who \in Assignments : AddSale(s, who) \/ EditSale(s, who)
  BY <1>2, SaleIsSound, DeletedSaleIsSound
<1>3. CASE \/ \E i \in DOMAIN row : DeleteEntry(i)
           \/ \E d \in Drivers, n \in Openings : ChangeOpening(d, n)
           \/ \E n \in DOMAIN settled : VoidPayment(n)
  BY <1>3, RecordsAreSound
<1>4. ASSUME NEW c \in Clerks, LoadAccount(c) \/ Read(c) \/ Leave(c) PROVE RentsInv'
  BY <1>4, ReadIsSound
<1>5. ASSUME NEW c \in Clerks, Write(c) PROVE RentsInv'
  BY <1>5, WriteIsSound
<1>6. ASSUME NEW c \in Clerks,
             \/ \E n \in DOMAIN settled : OpenRestore(c, n) \/ \E sum \in Sums : OpenEdit(c, n, sum)
             \/ \E from \in Accounts \cup {Waived}, sum \in Sums, form \in Forms :
                   \/ \E d \in Drivers : \/ OpenDriverPage(c, d, from, sum, form)
                                         \/ OpenAccountsPage(c, d, from, sum, form)
                   \/ \E i \in DOMAIN row : OpenEntry(c, i, from, sum, form)
      PROVE  RentsInv'
  BY <1>6, BegunIsSound
<1> QED
  BY <1>1, <1>2, <1>3, <1>4, <1>5, <1>6 DEF RentsNext

\* Sales, rows, old rents, payments and requests stay well formed, however sales are
\* edited and deleted while settlements are under way.
THEOREM RentsTypedHolds == RentsSpec => [](RentsTyped /\ PaymentsTyped /\ VisitsTyped)
<1>1. RentsInv => RentsTyped /\ PaymentsTyped /\ VisitsTyped
  BY DEF RentsInv
<1> QED
  BY RentsBeginSound, RentsStaySound, <1>1, PTL DEF RentsSpec

\* What a driver is owed, from rows, old rents and payments that may name nothing, is
\* his opening and his part of the sales less what he was paid, and a payment stays
\* on a row of its own driver, unless a settlement was written that a change of its
\* rows crossed: for any sales, drivers, rents, forms and number of requests.
THEOREM OwedIsEarnedHolds == RentsSpec => []OwedIsEarned
<1>1. RentsInv => OwedIsEarned
  BY RowsGiveWhatIsOwed DEF RentsInv
<1> QED
  BY RentsBeginSound, RentsStaySound, <1>1, PTL DEF RentsSpec

---------------------------------------------------------------------------
(***************************************************************************)
(* A settlement stays within what is owed.  A request writes what it read  *)
(* earlier, so the invariant (RentsRead) says of every request that what   *)
(* it read is still so, unless another write crossed it, wrote its account *)
(* or was the same form.  A write marks all requests about the drivers it  *)
(* touches; of any other driver nothing is changed (Unmoved), so that what *)
(* is due on his rows stays and what he is owed does not fall.  The write  *)
(* itself goes line by line: no row is paid beyond its rent, the driver is *)
(* charged no more than has been paid, and while something is left nothing *)
(* is due on the rows already passed (Reached).                            *)
(***************************************************************************)

(***************************************************************************)
(* What a payment changes in a sum over the payments.                      *)
(***************************************************************************)

\* The sums of the payments "ns"
SumOf(ps, ns) == SumFunctionOnSet([n \in DOMAIN ps |-> ps[n].sum], ns)

\* Payments are finitely many, and have sums.
LEMMA PaymentsAreMany ==
    ASSUME NEW ps \in Seq(Slips)
    PROVE  /\ DOMAIN ps = 1..Len(ps) /\ Len(ps) \in Nat /\ IsFiniteSet(DOMAIN ps)
           /\ \A n \in DOMAIN ps : ps[n] \in Slips /\ ps[n].sum \in Int
<1>1. DOMAIN ps = 1..Len(ps) /\ Len(ps) \in Nat /\ \A n \in DOMAIN ps : ps[n] \in Slips
  OBVIOUS
<1>2. \A n \in DOMAIN ps : ps[n].sum \in Int
  BY <1>1 DEF Slips
<1> QED
  BY <1>1, <1>2, FS_Interval

LEMMA SumOfIsNumber ==
    ASSUME NEW ps \in Seq(Slips), NEW ns \in SUBSET DOMAIN ps
    PROVE  SumOf(ps, ns) \in Int
<1> DEFINE f == [n \in DOMAIN ps |-> ps[n].sum]
<1>1. IsFiniteSet(ns) /\ \A n \in ns : f[n] \in Int
  BY PaymentsAreMany, FS_Subset
<1> HIDE DEF f
<1>2. SumFunctionOnSet(f, ns) \in Int
  BY <1>1, SumType
<1> QED
  BY <1>2 DEF SumOf, f

\* Payments that agree have the same sum.
LEMMA SumOfSame ==
    ASSUME NEW ps \in Seq(Slips), NEW qs \in Seq(Slips), NEW ns,
           ns \subseteq DOMAIN ps, ns \subseteq DOMAIN qs, \A n \in ns : qs[n].sum = ps[n].sum
    PROVE  SumOf(qs, ns) = SumOf(ps, ns)
<1> DEFINE f == [n \in DOMAIN ps |-> ps[n].sum]
           h == [n \in DOMAIN qs |-> qs[n].sum]
<1>1. IsFiniteSet(ns) /\ \A n \in ns : f[n] \in Int /\ h[n] = f[n]
  BY PaymentsAreMany, FS_Subset
<1> HIDE DEF f, h
<1>2. SumFunctionOnSet(h, ns) = SumFunctionOnSet(f, ns)
  BY <1>1, SumSame
<1> QED
  BY <1>2 DEF SumOf, f, h

\* One payment more.
LEMMA SumOfOneMore ==
    ASSUME NEW ps \in Seq(Slips), NEW ns \in SUBSET DOMAIN ps, NEW n \in DOMAIN ps, n \notin ns
    PROVE  SumOf(ps, ns \cup {n}) = SumOf(ps, ns) + ps[n].sum
<1> DEFINE f == [k \in DOMAIN ps |-> ps[k].sum]
           S == ns \cup {n}
<1>1. S \subseteq DOMAIN ps
  OBVIOUS
<1>2. IsFiniteSet(S) /\ n \in S /\ S \ {n} = ns /\ (\A k \in S : f[k] \in Int) /\ f[n] = ps[n].sum
  BY <1>1, PaymentsAreMany, FS_Subset
<1> HIDE DEF f, S
<1>3. SumFunctionOnSet(f, S) = f[n] + SumFunctionOnSet(f, S \ {n})
  BY <1>2, SumRemove
<1>4. SumFunctionOnSet(f, S \ {n}) \in Int /\ f[n] \in Int
  <2>1. IsFiniteSet(S \ {n})
    BY <1>2, FS_Subset
  <2> QED
    BY <1>2, <2>1, SumType
<1>5. SumOf(ps, S) = SumFunctionOnSet(f, S) /\ SumOf(ps, ns) = SumFunctionOnSet(f, ns)
  BY DEF SumOf, f
<1>6. SumFunctionOnSet(f, S) = SumFunctionOnSet(f, ns) + ps[n].sum
  <2>1. PICK rest : rest = SumFunctionOnSet(f, S \ {n})
    OBVIOUS
  <2>2. f[n] + rest = rest + f[n]
    BY <1>4, <2>1
  <2> QED
    BY <1>2, <1>3, <2>1, <2>2
<1> QED
  BY <1>5, <1>6 DEF S

\* Fewer payments are less, when none is negative.
LEMMA SumOfFewer ==
    ASSUME NEW ps \in Seq(Slips), NEW ns \in SUBSET DOMAIN ps, NEW ms \in SUBSET ns,
           \A n \in ns : ps[n].sum \in Nat
    PROVE  SumOf(ps, ms) <= SumOf(ps, ns)
<1> DEFINE f == [n \in DOMAIN ps |-> ps[n].sum]
<1>1. IsFiniteSet(ns) /\ (\A n \in ns : f[n] \in Nat) /\ (\A n \in ns : f[n] \in Int)
  BY PaymentsAreMany, FS_Subset
<1> HIDE DEF f
<1>2. SumFunctionOnSet(f, ns) = SumFunctionOnSet(f, ms) + SumFunctionOnSet(f, ns \ ms)
  BY <1>1, SumSplit
<1>3. SumFunctionOnSet(f, ns \ ms) \in Nat /\ SumFunctionOnSet(f, ms) \in Int
  <2>1. IsFiniteSet(ns \ ms) /\ IsFiniteSet(ms)
    BY <1>1, FS_Subset
  <2>2. (\A n \in ns \ ms : f[n] \in Nat) /\ \A n \in ms : f[n] \in Int
    BY <1>1
  <2> QED
    BY <2>1, <2>2, SumType
<1>4. SumFunctionOnSet(f, ms) <= SumFunctionOnSet(f, ns)
  BY <1>2, <1>3
<1> QED
  BY <1>4 DEF SumOf, f

\* A payment appended.
LEMMA AppendedSlip ==
    ASSUME NEW ps \in Seq(Slips), NEW slip \in Slips
    PROVE  /\ Append(ps, slip) \in Seq(Slips) /\ Len(Append(ps, slip)) = Len(ps) + 1
           /\ DOMAIN Append(ps, slip) = DOMAIN ps \cup {Len(ps) + 1} /\ Len(ps) + 1 \notin DOMAIN ps
           /\ \A n \in DOMAIN ps : Append(ps, slip)[n] = ps[n]
           /\ Append(ps, slip)[Len(ps) + 1] = slip
OBVIOUS

LEMMA SumOfAppended ==
    ASSUME NEW ps \in Seq(Slips), NEW slip \in Slips, NEW ns \in SUBSET DOMAIN ps
    PROVE  /\ SumOf(Append(ps, slip), ns) = SumOf(ps, ns)
           /\ SumOf(Append(ps, slip), ns \cup {Len(ps) + 1}) = SumOf(ps, ns) + slip.sum
<1>1. PICK qs : qs = Append(ps, slip)
  OBVIOUS
<1>2. /\ qs \in Seq(Slips) /\ ns \subseteq DOMAIN ps /\ ns \subseteq DOMAIN qs
      /\ Len(ps) + 1 \in DOMAIN qs /\ Len(ps) + 1 \notin ns /\ qs[Len(ps) + 1] = slip
      /\ \A n \in ns : qs[n] = ps[n]
  BY <1>1, AppendedSlip
<1>3. SumOf(qs, ns) = SumOf(ps, ns)
  BY <1>2, SumOfSame
<1>4. SumOf(qs, ns \cup {Len(ps) + 1}) = SumOf(qs, ns) + slip.sum
  BY <1>2, SumOfOneMore
<1> QED
  BY <1>1, <1>3, <1>4

\* The payments on a line, and what is due on it without them
OnLine(p, line) ==
    /\ p.live /\ p.on = line.on
    /\ line.on = 0 => p.driver = line.driver /\ p.sale = line.sale
PaidOn(line, ps, own) == {n \in DOMAIN ps \ {own} : OnLine(ps[n], line)}

LEMMA DueIsRest ==
    ASSUME NEW line, NEW ps, NEW own
    PROVE  Due(line, ps, own) = line.rent - SumOf(ps, PaidOn(line, ps, own))
BY DEF Due, PaidOn, OnLine, SumOf

LEMMA DueOfAppended ==
    ASSUME NEW line, line.rent \in Int, NEW ps \in Seq(Slips), NEW slip \in Slips
    PROVE  Due(line, Append(ps, slip), 0)
              = IF OnLine(slip, line) THEN Due(line, ps, 0) - slip.sum ELSE Due(line, ps, 0)
<1> DEFINE A == PaidOn(line, ps, 0)
<1>1. PICK qs : qs = Append(ps, slip)
  OBVIOUS
<1>2. /\ A \subseteq DOMAIN ps /\ 0 \notin DOMAIN ps
      /\ DOMAIN qs = DOMAIN ps \cup {Len(ps) + 1} /\ Len(ps) + 1 \notin DOMAIN ps /\ Len(ps) + 1 # 0
      /\ qs[Len(ps) + 1] = slip /\ \A n \in DOMAIN ps : qs[n] = ps[n]
  <2>1. Len(ps) + 1 # 0 /\ 0 \notin DOMAIN ps
    OBVIOUS
  <2> QED
    BY <1>1, <2>1, AppendedSlip DEF PaidOn
<1>3. PaidOn(line, qs, 0) = IF OnLine(slip, line) THEN A \cup {Len(ps) + 1} ELSE A
  <2> DEFINE last == Len(ps) + 1
  <2>1. \A n \in DOMAIN qs : n \in PaidOn(line, qs, 0) <=> OnLine(qs[n], line)
    BY <1>2 DEF PaidOn
  <2>2. \A n \in DOMAIN ps : n \in A <=> OnLine(ps[n], line)
    BY <1>2 DEF PaidOn
  <2>3. PaidOn(line, qs, 0) \subseteq DOMAIN qs
    BY DEF PaidOn
  <2> HIDE DEF last, A
  <2> QED
    BY <1>2, <2>1, <2>2, <2>3 DEF last
<1> HIDE DEF A
<1>4. /\ SumOf(qs, A) = SumOf(ps, A) /\ SumOf(qs, A \cup {Len(ps) + 1}) = SumOf(ps, A) + slip.sum
      /\ SumOf(ps, A) \in Int /\ slip.sum \in Int
  <2>1. slip.sum \in Int
    BY DEF Slips
  <2> QED
    BY <1>1, <1>2, <2>1, SumOfAppended, SumOfIsNumber
<1>5. Due(line, qs, 0) = line.rent - SumOf(qs, PaidOn(line, qs, 0)) /\ Due(line, ps, 0) = line.rent - SumOf(ps, A)
  BY DueIsRest DEF A
<1>6. CASE OnLine(slip, line)
  <2>1. Due(line, qs, 0) = line.rent - (SumOf(ps, A) + slip.sum)
    BY <1>3, <1>4, <1>5, <1>6
  <2> QED
    BY <1>1, <1>4, <1>5, <1>6, <2>1
<1>7. CASE ~OnLine(slip, line)
  BY <1>1, <1>3, <1>4, <1>5, <1>7
<1> QED
  BY <1>6, <1>7

\* What is due with a payment, and without it.
LEMMA DueWithOwn ==
    ASSUME NEW line, line.rent \in Int, NEW ps \in Seq(Slips), NEW own \in DOMAIN ps
    PROVE  Due(line, ps, 0) = IF OnLine(ps[own], line) THEN Due(line, ps, own) - ps[own].sum
                              ELSE Due(line, ps, own)
<1> DEFINE A == PaidOn(line, ps, own)
           B == PaidOn(line, ps, 0)
<1>1. A \subseteq DOMAIN ps /\ own \notin A /\ 0 \notin DOMAIN ps
  BY DEF PaidOn
<1>2. B = IF OnLine(ps[own], line) THEN A \cup {own} ELSE A
  BY <1>1 DEF PaidOn
<1> HIDE DEF A, B
<1>3. SumOf(ps, A \cup {own}) = SumOf(ps, A) + ps[own].sum /\ SumOf(ps, A) \in Int /\ ps[own].sum \in Int
  BY <1>1, SumOfOneMore, SumOfIsNumber, PaymentsAreMany
<1>4. Due(line, ps, 0) = line.rent - SumOf(ps, B) /\ Due(line, ps, own) = line.rent - SumOf(ps, A)
  BY DueIsRest DEF A, B
<1> QED
  BY <1>2, <1>3, <1>4

\* The same payments on a line leave the same due.
SamePaid(line, ps, qs, own) ==
    /\ \A n \in DOMAIN ps \ {own} : OnLine(ps[n], line) =>
          n \in DOMAIN qs /\ OnLine(qs[n], line) /\ qs[n].sum = ps[n].sum
    /\ \A n \in DOMAIN qs \ {own} : OnLine(qs[n], line) => n \in DOMAIN ps /\ OnLine(ps[n], line)

LEMMA DueOfSame ==
    ASSUME NEW line, NEW ps \in Seq(Slips), NEW qs \in Seq(Slips), NEW own, SamePaid(line, ps, qs, own)
    PROVE  Due(line, qs, own) = Due(line, ps, own)
<1> DEFINE A == PaidOn(line, ps, own)
<1>1. A = PaidOn(line, qs, own)
  BY DEF PaidOn, SamePaid
<1>2. A \subseteq DOMAIN ps /\ A \subseteq DOMAIN qs /\ \A n \in A : qs[n].sum = ps[n].sum
  BY DEF PaidOn, SamePaid
<1> HIDE DEF A
<1>3. SumOf(qs, A) = SumOf(ps, A)
  BY <1>2, SumOfSame
<1>4. Due(line, qs, own) = line.rent - SumOf(qs, A) /\ Due(line, ps, own) = line.rent - SumOf(ps, A)
  BY <1>1, DueIsRest DEF A
<1> QED
  BY <1>3, <1>4

\* What a driver is owed: his worth less the payments that are charged to him.
Worth(d) ==
    owing[d]
    + SumFunctionOnSet([i \in DOMAIN row |-> row[i].rent], LiveRows(d))
    + SumFunctionOnSet([s \in DOMAIN oldRent |-> oldRent[s].sum], Uncovered(d))
Charged(d, ps, own) == {n \in DOMAIN ps \ {own} : ps[n].driver = d /\ InForce(ps[n])}

LEMMA OwedIsRest ==
    ASSUME RentsTyped, PaymentsTyped, NEW d \in Drivers, NEW own
    PROVE  /\ Worth(d) \in Int /\ SumOf(settled, Charged(d, settled, own)) \in Int
           /\ Owed(d, own) = Worth(d) - SumOf(settled, Charged(d, settled, own))
<1> DEFINE f == [i \in DOMAIN row |-> row[i].rent]
           g == [s \in DOMAIN oldRent |-> oldRent[s].sum]
           paid == SumFunctionOnSet([n \in DOMAIN settled |-> settled[n].sum],
                       {n \in DOMAIN settled \ {own} : settled[n].driver = d /\ InForce(settled[n])})
<1>1. owing[d] \in Int
  BY DEF RentsTyped
<1>2. IsFiniteSet(LiveRows(d)) /\ \A i \in LiveRows(d) : f[i] \in Int
  <2>1. LiveRows(d) \subseteq DOMAIN row /\ IsFiniteSet(DOMAIN row)
    BY DEF LiveRows, RentsTyped
  <2>2. \A i \in DOMAIN row : row[i].rent \in Int
    BY DEF RentsTyped, RentRows
  <2> QED
    BY <2>1, <2>2, FS_Subset
<1>3. IsFiniteSet(Uncovered(d)) /\ \A s \in Uncovered(d) : g[s] \in Int
  <2>1. Uncovered(d) \subseteq DOMAIN oldRent /\ DOMAIN oldRent = DOMAIN share /\ IsFiniteSet(DOMAIN share)
    BY DEF Uncovered, RentsTyped
  <2>2. \A s \in DOMAIN oldRent : oldRent[s].sum \in Int
    BY <2>1, RentsAreNumbers DEF RentsTyped
  <2> QED
    BY <2>1, <2>2, FS_Subset
<1>4. SumOf(settled, Charged(d, settled, own)) = paid
  BY DEF SumOf, Charged
<1>5. SumOf(settled, Charged(d, settled, own)) \in Int
  BY SumOfIsNumber DEF PaymentsTyped, Charged
<1>6. /\ Worth(d) = owing[d] + SumFunctionOnSet(f, LiveRows(d)) + SumFunctionOnSet(g, Uncovered(d))
      /\ Owed(d, own) = owing[d] + SumFunctionOnSet(f, LiveRows(d)) + (SumFunctionOnSet(g, Uncovered(d)) - paid)
  BY DEF Worth, Owed
<1> HIDE DEF f, g, paid
<1>7. SumFunctionOnSet(f, LiveRows(d)) \in Int /\ SumFunctionOnSet(g, Uncovered(d)) \in Int
  BY <1>2, <1>3, SumType
<1> QED
  BY <1>1, <1>4, <1>5, <1>6, <1>7

OwedRight(d, own) ==
    /\ Worth(d) \in Int /\ SumOf(settled, Charged(d, settled, own)) \in Int
    /\ Owed(d, own) = Worth(d) - SumOf(settled, Charged(d, settled, own))
OwedRightAlways == \A d \in Drivers : \A own : OwedRight(d, own)
LEMMA OwedIsAlwaysRest == RentsTyped /\ PaymentsTyped => OwedRightAlways
BY OwedIsRest DEF OwedRight, OwedRightAlways

\* A payment appended is charged to the driver, or not.
LEMMA ChargedAppended ==
    ASSUME NEW d, NEW ps \in Seq(Slips), NEW slip \in Slips, slip.sum \in Nat
    PROVE  SumOf(Append(ps, slip), Charged(d, Append(ps, slip), 0)) <= SumOf(ps, Charged(d, ps, 0)) + slip.sum
<1> DEFINE A == Charged(d, ps, 0)
<1>1. PICK qs : qs = Append(ps, slip)
  OBVIOUS
<1>2. /\ A \subseteq DOMAIN ps /\ 0 \notin DOMAIN ps
      /\ DOMAIN qs = DOMAIN ps \cup {Len(ps) + 1} /\ Len(ps) + 1 \notin DOMAIN ps
      /\ \A n \in DOMAIN ps : qs[n] = ps[n]
  <2>1. 0 \notin DOMAIN ps
    OBVIOUS
  <2> QED
    BY <1>1, <2>1, AppendedSlip DEF Charged
<1>3. Charged(d, qs, 0) = A \/ Charged(d, qs, 0) = A \cup {Len(ps) + 1}
  <2> DEFINE last == Len(ps) + 1
             B == Charged(d, qs, 0)
  <2>1. B \subseteq DOMAIN qs /\ \A n \in DOMAIN ps : n \in B <=> n \in A
    BY <1>2 DEF Charged
  <2> HIDE DEF last, A, B
  <2>2. B = A \/ B = A \cup {last}
    BY <1>2, <2>1 DEF last
  <2> QED
    BY <2>2 DEF last, A, B
<1> HIDE DEF A
<1>4. /\ SumOf(qs, A) = SumOf(ps, A) /\ SumOf(qs, A \cup {Len(ps) + 1}) = SumOf(ps, A) + slip.sum
      /\ SumOf(ps, A) \in Int
  BY <1>1, <1>2, SumOfAppended, SumOfIsNumber
<1>5. SumOf(qs, Charged(d, qs, 0)) <= SumOf(ps, A) + slip.sum
  <2>1. SumOf(qs, A) <= SumOf(ps, A) + slip.sum
    BY <1>4
  <2>2. SumOf(qs, A \cup {Len(ps) + 1}) <= SumOf(ps, A) + slip.sum
    <3>1. slip.sum \in Int
      OBVIOUS
    <3> QED
      BY <1>4, <3>1
  <2>3. CASE Charged(d, qs, 0) = A
    BY <2>1, <2>3
  <2>4. CASE Charged(d, qs, 0) = A \cup {Len(ps) + 1}
    BY <2>2, <2>4
  <2> QED
    BY <1>3, <2>3, <2>4
<1> QED
  BY <1>1, <1>5 DEF A

\* What is charged to a driver with a payment is at most that much more than without it.
LEMMA ChargedWithOwn ==
    ASSUME NEW d, NEW ps \in Seq(Slips), NEW own \in DOMAIN ps, ps[own].sum \in Nat
    PROVE  SumOf(ps, Charged(d, ps, 0)) <= SumOf(ps, Charged(d, ps, own)) + ps[own].sum
<1> DEFINE A == Charged(d, ps, own)
<1>1. A \subseteq DOMAIN ps /\ own \notin A /\ 0 \notin DOMAIN ps
  BY DEF Charged
<1>2. Charged(d, ps, 0) = A \/ Charged(d, ps, 0) = A \cup {own}
  BY <1>1 DEF Charged
<1> HIDE DEF A
<1>3. SumOf(ps, A \cup {own}) = SumOf(ps, A) + ps[own].sum /\ SumOf(ps, A) \in Int
  BY <1>1, SumOfOneMore, SumOfIsNumber
<1>4. SumOf(ps, Charged(d, ps, 0)) <= SumOf(ps, A) + ps[own].sum
  <2>1. SumOf(ps, A) <= SumOf(ps, A) + ps[own].sum
    BY <1>3
  <2>2. SumOf(ps, A \cup {own}) <= SumOf(ps, A) + ps[own].sum
    <3>1. ps[own].sum \in Int
      OBVIOUS
    <3> QED
      BY <1>3, <3>1
  <2>3. CASE Charged(d, ps, 0) = A
    BY <2>1, <2>3
  <2>4. CASE Charged(d, ps, 0) = A \cup {own}
    BY <2>2, <2>4
  <2> QED
    BY <1>2, <2>3, <2>4
<1> QED
  BY <1>4 DEF A

(***************************************************************************)
(* A driver nobody touches: what a request read of him is still so.        *)
(***************************************************************************)

\* Payments are on rows, or on none, and take nothing back.
PaymentsOnRows == \A n \in DOMAIN settled : settled[n].on \in DOMAIN row \cup {0} /\ settled[n].sum \in Nat

\* What a request was filled in with.
FilledIn(v) ==
    /\ v.own = 0 => v.form \in Forms
    /\ v.own # 0 => /\ v.form = "none" /\ settled[v.own].driver = v.driver
                    /\ v.lines = Line(settled[v.own])
    /\ v.page # "restore" => v.sum \in Nat \ {0}
    /\ v.step = "read" => v.page = "driver"

\* What a request read is still so, unless another one crossed it, wrote its account
\* or was the same form.
Uncrossed(v) == ~v.crossed /\ ~v.stale /\ (v.own = 0 => Unused(v.form))
EntryStillSo(v) ==
    /\ v.lines[1].on \in LiveRows(v.driver) /\ v.lines[1] = RowLine(v.lines[1].on)
    /\ v.step = "ready" => v.sum <= Due(v.lines[1], settled, 0) /\ v.sum <= Owed(v.driver, 0)
ListStillSo(v) == Listed(v) = v /\ v.sum <= Owed(v.driver, 0)
ChangeStillSo(v) ==
    /\ v.page = "edit" => v.sum <= Owed(v.driver, v.own)
    /\ \A n \in DOMAIN v.lines :
          v.lines[n].on \in LiveRows(v.driver) => v.sum <= Due(v.lines[n], settled, v.own)
StillSo(v) ==
    Uncrossed(v) =>
        /\ v.page = "entry" => EntryStillSo(v)
        /\ v.page \in {"driver", "accounts"} /\ v.step # "loaded" => ListStillSo(v)
        /\ v.own # 0 /\ v.step = "ready" => ChangeStillSo(v)

RentsRead ==
    /\ RentsInv /\ PaymentsOnRows
    /\ \A c \in Clerks : visit[c] # Away => FilledIn(visit[c]) /\ StillSo(visit[c])

\* No payment is taken off its row, and no row that has one is replaced or revived.
KeepsPayments ==
    /\ DOMAIN settled \subseteq DOMAIN settled'
    /\ \A n \in DOMAIN settled : /\ settled'[n].driver = settled[n].driver /\ settled'[n].on = settled[n].on
                                 /\ settled'[n].form = settled[n].form
    /\ \A n \in DOMAIN settled : settled[n].on \in DOMAIN row =>
          /\ settled[n].on \in DOMAIN row'
          /\ row'[settled[n].on].sale = row[settled[n].on].sale
          /\ row'[settled[n].on].driver = row[settled[n].on].driver
          /\ row'[settled[n].on].rent = row[settled[n].on].rent
          /\ row'[settled[n].on].live => row[settled[n].on].live

\* Nothing of the driver is changed: his opening, his rows, the old rents under his
\* name, the payments to him or on his rows.
OldRents(d) == {s \in DOMAIN oldRent : oldRent[s].driver = d}
Aside(p, d) == p.driver # d /\ p.on \notin LiveRows(d)
Unmoved(d) ==
    /\ owing'[d] = owing[d]
    /\ LiveRows(d)' = LiveRows(d) /\ \A i \in LiveRows(d) : row'[i] = row[i]
    /\ OldRents(d)' = OldRents(d) /\ \A s \in OldRents(d) : oldRent'[s] = oldRent[s]
    /\ \A n \in DOMAIN settled' : \/ n \in DOMAIN settled /\ settled'[n] = settled[n]
                                  \/ Aside(settled'[n], d)

\* What is due on his lines stays.
OfDriver(line, d) == line.on \in LiveRows(d) \/ (line.on = 0 /\ line.driver = d)

LEMMA UnmovedDue ==
    ASSUME PaymentsTyped, PaymentsTyped', KeepsPayments, NEW d, Unmoved(d), NEW line, OfDriver(line, d), NEW own
    PROVE  Due(line, settled', own) = Due(line, settled, own)
<1>1. PICK ps, qs, his : ps = settled /\ qs = settled' /\ his = LiveRows(d)
  OBVIOUS
<1>2. ps \in Seq(Slips) /\ qs \in Seq(Slips)
  BY <1>1 DEF PaymentsTyped
<1>3. \A n \in DOMAIN ps : n \in DOMAIN qs /\ qs[n].driver = ps[n].driver /\ qs[n].on = ps[n].on
  BY <1>1 DEF KeepsPayments
<1>4. \A n \in DOMAIN qs : \/ n \in DOMAIN ps /\ qs[n] = ps[n]
                           \/ qs[n].driver # d /\ qs[n].on \notin his
  BY <1>1 DEF Unmoved, Aside
<1>5. line.on \in his \/ (line.on = 0 /\ line.driver = d)
  BY <1>1 DEF OfDriver
<1>6. SamePaid(line, ps, qs, own)
  BY ONLY <1>3, <1>4, <1>5 DEF SamePaid, OnLine
<1> QED
  BY <1>1, <1>2, <1>6, DueOfSame

\* What he is owed does not fall.
LEMMA UnmovedWorth ==
    ASSUME RentsTyped, RentsTyped', NEW d \in Drivers, Unmoved(d)
    PROVE  Worth(d)' = Worth(d)
<1> DEFINE f == [i \in DOMAIN row |-> row[i].rent]
           h == [i \in DOMAIN row' |-> row'[i].rent]
           g == [s \in DOMAIN oldRent |-> oldRent[s].sum]
           k == [s \in DOMAIN oldRent' |-> oldRent'[s].sum]
<1>1. PICK R, U : R = LiveRows(d) /\ U = Uncovered(d)
  OBVIOUS
<1>2. LiveRows(d)' = R /\ R \subseteq DOMAIN row /\ R \subseteq DOMAIN row' /\ \A i \in R : row'[i] = row[i]
  BY <1>1 DEF Unmoved, LiveRows
<1>3. \A s : s \in Uncovered(d) <=> s \in OldRents(d) /\ \A i \in LiveRows(d) : row[i].sale # s
  BY DEF Uncovered, OldRents
<1>4. \A s : s \in Uncovered(d)' <=> s \in OldRents(d)' /\ \A i \in R : row'[i].sale # s
  BY <1>2 DEF Uncovered, OldRents
<1>5. /\ Uncovered(d)' = U /\ U \subseteq DOMAIN oldRent /\ U \subseteq DOMAIN oldRent'
      /\ \A s \in U : oldRent'[s] = oldRent[s]
  <2>1. \A s : s \in Uncovered(d)' <=> s \in Uncovered(d)
    BY <1>1, <1>2, <1>3, <1>4 DEF Unmoved
  <2>2. U \subseteq DOMAIN oldRent /\ U \subseteq OldRents(d)
    BY <1>1, <1>3 DEF Uncovered
  <2>3. \A s \in OldRents(d) : s \in DOMAIN oldRent' /\ oldRent'[s] = oldRent[s]
    BY DEF Unmoved, OldRents
  <2>4. Uncovered(d)' = U
    <3>1. Uncovered(d)' \subseteq DOMAIN oldRent' /\ Uncovered(d) \subseteq DOMAIN oldRent
      BY DEF Uncovered
    <3> QED
      BY <1>1, <2>1
  <2> QED
    BY <2>2, <2>3, <2>4
<1>6. IsFiniteSet(R) /\ \A i \in R : f[i] \in Int /\ h[i] = f[i]
  <2>1. \A i \in DOMAIN row : row[i].rent \in Int
    BY DEF RentsTyped, RentRows
  <2> QED
    BY <1>2, <2>1, FS_Subset DEF RentsTyped
<1>7. IsFiniteSet(U) /\ \A s \in U : g[s] \in Int /\ k[s] = g[s]
  <2>1. DOMAIN oldRent = DOMAIN share /\ \A s \in DOMAIN oldRent : oldRent[s].sum \in Int
    BY RentsAreNumbers DEF RentsTyped
  <2> QED
    BY <1>5, <2>1, FS_Subset DEF RentsTyped
<1>8. /\ Worth(d) = owing[d] + SumFunctionOnSet(f, R) + SumFunctionOnSet(g, U)
      /\ Worth(d)' = owing'[d] + SumFunctionOnSet(h, R) + SumFunctionOnSet(k, U)
  BY <1>1, <1>2, <1>5 DEF Worth
<1> HIDE DEF f, g, h, k
<1>9. SumFunctionOnSet(h, R) = SumFunctionOnSet(f, R) /\ SumFunctionOnSet(k, U) = SumFunctionOnSet(g, U)
  BY <1>6, <1>7, SumSame
<1> QED
  BY <1>8, <1>9 DEF Unmoved

LEMMA UnmovedOwed ==
    ASSUME RentsTyped, RentsTyped', PaymentsTyped, PaymentsTyped', PaymentsOnRows, KeepsPayments,
           NEW d \in Drivers, Unmoved(d), NEW own
    PROVE  Owed(d, own) <= Owed(d, own)' /\ Owed(d, own) \in Int /\ Owed(d, own)' \in Int
<1>1. PICK A, B : A = Charged(d, settled, own) /\ B = Charged(d, settled, own)'
  OBVIOUS
<1>2. A \subseteq DOMAIN settled /\ \A n \in A : settled[n].sum \in Nat
  BY <1>1 DEF Charged, PaymentsOnRows
<1>3. \A n \in B : n \in A /\ n \in DOMAIN settled' /\ settled'[n] = settled[n]
  <2> SUFFICES ASSUME NEW n \in B PROVE n \in A /\ n \in DOMAIN settled' /\ settled'[n] = settled[n]
    OBVIOUS
  <2>1. n \in DOMAIN settled' \ {own} /\ settled'[n].driver = d /\ InForce(settled[n])'
    BY <1>1 DEF Charged
  <2>2. n \in DOMAIN settled /\ settled'[n] = settled[n]
    BY <2>1 DEF Unmoved, Aside
  <2>3. PICK p : p = settled[n]
    OBVIOUS
  <2>4. p.live /\ (p.on \in DOMAIN row' => row'[p.on].live)
    BY <2>1, <2>2, <2>3 DEF InForce
  <2>5. p.on \in DOMAIN row => p.on \in DOMAIN row' /\ (row'[p.on].live => row[p.on].live)
    BY <2>2, <2>3 DEF KeepsPayments
  <2>6. InForce(settled[n])
    BY <2>3, <2>4, <2>5 DEF InForce
  <2> QED
    BY <1>1, <2>1, <2>2, <2>6 DEF Charged
<1>4. SumOf(settled', B) = SumOf(settled, B) /\ SumOf(settled, B) <= SumOf(settled, A)
  <2>1. PICK ps, qs : ps = settled /\ qs = settled'
    OBVIOUS
  <2>2. ps \in Seq(Slips) /\ qs \in Seq(Slips)
    BY <2>1 DEF PaymentsTyped
  <2>3. SumOf(qs, B) = SumOf(ps, B)
    BY <1>2, <1>3, <2>1, <2>2, SumOfSame
  <2>4. SumOf(ps, B) <= SumOf(ps, A)
    BY <1>2, <1>3, <2>1, <2>2, SumOfFewer
  <2> QED
    BY <2>1, <2>3, <2>4
<1>5. /\ Worth(d) \in Int /\ SumOf(settled, A) \in Int
      /\ Owed(d, own) = Worth(d) - SumOf(settled, A)
  BY <1>1, OwedIsRest
<1>6. /\ SumOf(settled', B) \in Int
      /\ Owed(d, own)' = Worth(d)' - SumOf(settled', B)
  <2>1. OwedRightAlways'
    BY OwedIsAlwaysRest, PTL
  <2> QED
    BY <1>1, <2>1 DEF OwedRightAlways, OwedRight
<1>7. Worth(d)' = Worth(d)
  BY UnmovedWorth
<1> QED
  BY <1>4, <1>5, <1>6, <1>7

\* The old rents are listed under the name of the driver.
LEMMA OldLinesAreHis ==
    ASSUME RentsTyped, NEW d \in Drivers, NEW lines
    PROVE  \A n \in DOMAIN OldLines(d, lines) : OldLines(d, lines)[n].driver = d
<1> DEFINE S == {t \in DOMAIN oldRent : /\ oldRent[t].driver = d
                                        /\ \A n \in DOMAIN lines : lines[n].sale # t}
           line(s) == [on |-> 0, sale |-> s, driver |-> d, rent |-> oldRent[s].sum]
           L == {line(s) : s \in S}
<1>1. IsFiniteSet(S) /\ S \subseteq Nat
  <2>1. DOMAIN oldRent = DOMAIN share
    BY DEF RentsTyped
  <2> QED
    BY <2>1, FS_Subset DEF RentsTyped
<1>2. IsFiniteSet(L)
  <2> DEFINE f == [s \in S |-> line(s)]
  <2>1. f \in Surjection(S, L)
    <3> HIDE DEF S
    <3> QED
      BY DEF Surjection
  <2> HIDE DEF L, f, S
  <2> QED
    BY <1>1, <2>1, FS_Surjection
<1>3. (\A l \in L : l.driver = d) /\ LinesApart(L)
  <2>1. \A s \in S : s \in Nat
    BY <1>1
  <2> HIDE DEF S
  <2>2. \A l \in L : l.sale \in S /\ l = line(l.sale)
    OBVIOUS
  <2>3. \A s : line(s).on = 0 /\ line(s).driver = d
    OBVIOUS
  <2> HIDE DEF L, line
  <2>4. \A l \in L : l.on = 0 /\ l.driver = d /\ l.sale \in Nat
    BY <2>1, <2>2, <2>3
  <2>5. \A k, l \in L : k.sale = l.sale => k = l
    BY <2>2
  <2> QED
    BY <2>4, <2>5 DEF LinesApart
<1>4. OldLines(d, lines) = InOrder(L)
  BY DEF OldLines
<1> HIDE DEF L
<1>5. OldLines(d, lines) \in Seq(L)
  BY <1>2, <1>3, <1>4, InOrderListsAll
<1>6. \A n \in DOMAIN OldLines(d, lines) : OldLines(d, lines)[n] \in L
  BY <1>5
<1> QED
  BY <1>3, <1>6

\* The lines of a request: the rows of its driver, and old rents of his.
LinesOf(d) == RowLines(d) \o OldLines(d, RowLines(d))

LEMMA LinesAreHis ==
    ASSUME RentsTyped, NEW d \in Drivers
    PROVE  /\ LinesOf(d) \in Seq(PayLines) /\ RowLines(d) \in Seq(PayLines)
           /\ \A n \in DOMAIN LinesOf(d) : OfDriver(LinesOf(d)[n], d)
<1>1. PICK p, q : p = RowLines(d) /\ q = OldLines(d, RowLines(d))
  OBVIOUS
<1>2. /\ p \in Seq(PayLines) /\ \A n \in DOMAIN p : p[n].on \in LiveRows(d)
      /\ q \in Seq(PayLines) /\ \A n \in DOMAIN q : q[n].on = 0 /\ q[n].driver = d
  BY <1>1, RowLinesAreRows, OldLinesNameNone, OldLinesAreHis
<1>3. /\ p \o q \in Seq(PayLines) /\ DOMAIN (p \o q) = 1..(Len(p) + Len(q))
      /\ Len(p) \in Nat /\ Len(q) \in Nat /\ DOMAIN p = 1..Len(p) /\ DOMAIN q = 1..Len(q)
      /\ \A n \in DOMAIN (p \o q) : (p \o q)[n] = IF n <= Len(p) THEN p[n] ELSE q[n - Len(p)]
  BY <1>2
<1>4. ASSUME NEW n \in DOMAIN (p \o q) PROVE OfDriver((p \o q)[n], d)
  <2>1. CASE n <= Len(p)
    <3>1. n \in DOMAIN p /\ (p \o q)[n] = p[n]
      BY <1>3, <2>1
    <3> QED
      BY <1>2, <3>1 DEF OfDriver
  <2>2. CASE ~(n <= Len(p))
    <3>1. n - Len(p) \in DOMAIN q /\ (p \o q)[n] = q[n - Len(p)]
      BY <1>3, <2>2
    <3> QED
      BY <1>2, <3>1 DEF OfDriver
  <2> QED
    BY <2>1, <2>2
<1>5. LinesOf(d) = p \o q
  BY <1>1 DEF LinesOf
<1> QED
  BY <1>1, <1>2, <1>3, <1>4, <1>5

\* They are listed again as they were.
LEMMA UnmovedLines ==
    ASSUME NEW d, Unmoved(d)
    PROVE  RowLines(d)' = RowLines(d) /\ LinesOf(d)' = LinesOf(d)
<1>1. RowLines(d)' = RowLines(d)
  <2>1. PICK his : his = LiveRows(d)
    OBVIOUS
  <2>2. LiveRows(d)' = his /\ \A i \in his : row'[i] = row[i]
    BY <2>1 DEF Unmoved
  <2> DEFINE A == {[on |-> i, sale |-> row[i].sale, driver |-> row[i].driver, rent |-> row[i].rent] : i \in his}
             B == {[on |-> i, sale |-> row'[i].sale, driver |-> row'[i].driver, rent |-> row'[i].rent] : i \in his}
  <2>3. A = B
    BY <2>2
  <2>4. RowLines(d) = InOrder(A) /\ RowLines(d)' = InOrder(B)
    BY <2>1, <2>2 DEF RowLines, RowLine
  <2> HIDE DEF A, B
  <2> QED
    BY <2>3, <2>4
<1>2. ASSUME NEW lines PROVE OldLines(d, lines)' = OldLines(d, lines)
  <2> DEFINE S == {t \in DOMAIN oldRent : oldRent[t].driver = d /\ \A n \in DOMAIN lines : lines[n].sale # t}
             T == {t \in DOMAIN oldRent' : oldRent'[t].driver = d /\ \A n \in DOMAIN lines : lines[n].sale # t}
             A == {[on |-> 0, sale |-> s, driver |-> d, rent |-> oldRent[s].sum] : s \in S}
             B == {[on |-> 0, sale |-> s, driver |-> d, rent |-> oldRent'[s].sum] : s \in T}
  <2>1. \A s : s \in S <=> s \in OldRents(d) /\ \A n \in DOMAIN lines : lines[n].sale # s
    BY DEF OldRents
  <2>2. \A s : s \in T <=> s \in OldRents(d)' /\ \A n \in DOMAIN lines : lines[n].sale # s
    BY DEF OldRents
  <2>3. OldLines(d, lines) = InOrder(A) /\ OldLines(d, lines)' = InOrder(B)
    BY DEF OldLines
  <2> HIDE DEF S, T
  <2>4. S = T /\ \A s \in S : oldRent'[s] = oldRent[s]
    BY <2>1, <2>2 DEF Unmoved
  <2>5. A = B
    BY <2>4
  <2> HIDE DEF A, B
  <2> QED
    BY <2>3, <2>5
<1>3. PICK rows : rows = RowLines(d)
  OBVIOUS
<1>4. LinesOf(d) = rows \o OldLines(d, rows) /\ LinesOf(d)' = rows \o OldLines(d, rows)'
  BY <1>1, <1>3 DEF LinesOf
<1> QED
  BY <1>1, <1>2, <1>4

LEMMA UnmovedListed ==
    ASSUME RentsTyped, PaymentsTyped, PaymentsTyped', KeepsPayments, NEW v, v.driver \in Drivers, Unmoved(v.driver)
    PROVE  Listed(v)' = Listed(v)
<1>1. PICK d, rows, lines : d = v.driver /\ rows = RowLines(d) /\ lines = LinesOf(d)
  OBVIOUS
<1>2. RowLines(d)' = rows /\ LinesOf(d)' = lines
  BY <1>1, UnmovedLines
<1>3. \A n \in DOMAIN lines : Due(lines[n], settled', 0) = Due(lines[n], settled, 0)
  BY <1>1, LinesAreHis, UnmovedDue
<1> DEFINE Filled(ps) ==
             LET open == {n \in DOMAIN lines : Due(lines[n], ps, 0) > 0}
                 first == IF open = {} THEN Len(lines) + 1 ELSE Min(open)
             IN [v EXCEPT !.lines = lines, !.rows = Len(rows), !.first = first,
                          !.due = IF open = {} THEN 0 ELSE Due(lines[first], ps, 0)]
           open == {n \in DOMAIN lines : Due(lines[n], settled, 0) > 0}
           openThen == {n \in DOMAIN lines : Due(lines[n], settled', 0) > 0}
           due == IF open = {} THEN 0 ELSE Due(lines[IF open = {} THEN Len(lines) + 1 ELSE Min(open)], settled, 0)
           dueThen == IF open = {} THEN 0 ELSE Due(lines[IF open = {} THEN Len(lines) + 1 ELSE Min(open)], settled', 0)
<1>4. Listed(v) = Filled(settled) /\ Listed(v)' = Filled(settled')
  BY <1>1, <1>2 DEF Listed, LinesOf
<1>5. open = openThen
  BY <1>3
<1>6. open # {} => Min(open) \in DOMAIN lines
  <2>1. IsFiniteSet(open) /\ open \in SUBSET Nat /\ open \subseteq DOMAIN lines
    <3>1. lines \in Seq(PayLines)
      BY <1>1, LinesAreHis
    <3>2. DOMAIN lines = 1..Len(lines) /\ Len(lines) \in Nat
      BY <3>1
    <3>3. IsFiniteSet(DOMAIN lines) /\ DOMAIN lines \subseteq Nat
      BY <3>2, FS_Interval
    <3> QED
      BY <3>3, FS_Subset
  <2> HIDE DEF open
  <2> QED
    BY <2>1, GreatestAndLeast
<1>7. due = dueThen
  <2> HIDE DEF open
  <2>1. CASE open = {}
    BY <2>1
  <2>2. CASE open # {}
    BY <1>3, <1>6, <2>2
  <2> QED
    BY <2>1, <2>2
<1>8. /\ Filled(settled) = [v EXCEPT !.lines = lines, !.rows = Len(rows),
                               !.first = IF open = {} THEN Len(lines) + 1 ELSE Min(open), !.due = due]
      /\ Filled(settled') = [v EXCEPT !.lines = lines, !.rows = Len(rows),
                               !.first = IF open = {} THEN Len(lines) + 1 ELSE Min(open), !.due = dueThen]
  BY <1>5
<1> HIDE DEF Filled, due, dueThen
<1> QED
  BY <1>4, <1>7, <1>8

\* A request is filled in for good.
LEMMA FilledInStays ==
    ASSUME RentsTyped', PaymentsOnRows, KeepsPayments, NEW v, v.own \in DOMAIN settled \cup {0}, FilledIn(v)
    PROVE  FilledIn(v)'
<1>1. CASE v.own = 0
  BY <1>1 DEF FilledIn
<1>2. CASE v.own # 0
  <2>1. PICK n, on : n = v.own /\ on = settled[n].on
    OBVIOUS
  <2>2. /\ n \in DOMAIN settled /\ n \in DOMAIN settled' /\ settled'[n].on = on
        /\ settled'[n].driver = settled[n].driver /\ on \in DOMAIN row \cup {0}
    BY <1>2, <2>1 DEF KeepsPayments, PaymentsOnRows
  <2>3. Line(settled[n])' = Line(settled[n])
    <3>1. CASE on \in DOMAIN row
      <4>1. /\ on \in DOMAIN row' /\ row'[on].sale = row[on].sale /\ row'[on].driver = row[on].driver
            /\ row'[on].rent = row[on].rent
        BY <2>1, <2>2, <3>1 DEF KeepsPayments
      <4> QED
        BY <2>1, <2>2, <3>1, <4>1 DEF Line, RowLine
    <3>2. CASE on = 0 /\ on \notin DOMAIN row
      <4>1. on \notin DOMAIN row'
        BY <3>2 DEF RentsTyped
      <4> QED
        BY <2>1, <2>2, <3>2, <4>1 DEF Line
    <3> QED
      BY <2>2, <3>1, <3>2
  <2> QED
    BY <1>2, <2>1, <2>2, <2>3 DEF FilledIn
<1> QED
  BY <1>1, <1>2

\* What it read of a driver nobody touches stays so.
LEMMA StillSoStays ==
    ASSUME RentsTyped, RentsTyped', PaymentsTyped, PaymentsTyped', PaymentsOnRows, KeepsPayments,
           NEW v, SheetTyped(v), FilledIn(v), v.own \in DOMAIN settled \cup {0}, StillSo(v), Unmoved(v.driver)
    PROVE  StillSo(v)'
<1>1. PICK d : d = v.driver
  OBVIOUS
<1>2. d \in Drivers /\ v.lines \in Seq(PayLines) /\ (v.page # "restore" => v.sum \in Nat)
  BY <1>1 DEF SheetTyped, Sheets, FilledIn
<1> SUFFICES ASSUME Uncrossed(v)'
             PROVE  /\ v.page = "entry" => EntryStillSo(v)'
                    /\ v.page \in {"driver", "accounts"} /\ v.step # "loaded" => ListStillSo(v)'
                    /\ v.own # 0 /\ v.step = "ready" => ChangeStillSo(v)'
  BY DEF StillSo
<1>3. Uncrossed(v)
  <2>1. Unused(v.form)' => Unused(v.form)
    BY DEF Unused, KeepsPayments
  <2> QED
    BY <2>1 DEF Uncrossed
<1>4. LiveRows(d)' = LiveRows(d) /\ \A i \in LiveRows(d) : row'[i] = row[i]
  BY <1>1 DEF Unmoved
<1>5. \A own : Owed(d, own) <= Owed(d, own)' /\ Owed(d, own) \in Int /\ Owed(d, own)' \in Int
  BY <1>1, <1>2, UnmovedOwed
<1>6. \A line, own : line.on \in LiveRows(d) => Due(line, settled', own) = Due(line, settled, own)
  BY <1>1, UnmovedDue DEF OfDriver
<1>7. ASSUME v.page = "entry" PROVE EntryStillSo(v)'
  <2>1. PICK line : line = v.lines[1]
    OBVIOUS
  <2>2. /\ line.on \in LiveRows(d) /\ line = RowLine(line.on)
        /\ v.step = "ready" => v.sum <= Due(line, settled, 0) /\ v.sum <= Owed(d, 0)
    BY <1>1, <1>3, <1>7, <2>1 DEF StillSo, EntryStillSo
  <2>3. RowLine(line.on)' = RowLine(line.on)
    BY <1>4, <2>2 DEF RowLine
  <2>4. v.step = "ready" => v.sum <= Due(line, settled', 0) /\ v.sum <= Owed(d, 0)'
    <3>1. v.sum \in Int
      BY <1>2, <1>7
    <3>2. Owed(d, 0) <= Owed(d, 0)' /\ Owed(d, 0) \in Int /\ Owed(d, 0)' \in Int
      BY <1>5
    <3>3. Due(line, settled', 0) = Due(line, settled, 0)
      BY <1>6, <2>2
    <3> QED
      BY <2>2, <3>1, <3>2, <3>3
  <2> QED
    BY <1>1, <1>4, <2>1, <2>2, <2>3, <2>4 DEF EntryStillSo
<1>8. ASSUME v.page \in {"driver", "accounts"}, v.step # "loaded" PROVE ListStillSo(v)'
  <2>1. Listed(v) = v /\ v.sum <= Owed(d, 0)
    BY <1>1, <1>3, <1>8 DEF StillSo, ListStillSo
  <2>2. Listed(v)' = Listed(v)
    BY <1>1, <1>2, UnmovedListed
  <2>3. v.sum <= Owed(d, 0)'
    <3>1. v.sum \in Int
      BY <1>2, <1>8
    <3>2. Owed(d, 0) <= Owed(d, 0)' /\ Owed(d, 0) \in Int /\ Owed(d, 0)' \in Int
      BY <1>5
    <3> QED
      BY <2>1, <3>1, <3>2
  <2> QED
    BY <1>1, <2>1, <2>2, <2>3 DEF ListStillSo
<1>9. ASSUME v.own # 0, v.step = "ready" PROVE ChangeStillSo(v)'
  <2>1. /\ v.page = "edit" => v.sum <= Owed(d, v.own)
        /\ \A n \in DOMAIN v.lines :
              v.lines[n].on \in LiveRows(d) => v.sum <= Due(v.lines[n], settled, v.own)
    BY <1>1, <1>3, <1>9 DEF StillSo, ChangeStillSo
  <2>2. \A n \in DOMAIN v.lines :
              v.lines[n].on \in LiveRows(d) => v.sum <= Due(v.lines[n], settled', v.own)
    BY <1>6, <2>1
  <2>3. v.page = "edit" => v.sum <= Owed(d, v.own)'
    <3>1. v.page = "edit" => v.sum \in Int
      BY <1>2
    <3>2. Owed(d, v.own) <= Owed(d, v.own)' /\ Owed(d, v.own) \in Int /\ Owed(d, v.own)' \in Int
      BY <1>5
    <3> QED
      BY <2>1, <3>1, <3>2
  <2> QED
    BY <1>1, <1>4, <2>2, <2>3 DEF ChangeStillSo
<1> QED
  BY <1>7, <1>8, <1>9

\* A mark takes nothing away.
LEMMA MarkedIsFilledIn ==
    ASSUME NEW v, SheetTyped(v), NEW w, Marked(v, w)
    PROVE  /\ FilledIn(v) => FilledIn(w)
           /\ w = v \/ w.crossed \/ w.stale
<1>1. v \in Sheets
  BY DEF SheetTyped
<1>2. /\ w.own = v.own /\ w.form = v.form /\ w.driver = v.driver /\ w.lines = v.lines /\ w.page = v.page
      /\ w.sum = v.sum /\ w.step = v.step
      /\ w = v \/ w.crossed \/ w.stale
  BY <1>1 DEF Marked, Sheets
<1> QED
  BY <1>2 DEF FilledIn

\* The requests that are under way when something is written.
LEMMA OthersStaySo ==
    ASSUME RentsRead, RentsInv', PaymentsTyped', KeepsPayments, NEW drivers, NEW account, NEW form,
           \A d \in Drivers : d \in drivers \/ Unmoved(d),
           form \in Forms => ~Unused(form)',
           NEW c \in Clerks, NEW w, w = After(drivers, account, form)[c], w # Away
    PROVE  FilledIn(w)' /\ StillSo(w)'
<1>1. RentsTyped /\ PaymentsTyped /\ VisitsTyped /\ PaymentsOnRows /\ RentsTyped'
  BY DEF RentsRead, RentsInv
<1>2. PICK v : v = visit[c]
  OBVIOUS
<1>3. SheetTyped(v) /\ Marked(v, w) /\ v # Away /\ v \in Sheets /\ v.step # "away"
  <2>1. v # Away
    BY <1>1, <1>2, AfterMarks
  <2>2. SheetTyped(v) /\ Marked(v, w)
    BY <1>1, <1>2, <2>1, AfterMarks
  <2> QED
    BY <2>1, <2>2 DEF SheetTyped, Sheets
<1>4. FilledIn(v) /\ StillSo(v)
  BY <1>2, <1>3 DEF RentsRead
<1>5. v.own \in DOMAIN settled \cup {0} /\ v.driver \in Drivers
  <2>1. v.own \in Nat /\ v.own <= Len(settled) /\ DOMAIN settled = 1..Len(settled) /\ Len(settled) \in Nat
    BY <1>1, <1>2, <1>3 DEF VisitsTyped, Sheets, PaymentsTyped
  <2> QED
    BY <1>3, <2>1 DEF Sheets
<1>6. FilledIn(v)'
  BY <1>1, <1>4, <1>5, FilledInStays
<1>7. w = v \/ w.crossed \/ w.stale
  BY <1>3, MarkedIsFilledIn
<1>8. FilledIn(w)'
  <2>1. /\ w.own = v.own /\ w.form = v.form /\ w.driver = v.driver /\ w.lines = v.lines /\ w.page = v.page
        /\ w.sum = v.sum /\ w.step = v.step
    BY <1>3 DEF Marked, Sheets
  <2> QED
    BY <1>6, <2>1 DEF FilledIn
<1>9. CASE w # v
  BY <1>7, <1>8, <1>9 DEF StillSo, Uncrossed
<1>10. CASE w = v
  <2>1. w = IF v.step = "away" THEN v
            ELSE IF account \in Accounts /\ v.from = account /\ v.step \in {"loaded", "ready"}
                 THEN [v EXCEPT !.stale = TRUE]
            ELSE IF \/ v.step = "loaded" /\ v.page # "entry"
                    \/ v.driver \notin drivers
                    \/ form \in Forms /\ v.form = form
                 THEN v
            ELSE [v EXCEPT !.crossed = TRUE]
    BY <1>2 DEF After
  <2>2. v.stale \/ v.crossed \/ (v.step = "loaded" /\ v.page # "entry") \/ v.driver \notin drivers
            \/ (form \in Forms /\ v.form = form)
    <3>1. [v EXCEPT !.stale = TRUE].stale = TRUE /\ [v EXCEPT !.crossed = TRUE].crossed = TRUE
      BY <1>3 DEF Sheets
    <3> QED
      BY <1>3, <1>10, <2>1, <3>1
  <2>3. CASE v.stale \/ v.crossed
    BY <1>8, <1>10, <2>3 DEF StillSo, Uncrossed
  <2>4. CASE v.step = "loaded" /\ v.page # "entry"
    BY <1>8, <1>10, <2>4 DEF StillSo
  <2>5. CASE v.driver \notin drivers
    <3>1. Unmoved(v.driver)
      BY <1>5, <2>5
    <3> QED
      BY <1>1, <1>3, <1>4, <1>5, <1>8, <1>10, <3>1, StillSoStays
  <2>6. CASE form \in Forms /\ v.form = form
    <3>1. v.own = 0
      BY <1>4, <2>6, RentsAssumption DEF FilledIn
    <3>2. ~Unused(form)'
      BY <2>6
    <3>3. ~Uncrossed(v)'
      BY <2>6, <3>1, <3>2 DEF Uncrossed, Unused
    <3> QED
      BY <1>8, <1>10, <3>3 DEF StillSo
  <2> QED
    BY <2>2, <2>3, <2>4, <2>5, <2>6
<1> QED
  BY <1>8, <1>9, <1>10

\* A change of the sales or of the records.
LEMMA MovedStaysSo ==
    ASSUME RentsRead, RentsInv', PaymentsOnRows', KeepsPayments, NEW drivers, NEW account,
           visit' = After(drivers, account, Waived),
           \A d \in Drivers : d \in drivers \/ Unmoved(d)
    PROVE  RentsRead'
<1>1. Waived \notin Forms
  BY RentsAssumption
<1>2. PaymentsTyped' /\ \A c \in Clerks : visit'[c] = After(drivers, account, Waived)[c]
  BY DEF RentsInv, After
<1>3. ASSUME NEW c \in Clerks, visit'[c] # Away PROVE FilledIn(visit[c])' /\ StillSo(visit[c])'
  <2>1. PICK w : w = visit'[c]
    OBVIOUS
  <2>2. FilledIn(w)' /\ StillSo(w)'
    BY <1>1, <1>2, <1>3, <2>1, OthersStaySo
  <2> QED
    BY <2>1, <2>2
<1> QED
  BY <1>3 DEF RentsRead, Away

SameOld(r) ==
    /\ r \in DOMAIN oldRent' <=> r \in DOMAIN oldRent
    /\ r \in DOMAIN oldRent => oldRent'[r] = oldRent[r]

\* The rows of a sale, and nobody else's, are replaced.
LEMMA ReplacedMovesFew ==
    ASSUME RentsTyped, RowsMatch, NEW s, NEW who \in Seq(Shares), NEW t \in Nat, Replaced(row', s, who, t),
           \A r : r # s => SameOld(r),
           s \in DOMAIN oldRent' => who # << >> /\ oldRent'[s].driver = who[1].driver,
           owing' = owing, settled' = settled,
           NEW d \in Drivers, d \notin AmongOf(who), d \notin DriversOf(s)
    PROVE  Unmoved(d)
<1>1. /\ Len(who) \in Nat /\ DOMAIN who = 1..Len(who)
      /\ \A k \in 1..Len(who) : who[k].driver # d
  BY DEF AmongOf
<1>2. \A i \in DOMAIN row : row[i].sale = s => row[i].driver # d
  BY DEF DriversOf
<1>3. ASSUME NEW i \in LiveRows(d) PROVE i \in DOMAIN row' /\ row'[i] = row[i]
  BY <1>2 DEF LiveRows, Replaced
<1>4. ASSUME NEW i \in DOMAIN row', row'[i].driver = d PROVE i \in DOMAIN row /\ row'[i] = row[i]
  <2>1. CASE i \in DOMAIN row /\ row[i].sale # s
    BY <2>1 DEF Replaced
  <2>2. CASE i \in (t + 1)..(t + Len(who))
    <3>1. i - t \in 1..Len(who) /\ t + (i - t) = i
      BY <1>1, <2>2
    <3>2. row'[t + (i - t)] = [sale |-> s, driver |-> who[i - t].driver, rent |-> who[i - t].rent, live |-> TRUE]
      BY <3>1 DEF Replaced
    <3> QED
      BY <1>1, <1>4, <3>1, <3>2
  <2> QED
    BY <2>1, <2>2 DEF Replaced
<1>5. LiveRows(d)' = LiveRows(d) /\ \A i \in LiveRows(d) : row'[i] = row[i]
  <2>1. \A i \in LiveRows(d) : i \in LiveRows(d)'
    BY <1>3 DEF LiveRows
  <2>2. \A i \in LiveRows(d)' : i \in LiveRows(d)
    BY <1>4 DEF LiveRows
  <2> QED
    BY <1>3, <2>1, <2>2
<1>6. s \notin OldRents(d)
  <2>1. SUFFICES ASSUME s \in DOMAIN oldRent, oldRent[s].driver = d PROVE FALSE
    BY DEF OldRents
  <2>2. s \in DOMAIN share /\ oldRent[s].driver = share[s][1].driver /\ share[s] \in Seq(Shares) /\ share[s] # << >>
    BY <2>1 DEF RentsTyped
  <2>3. 1 \in 1..Len(share[s]) /\ Len(share[s]) \in Nat
    BY <2>2
  <2>4. PICK z \in Nat :
           /\ RowsOf(s) = (z + 1)..(z + Len(share[s]))
           /\ \A k \in 1..Len(share[s]) : row[z + k].driver = share[s][k].driver
    BY <2>2 DEF RowsMatch, Matches
  <2>5. z + 1 \in RowsOf(s) /\ row[z + 1].driver = d
    BY <2>1, <2>2, <2>3, <2>4
  <2> QED
    BY <1>2, <2>5 DEF RowsOf
<1>7. s \notin OldRents(d)'
  <2>1. s \in DOMAIN oldRent' => oldRent'[s].driver # d
    BY <1>1
  <2> QED
    BY <2>1 DEF OldRents
<1>8. OldRents(d)' = OldRents(d) /\ \A r \in OldRents(d) : oldRent'[r] = oldRent[r]
  <2>1. \A r : r \in OldRents(d) <=> r \in DOMAIN oldRent /\ oldRent[r].driver = d
    BY DEF OldRents
  <2>2. \A r : r \in OldRents(d)' <=> r \in DOMAIN oldRent' /\ oldRent'[r].driver = d
    BY DEF OldRents
  <2>3. PICK A, B : A = OldRents(d) /\ B = OldRents(d)'
    OBVIOUS
  <2>4. ASSUME NEW r, r # s PROVE (r \in B <=> r \in A) /\ (r \in A => oldRent'[r] = oldRent[r])
    BY <2>1, <2>2, <2>3, <2>4 DEF SameOld
  <2>5. \A r : r \in B <=> r \in A
    BY <1>6, <1>7, <2>3, <2>4
  <2>6. A \subseteq DOMAIN oldRent /\ B \subseteq DOMAIN oldRent'
    BY <2>3 DEF OldRents
  <2>7. A = B
    BY <2>5, <2>6
  <2> QED
    BY <1>6, <2>3, <2>4, <2>7
<1> QED
  BY <1>5, <1>8 DEF Unmoved

LEMMA ReplacedKeepsPayments ==
    ASSUME RentsTyped, RentsTyped', PaymentsOnRows, NEW s, Released(s), settled' = settled,
           \A i \in DOMAIN row : row[i].sale # s => i \in DOMAIN row' /\ row'[i] = row[i]
    PROVE  KeepsPayments /\ PaymentsOnRows'
<1>1. \A n \in DOMAIN settled : settled[n].on \in DOMAIN row =>
          settled[n].on \in DOMAIN row' /\ row'[settled[n].on] = row[settled[n].on]
  BY DEF Released
<1>2. KeepsPayments
  BY <1>1 DEF KeepsPayments
<1>3. PaymentsOnRows'
  BY <1>1 DEF PaymentsOnRows
<1> QED
  BY <1>2, <1>3

LEMMA SaleStaysSo ==
    ASSUME RentsRead, RentsInv', NEW s, NEW who \in Assignments, AddSale(s, who) \/ EditSale(s, who)
    PROVE  RentsRead'
<1>1. RentsTyped /\ RowsMatch /\ PaymentsOnRows /\ RentsTyped'
  BY DEF RentsRead, RentsInv
<1>2. /\ row' = WithRows(s, who) /\ oldRent' = SyncRent(s, who) /\ owing' = owing /\ settled' = settled
  BY DEF AddSale, EditSale
<1>3. who \in Seq(Shares) /\ who # << >>
  BY AssignmentsAreLists
<1>4. PICK t \in Nat : Replaced(row', s, who, t)
  BY <1>1, <1>2, <1>3, RowsAreReplaced
<1>5. PICK drivers : /\ AmongOf(who) \cup DriversOf(s) \subseteq drivers
                     /\ visit' = After(drivers, Waived, Waived) /\ Released(s)
  <2>1. CASE AddSale(s, who)
    <3>1. \A i \in DOMAIN row : row[i].sale # s
      BY <1>1, <2>1 DEF AddSale, RentsTyped
    <3>2. DriversOf(s) = {} /\ Released(s)
      BY <3>1 DEF DriversOf, Released
    <3>3. visit' = After(AmongOf(who), Waived, Waived)
      BY <2>1 DEF AddSale, Move
    <3> QED
      BY <3>2, <3>3
  <2>2. CASE EditSale(s, who)
    BY <2>2 DEF EditSale, Move
  <2> QED
    BY <2>1, <2>2
<1>6. KeepsPayments /\ PaymentsOnRows'
  <2>1. \A i \in DOMAIN row : row[i].sale # s => i \in DOMAIN row' /\ row'[i] = row[i]
    BY <1>4 DEF Replaced
  <2> QED
    BY <1>1, <1>2, <1>5, <2>1, ReplacedKeepsPayments
<1>7. ASSUME NEW d \in Drivers, d \notin drivers PROVE Unmoved(d)
  <2>1. \A r : r # s => SameOld(r)
    BY <1>2 DEF SyncRent, With, SameOld
  <2>2. oldRent'[s].driver = who[1].driver
    BY <1>2 DEF SyncRent, With
  <2> QED
    BY <1>1, <1>2, <1>3, <1>4, <1>5, <1>7, <2>1, <2>2, ReplacedMovesFew
<1> QED
  BY <1>5, <1>6, <1>7, MovedStaysSo

LEMMA DeletedSaleStaysSo ==
    ASSUME RentsRead, RentsInv', NEW s, DeleteSale(s)
    PROVE  RentsRead'
<1>1. RentsTyped /\ RowsMatch /\ PaymentsOnRows /\ RentsTyped'
  BY DEF RentsRead, RentsInv
<1>2. /\ row' = WithRows(s, << >>) /\ oldRent' = Without(oldRent, s) /\ owing' = owing /\ settled' = settled
      /\ visit' = After(DriversOf(s), Waived, Waived) /\ Released(s)
  BY DEF DeleteSale, Move
<1>3. << >> \in Seq(Shares)
  OBVIOUS
<1>4. PICK t \in Nat : Replaced(row', s, << >>, t)
  BY <1>1, <1>2, <1>3, RowsAreReplaced
<1>5. KeepsPayments /\ PaymentsOnRows'
  <2>1. \A i \in DOMAIN row : row[i].sale # s => i \in DOMAIN row' /\ row'[i] = row[i]
    BY <1>4 DEF Replaced
  <2> QED
    BY <1>1, <1>2, <2>1, ReplacedKeepsPayments
<1>6. ASSUME NEW d \in Drivers, d \notin DriversOf(s) PROVE Unmoved(d)
  <2>1. \A r : r # s => SameOld(r)
    BY <1>2 DEF Without, SameOld
  <2>2. s \notin DOMAIN oldRent'
    BY <1>2 DEF Without
  <2>3. d \notin AmongOf(<< >>)
    BY DEF AmongOf
  <2> QED
    BY <1>1, <1>2, <1>3, <1>4, <1>6, <2>1, <2>2, <2>3, ReplacedMovesFew
<1> QED
  BY <1>2, <1>5, <1>6, MovedStaysSo

\* Nothing is moved by what leaves the records alone.
LEMMA NothingMoves ==
    ASSUME UNCHANGED <<owing, oldRent, row, settled>>
    PROVE  KeepsPayments /\ \A d : Unmoved(d)
BY DEF KeepsPayments, Unmoved, LiveRows, OldRents

LEMMA RecordsStaySo ==
    ASSUME RentsRead, RentsInv',
           \/ \E i \in DOMAIN row : DeleteEntry(i)
           \/ \E d \in Drivers, n \in Openings : ChangeOpening(d, n)
           \/ \E n \in DOMAIN settled : VoidPayment(n)
    PROVE  RentsRead'
<1>1. RentsTyped /\ PaymentsTyped /\ PaymentsOnRows /\ RentsTyped' /\ PaymentsTyped'
  BY DEF RentsRead, RentsInv
<1>2. \A i \in DOMAIN row : row[i] \in RentRows
  BY <1>1 DEF RentsTyped
<1>3. ASSUME NEW i \in DOMAIN row, DeleteEntry(i) PROVE RentsRead'
  <2>1. /\ row' = [row EXCEPT ![i].live = FALSE] /\ visit' = After({row[i].driver}, Waived, Waived)
        /\ owing' = owing /\ oldRent' = oldRent /\ settled' = settled
    BY <1>3 DEF DeleteEntry, Move
  <2>2. /\ DOMAIN row' = DOMAIN row /\ \A j \in DOMAIN row : j # i => row'[j] = row[j]
        /\ row'[i].sale = row[i].sale /\ row'[i].driver = row[i].driver /\ row'[i].rent = row[i].rent
        /\ ~row'[i].live
    BY <1>2, <2>1 DEF RentRows
  <2>3. KeepsPayments
    <3>1. \A j \in DOMAIN row :
             /\ j \in DOMAIN row' /\ row'[j].sale = row[j].sale /\ row'[j].driver = row[j].driver
             /\ row'[j].rent = row[j].rent /\ (row'[j].live => row[j].live)
      BY <2>2
    <3> QED
      BY <2>1, <3>1 DEF KeepsPayments
  <2>4. PaymentsOnRows'
    BY <1>1, <2>1, <2>2 DEF PaymentsOnRows
  <2>5. ASSUME NEW d \in Drivers, d # row[i].driver PROVE Unmoved(d)
    <3>1. LiveRows(d)' = LiveRows(d) /\ \A j \in LiveRows(d) : row'[j] = row[j]
      <4>1. \A j \in DOMAIN row : row'[j].driver = d \/ row[j].driver = d => j # i /\ row'[j] = row[j]
        BY <2>2, <2>5
      <4> QED
        BY <2>2, <4>1 DEF LiveRows
    <3> QED
      BY <2>1, <3>1 DEF Unmoved, OldRents
  <2> QED
    BY <2>1, <2>3, <2>4, <2>5, MovedStaysSo
<1>4. ASSUME NEW d \in Drivers, NEW n \in Openings, ChangeOpening(d, n) PROVE RentsRead'
  <2>1. /\ owing' = [owing EXCEPT ![d] = n] /\ visit' = After({d}, Waived, Waived)
        /\ row' = row /\ oldRent' = oldRent /\ settled' = settled
    BY <1>4 DEF ChangeOpening, Move
  <2>2. KeepsPayments /\ PaymentsOnRows'
    BY <1>1, <2>1 DEF KeepsPayments, PaymentsOnRows
  <2>3. \A e \in Drivers : e # d => owing'[e] = owing[e]
    BY <1>1, <2>1 DEF RentsTyped
  <2>4. ASSUME NEW e \in Drivers, e # d PROVE Unmoved(e)
    BY <2>1, <2>3, <2>4 DEF Unmoved, LiveRows, OldRents
  <2> QED
    BY <2>1, <2>2, <2>4, MovedStaysSo
<1>5. ASSUME NEW n \in DOMAIN settled, VoidPayment(n) PROVE RentsRead'
  <2>1. /\ settled' = [settled EXCEPT ![n].live = FALSE]
        /\ visit' = After({settled[n].driver} \cup Payees(settled[n]), settled[n].from, Waived)
        /\ row' = row /\ oldRent' = oldRent /\ owing' = owing
    BY <1>5 DEF VoidPayment, Move
  <2>2. \A m \in DOMAIN settled : settled[m] \in Slips
    BY <1>1 DEF PaymentsTyped
  <2>3. /\ DOMAIN settled' = DOMAIN settled /\ \A m \in DOMAIN settled : m # n => settled'[m] = settled[m]
        /\ settled'[n].driver = settled[n].driver /\ settled'[n].on = settled[n].on
        /\ settled'[n].form = settled[n].form /\ settled'[n].sum = settled[n].sum
    BY <2>1, <2>2 DEF Slips
  <2>4. KeepsPayments
    <3>1. \A m \in DOMAIN settled : /\ settled'[m].driver = settled[m].driver /\ settled'[m].on = settled[m].on
                                    /\ settled'[m].form = settled[m].form
      BY <2>3
    <3> QED
      BY <2>1, <2>3, <3>1 DEF KeepsPayments
  <2>5. PaymentsOnRows'
    BY <1>1, <2>1, <2>3 DEF PaymentsOnRows
  <2>6. ASSUME NEW d \in Drivers, d \notin {settled[n].driver} \cup Payees(settled[n]) PROVE Unmoved(d)
    <3>1. Aside(settled'[n], d)
      BY <2>3, <2>6 DEF Aside, Payees, LiveRows
    <3> QED
      BY <2>1, <2>3, <3>1 DEF Unmoved, LiveRows, OldRents
  <2> QED
    BY <2>1, <2>4, <2>5, <2>6, MovedStaysSo
<1> QED
  BY <1>3, <1>4, <1>5

\* One request goes on, and nothing else changes.
LEMMA VisitStaysSo ==
    ASSUME RentsRead, RentsInv', NEW c \in Clerks, NEW v, visit' = [visit EXCEPT ![c] = v],
           v = Away \/ (SheetTyped(v) /\ v.own \in DOMAIN settled \cup {0} /\ FilledIn(v) /\ StillSo(v)),
           UNCHANGED <<owing, oldRent, row, settled>>
    PROVE  RentsRead'
<1>1. RentsTyped /\ PaymentsTyped /\ VisitsTyped /\ PaymentsOnRows /\ RentsTyped' /\ PaymentsTyped'
  BY DEF RentsRead, RentsInv
<1>2. KeepsPayments /\ \A d : Unmoved(d)
  BY NothingMoves
<1>3. PaymentsOnRows'
  BY <1>1 DEF PaymentsOnRows
<1>4. ASSUME NEW w, SheetTyped(w), w.own \in DOMAIN settled \cup {0}, FilledIn(w), StillSo(w)
      PROVE  FilledIn(w)' /\ StillSo(w)'
  BY <1>1, <1>2, <1>4, FilledInStays, StillSoStays
<1>5. DOMAIN settled = 1..Len(settled) /\ Len(settled) \in Nat
  BY <1>1 DEF PaymentsTyped
<1>6. ASSUME NEW b \in Clerks, visit'[b] # Away PROVE FilledIn(visit[b])' /\ StillSo(visit[b])'
  <2>1. PICK w : w = visit'[b]
    OBVIOUS
  <2>2. SheetTyped(w) /\ w.own \in DOMAIN settled \cup {0} /\ FilledIn(w) /\ StillSo(w)
    <3>1. CASE b = c
      BY <1>1, <1>6, <2>1, <3>1 DEF VisitsTyped
    <3>2. CASE b # c
      <4>1. w = visit[b] /\ w # Away
        BY <1>1, <1>6, <2>1, <3>2 DEF VisitsTyped
      <4>2. SheetTyped(w) /\ w.own <= Len(settled) /\ FilledIn(w) /\ StillSo(w)
        BY <1>1, <4>1 DEF VisitsTyped, RentsRead
      <4>3. w.own \in Nat
        BY <4>2 DEF SheetTyped, Sheets
      <4> QED
        BY <1>5, <4>2, <4>3
    <3> QED
      BY <3>1, <3>2
  <2>3. FilledIn(w)' /\ StillSo(w)'
    BY <1>4, <2>2
  <2> QED
    BY <2>1, <2>3
<1> QED
  BY <1>3, <1>6 DEF RentsRead, Away

\* What is listed of a driver is the same for every request of his.
LEMMA ListedAgain ==
    ASSUME RentsTyped, PaymentsTyped, NEW v \in Sheets, v.page \in {"driver", "accounts"}, v.own = 0,
           NEW st \in {"read", "ready"}
    PROVE  LET w == [Listed(v) EXCEPT !.step = st] IN
           /\ w \in Sheets /\ Listed(w) = w
           /\ w.sum = v.sum /\ w.form = v.form /\ w.driver = v.driver /\ w.page = v.page
           /\ w.own = 0 /\ w.step = st
           /\ w.stale = v.stale /\ w.crossed = v.crossed
           /\ Listed(v) = v => w = [v EXCEPT !.step = st]
<1> DEFINE rows == RowLines(v.driver)
           lines == rows \o OldLines(v.driver, rows)
           open == {n \in DOMAIN lines : Due(lines[n], settled, 0) > 0}
           f == IF open = {} THEN Len(lines) + 1 ELSE Min(open)
           b == IF open = {} THEN 0 ELSE Due(lines[f], settled, 0)
           w == [Listed(v) EXCEPT !.step = st]
<1>1. PICK l, r, first, due : l = lines /\ r = Len(rows) /\ first = f /\ due = b
  OBVIOUS
<1>2. \A x : x.driver = v.driver =>
          Listed(x) = [x EXCEPT !.lines = l, !.rows = r, !.first = first, !.due = due]
  <2>1. SUFFICES ASSUME NEW x, x.driver = v.driver
                 PROVE  Listed(x) = [x EXCEPT !.lines = l, !.rows = r, !.first = first, !.due = due]
    OBVIOUS
  <2>2. Listed(x) = [x EXCEPT !.lines = lines, !.rows = Len(rows), !.first = f, !.due = b]
    BY <2>1 DEF Listed
  <2> HIDE DEF lines, rows, f, b
  <2> QED
    BY <1>1, <2>2
<1> HIDE DEF rows, lines, open, f, b
<1>3. Listed(v) = [v EXCEPT !.lines = l, !.rows = r, !.first = first, !.due = due]
  BY <1>2
<1>4. w \in Sheets
  <2>1. SheetTyped(w)
    BY ListedIsSound
  <2> QED
    BY <2>1 DEF SheetTyped
<1>5. w = [v EXCEPT !.step = st, !.lines = l, !.rows = r, !.first = first, !.due = due]
  BY <1>3 DEF Sheets
<1> HIDE DEF w
<1>6. /\ w.sum = v.sum /\ w.form = v.form /\ w.driver = v.driver /\ w.page = v.page
      /\ w.own = 0 /\ w.step = st /\ w.stale = v.stale /\ w.crossed = v.crossed
      /\ w.lines = l /\ w.rows = r /\ w.first = first /\ w.due = due
  BY <1>5 DEF Sheets
<1>7. Listed(w) = w
  <2>1. Listed(w) = [w EXCEPT !.lines = l, !.rows = r, !.first = first, !.due = due]
    BY <1>2, <1>6
  <2> QED
    BY <1>4, <1>6, <2>1 DEF Sheets
<1>8. Listed(v) = v => w = [v EXCEPT !.step = st]
  BY DEF w
<1> QED
  BY <1>4, <1>6, <1>7, <1>8 DEF w

\* A sheet holds what it is filled in with.
LEMMA SheetHolds ==
    ASSUME NEW page, NEW d, NEW from, NEW sum, NEW form
    PROVE  /\ Sheet(page, d, from, sum, form).sum = sum /\ Sheet(page, d, from, sum, form).form = form
           /\ Sheet(page, d, from, sum, form).driver = d
BY DEF Sheet

\* Requests begin with what is so.
LEMMA BegunStaysSo ==
    ASSUME RentsRead, RentsInv', NEW c \in Clerks,
           \/ \E n \in DOMAIN settled : OpenRestore(c, n) \/ \E sum \in Sums : OpenEdit(c, n, sum)
           \/ \E from \in Accounts \cup {Waived}, sum \in Sums, form \in Forms :
                 \/ \E d \in Drivers : \/ OpenDriverPage(c, d, from, sum, form)
                                       \/ OpenAccountsPage(c, d, from, sum, form)
                 \/ \E i \in DOMAIN row : OpenEntry(c, i, from, sum, form)
    PROVE  RentsRead'
<1>1. RentsTyped /\ PaymentsTyped
  BY DEF RentsRead, RentsInv
<1>2. settled \in Seq(Slips) /\ Len(settled) \in Nat /\ DOMAIN settled = 1..Len(settled)
  BY <1>1 DEF PaymentsTyped
<1>3. \A sum \in Sums : sum \in Int /\ sum \in Nat \ {0}
  BY RentsAssumption
<1>4. ASSUME NEW v, Arrive(c, v), SheetTyped(v), v.own \in DOMAIN settled \cup {0}, FilledIn(v), StillSo(v)
      PROVE  RentsRead'
  <2>1. visit' = [visit EXCEPT ![c] = v] /\ UNCHANGED <<owing, oldRent, row, settled>>
    BY <1>4 DEF Arrive
  <2> QED
    BY <1>4, <2>1, VisitStaysSo
<1>5. ASSUME NEW from \in Accounts \cup {Waived}, NEW sum \in Sums, NEW form \in Forms, NEW d \in Drivers,
             OpenDriverPage(c, d, from, sum, form)
      PROVE  RentsRead'
  <2> DEFINE v == Sheet("driver", d, from, sum, form)
             w == [Listed(v) EXCEPT !.step = "read"]
  <2>1. v \in Sheets /\ v.own = 0 /\ v.page = "driver" /\ v.sum = sum /\ v.form = form /\ v.driver = d
    BY <1>3, SheetIsTyped, SheetHolds
  <2>2. Arrive(c, w) /\ sum <= Owed(d, 0)
    BY <1>5 DEF OpenDriverPage
  <2> HIDE DEF v
  <2>3. /\ SheetTyped(w) /\ w.own = 0 /\ Listed(w) = w /\ w.sum = sum /\ w.form = form /\ w.driver = d
        /\ w.step = "read" /\ w.page = "driver"
    BY <1>1, <2>1, ListedIsSound, ListedAgain
  <2> HIDE DEF w
  <2>4. FilledIn(w) /\ StillSo(w)
    BY <1>3, <2>2, <2>3 DEF FilledIn, StillSo, ListStillSo
  <2> QED
    BY <1>4, <2>2, <2>3, <2>4
<1>6. ASSUME NEW from \in Accounts \cup {Waived}, NEW sum \in Sums, NEW form \in Forms, NEW d \in Drivers,
             OpenAccountsPage(c, d, from, sum, form)
      PROVE  RentsRead'
  <2> DEFINE v == Sheet("accounts", d, from, sum, form)
  <2>1. /\ v \in Sheets /\ v.own = 0 /\ v.rows = 0 /\ v.page = "accounts" /\ v.step = "loaded"
        /\ v.sum = sum /\ v.form = form
    BY <1>3, SheetIsTyped, SheetHolds
  <2>2. Arrive(c, v)
    BY <1>6 DEF OpenAccountsPage
  <2> HIDE DEF v
  <2>3. SheetTyped(v)
    BY <2>1 DEF SheetTyped, Sheets
  <2>4. FilledIn(v) /\ StillSo(v)
    BY <1>3, <2>1 DEF FilledIn, StillSo
  <2> QED
    BY <1>4, <2>1, <2>2, <2>3, <2>4
<1>7. ASSUME NEW from \in Accounts \cup {Waived}, NEW sum \in Sums, NEW form \in Forms, NEW i \in DOMAIN row,
             OpenEntry(c, i, from, sum, form)
      PROVE  RentsRead'
  <2> DEFINE w == [Sheet("entry", row[i].driver, from, sum, form) EXCEPT !.lines = <<RowLine(i)>>]
  <2>1. RowLine(i) \in PayLines /\ RowLine(i).on = i /\ row[i].driver \in Drivers
    BY <1>1, LineIsTyped
  <2>2. Arrive(c, w) /\ i \in LiveRows(row[i].driver)
    BY <1>7 DEF OpenEntry, LiveRows
  <2>3. PICK l, v : l = RowLine(i) /\ v = Sheet("entry", row[i].driver, from, sum, form)
    OBVIOUS
  <2>4. /\ v \in Sheets /\ v.own = 0 /\ v.rows = 0 /\ v.page = "entry" /\ v.step = "loaded"
        /\ v.sum = sum /\ v.form = form /\ v.driver = row[i].driver
    BY <1>3, <2>1, <2>3, SheetIsTyped, SheetHolds
  <2>5. <<l>> \in Seq(PayLines) /\ Len(<<l>>) = 1 /\ <<l>>[1] = l
    BY <2>1, <2>3
  <2>6. w = [v EXCEPT !.lines = <<l>>]
    BY <2>3
  <2> HIDE DEF w
  <2>7. /\ w \in Sheets /\ w.own = 0 /\ w.rows = 0 /\ w.page = "entry" /\ w.lines = <<l>>
        /\ w.driver = row[i].driver /\ w.sum = sum /\ w.form = form /\ w.step = "loaded"
    BY <2>4, <2>5, <2>6 DEF Sheets
  <2>8. SheetTyped(w)
    BY <1>2, <2>5, <2>7 DEF SheetTyped
  <2>9. FilledIn(w) /\ StillSo(w)
    BY <1>3, <2>1, <2>2, <2>3, <2>5, <2>7 DEF FilledIn, StillSo, EntryStillSo
  <2> QED
    BY <1>4, <2>2, <2>7, <2>8, <2>9
<1>8. ASSUME NEW n \in DOMAIN settled, NEW page \in {"edit", "restore"}, NEW sum \in Int,
             page = "edit" => sum \in Sums,
             Arrive(c, [Sheet(page, settled[n].driver, settled[n].from, sum, "none") EXCEPT
                            !.own = n, !.lines = Line(settled[n])])
      PROVE  RentsRead'
  <2> DEFINE w == [Sheet(page, settled[n].driver, settled[n].from, sum, "none") EXCEPT
                            !.own = n, !.lines = Line(settled[n])]
  <2>1. Arrive(c, w)
    BY <1>8
  <2>2. settled[n] \in Slips /\ n \in Nat /\ n # 0
    BY <1>2
  <2>3. Line(settled[n]) \in Seq(PayLines)
    <3>1. CASE settled[n].on \in DOMAIN row
      <4>1. RowLine(settled[n].on) \in PayLines
        BY <1>1, <3>1, LineIsTyped
      <4> QED
        BY <3>1, <4>1 DEF Line
    <3>2. CASE settled[n].on \notin DOMAIN row
      BY <3>2 DEF Line
    <3> QED
      BY <3>1, <3>2
  <2>4. settled[n].driver \in Drivers /\ settled[n].from \in Accounts \cup {Waived}
    BY <2>2 DEF Slips
  <2>5. PICK lines, v : /\ lines = Line(settled[n])
                        /\ v = Sheet(page, settled[n].driver, settled[n].from, sum, "none")
    OBVIOUS
  <2>6. /\ v \in Sheets /\ v.rows = 0 /\ v.page = page /\ v.step = "loaded"
        /\ v.sum = sum /\ v.form = "none" /\ v.driver = settled[n].driver
    BY <2>4, <2>5, SheetIsTyped, SheetHolds
  <2>7. w = [v EXCEPT !.own = n, !.lines = lines]
    BY <2>5
  <2> HIDE DEF w
  <2>8. /\ w \in Sheets /\ w.own = n /\ w.rows = 0 /\ w.page = page /\ w.step = "loaded" /\ w.lines = lines
        /\ w.sum = sum /\ w.form = "none" /\ w.driver = settled[n].driver
    BY <2>2, <2>3, <2>5, <2>6, <2>7 DEF Sheets
  <2>9. SheetTyped(w)
    BY <2>2, <2>3, <2>5, <2>8 DEF SheetTyped
  <2>10. FilledIn(w) /\ StillSo(w)
    BY <1>3, <1>8, <2>2, <2>5, <2>8 DEF FilledIn, StillSo
  <2> QED
    BY <1>4, <2>1, <2>8, <2>9, <2>10
<1>9. ASSUME NEW n \in DOMAIN settled, OpenRestore(c, n) PROVE RentsRead'
  <2>0. settled[n] \in Slips
    BY <1>2
  <2>1. settled[n].sum \in Int
    BY <2>0 DEF Slips
  <2> QED
    BY <1>8, <1>9, <2>1 DEF OpenRestore
<1>10. ASSUME NEW n \in DOMAIN settled, NEW sum \in Sums, OpenEdit(c, n, sum) PROVE RentsRead'
  BY <1>3, <1>8, <1>10 DEF OpenEdit
<1> QED
  BY <1>5, <1>6, <1>7, <1>9, <1>10

\* The request as it goes on to its writing.
LEMMA ReadyIsTyped ==
    ASSUME NEW v, SheetTyped(v)
    PROVE  LET w == [v EXCEPT !.step = "ready"] IN
           /\ SheetTyped(w) /\ w.step = "ready" /\ w.page = v.page /\ w.driver = v.driver /\ w.own = v.own
           /\ w.sum = v.sum /\ w.form = v.form /\ w.lines = v.lines /\ w.stale = v.stale /\ w.crossed = v.crossed
<1> DEFINE w == [v EXCEPT !.step = "ready"]
<1>1. v \in Sheets
  BY DEF SheetTyped
<1>2. w \in Sheets
  BY <1>1 DEF Sheets
<1>3. /\ w.own = v.own /\ w.lines = v.lines /\ w.driver = v.driver /\ w.page = v.page /\ w.step = "ready"
      /\ w.crossed = v.crossed /\ w.rows = v.rows /\ w.sum = v.sum /\ w.form = v.form /\ w.stale = v.stale
  BY <1>1 DEF Sheets
<1> HIDE DEF w
<1>4. SheetTyped(w)
  BY <1>2, <1>3 DEF SheetTyped
<1> QED
  BY <1>3, <1>4 DEF w

\* Requests read what is so, and are left.
LEMMA ReadStaysSo ==
    ASSUME RentsRead, RentsInv', NEW c \in Clerks, LoadAccount(c) \/ Read(c) \/ Leave(c)
    PROVE  RentsRead'
<1>1. RentsTyped /\ PaymentsTyped /\ VisitsTyped
  BY DEF RentsRead, RentsInv
<1>2. ASSUME NEW w, Go(c, w),
             w = Away \/ (SheetTyped(w) /\ w.own \in DOMAIN settled \cup {0} /\ FilledIn(w) /\ StillSo(w))
      PROVE  RentsRead'
  <2>1. visit' = [visit EXCEPT ![c] = w] /\ UNCHANGED <<owing, oldRent, row, settled>>
    BY <1>2 DEF Go
  <2> QED
    BY <1>2, <2>1, VisitStaysSo
<1>3. CASE Leave(c)
  BY <1>2, <1>3 DEF Leave
<1>4. PICK v : v = visit[c]
  OBVIOUS
<1> DEFINE w == [v EXCEPT !.step = "ready"]
<1>5. ASSUME v # Away
      PROVE  /\ SheetTyped(v) /\ v \in Sheets /\ v.own \in DOMAIN settled \cup {0} /\ FilledIn(v) /\ StillSo(v)
             /\ SheetTyped(w) /\ w.step = "ready" /\ w.page = v.page /\ w.driver = v.driver /\ w.own = v.own
             /\ w.sum = v.sum /\ w.form = v.form /\ w.lines = v.lines
             /\ w.stale = v.stale /\ w.crossed = v.crossed
  <2>1. SheetTyped(v) /\ v.own <= Len(settled) /\ v \in Sheets /\ FilledIn(v) /\ StillSo(v)
    BY <1>1, <1>4, <1>5 DEF VisitsTyped, SheetTyped, RentsRead
  <2>2. v.own \in Nat /\ DOMAIN settled = 1..Len(settled) /\ Len(settled) \in Nat
    BY <1>1, <2>1 DEF Sheets, PaymentsTyped
  <2>3. v.own \in DOMAIN settled \cup {0}
    BY <2>1, <2>2
  <2> QED
    BY <2>1, <2>3, ReadyIsTyped
<1> HIDE DEF w
<1>6. CASE LoadAccount(c)
  <2>1. v.step = "read" /\ Go(c, w)
    BY <1>4, <1>6 DEF LoadAccount, w
  <2>2. v # Away
    BY <2>1 DEF Away
  <2>3. v.page = "driver" /\ v.own = 0
    BY <1>5, <2>1, <2>2 DEF FilledIn, SheetTyped
  <2>4. FilledIn(w)
    BY <1>5, <2>2, <2>3 DEF FilledIn
  <2>5. ASSUME Uncrossed(w) PROVE ListStillSo(w)
    <3>1. Uncrossed(v)
      BY <1>5, <2>2, <2>5 DEF Uncrossed
    <3>2. Listed(v) = v /\ v.sum <= Owed(v.driver, 0)
      BY <1>5, <2>1, <2>2, <2>3, <3>1 DEF StillSo, ListStillSo
    <3>3. Listed([Listed(v) EXCEPT !.step = "ready"]) = [Listed(v) EXCEPT !.step = "ready"]
      BY <1>1, <1>5, <2>2, <2>3, ListedAgain
    <3>4. Listed(w) = w
      BY <3>2, <3>3 DEF w
    <3> QED
      BY <1>5, <2>2, <3>2, <3>4 DEF ListStillSo
  <2>6. StillSo(w)
    BY <1>5, <2>2, <2>3, <2>5 DEF StillSo
  <2> QED
    BY <1>2, <1>5, <2>1, <2>2, <2>4, <2>6
<1>7. CASE Read(c)
  <2>1. /\ v.step = "loaded" /\ MayRead(v)
        /\ Go(c, [(IF v.page = "accounts" THEN Listed(v) ELSE v) EXCEPT !.step = "ready"])
    BY <1>4, <1>7 DEF Read
  <2>2. v # Away
    BY <2>1 DEF Away
  <2>3. CASE v.page = "accounts"
    <3> DEFINE u == [Listed(v) EXCEPT !.step = "ready"]
    <3>1. Go(c, u)
      BY <2>1, <2>3
    <3>2. v \in Sheets /\ v.own = 0
      BY <1>5, <2>2, <2>3 DEF SheetTyped
    <3>3. /\ SheetTyped(u) /\ u.own = 0 /\ Listed(u) = u /\ u.sum = v.sum /\ u.form = v.form
          /\ u.driver = v.driver /\ u.step = "ready" /\ u.page = "accounts"
      BY <1>1, <2>3, <3>2, ListedIsSound, ListedAgain
    <3> HIDE DEF u
    <3>4. v.sum <= Owed(v.driver, 0)
      BY <2>1, <2>3, <3>2 DEF MayRead
    <3>5. FilledIn(u) /\ StillSo(u)
      BY <1>5, <2>2, <2>3, <3>2, <3>3, <3>4 DEF FilledIn, StillSo, ListStillSo
    <3> QED
      BY <1>2, <3>1, <3>3, <3>5
  <2>4. CASE v.page # "accounts"
    <3>1. Go(c, w)
      BY <2>1, <2>4 DEF w
    <3>2. v.page # "driver"
      BY <1>5, <2>1, <2>2 DEF SheetTyped
    <3>3. FilledIn(w)
      BY <1>5, <2>1, <2>2 DEF FilledIn
    <3>4. ASSUME Uncrossed(w), v.page = "entry" PROVE EntryStillSo(w)
      <4>1. v.own = 0 /\ 1 \in DOMAIN v.lines
        <5>1. v.own = 0 /\ Len(v.lines) = 1 /\ v.lines \in Seq(PayLines)
          BY <1>5, <2>2, <3>4 DEF SheetTyped, Sheets
        <5> QED
          BY <5>1
      <4>2. Uncrossed(v)
        BY <1>5, <2>2, <3>4 DEF Uncrossed
      <4>3. v.lines[1].on \in LiveRows(v.driver) /\ v.lines[1] = RowLine(v.lines[1].on)
        BY <1>5, <2>2, <3>4, <4>2 DEF StillSo, EntryStillSo
      <4>4. v.sum <= Due(v.lines[1], settled, 0) /\ v.sum <= Owed(v.driver, 0)
        BY <2>1, <3>4, <4>1 DEF MayRead, WithinRow
      <4> QED
        BY <1>5, <2>2, <4>3, <4>4 DEF EntryStillSo
    <3>5. ASSUME v.own # 0 PROVE ChangeStillSo(w)
      <4>1. \A n \in DOMAIN v.lines : v.lines[n].on \in LiveRows(v.driver) => v.sum <= Due(v.lines[n], settled, v.own)
        BY <2>1 DEF MayRead, WithinRow, LiveRows
      <4>2. v.page = "edit" => v.sum <= Owed(v.driver, v.own)
        BY <2>1 DEF MayRead
      <4> QED
        BY <1>5, <2>2, <4>1, <4>2 DEF ChangeStillSo
    <3>6. StillSo(w)
      BY <1>5, <2>2, <2>4, <3>2, <3>4, <3>5 DEF StillSo
    <3> QED
      BY <1>2, <1>5, <2>2, <3>1, <3>3, <3>6
  <2> QED
    BY <2>3, <2>4
<1> QED
  BY <1>3, <1>6, <1>7

\* A payable row is the line of a live row.
LEMMA RowLinesAreLines ==
    ASSUME RentsTyped, NEW d
    PROVE  /\ RowLines(d) \in Seq(PayLines)
           /\ \A n \in DOMAIN RowLines(d) :
                 RowLines(d)[n].on \in LiveRows(d) /\ RowLines(d)[n] = RowLine(RowLines(d)[n].on)
<1> DEFINE L == {RowLine(i) : i \in LiveRows(d)}
<1>1. IsFiniteSet(LiveRows(d)) /\ LiveRows(d) \subseteq DOMAIN row
  BY FS_Subset DEF LiveRows, RentsTyped
<1>2. IsFiniteSet(L)
  <2> DEFINE f == [i \in LiveRows(d) |-> RowLine(i)]
  <2>1. f \in Surjection(LiveRows(d), L)
    BY DEF Surjection
  <2> HIDE DEF L, f
  <2> QED
    BY <1>1, <2>1, FS_Surjection
<1>3. \A l \in L : l \in PayLines /\ l.on \in LiveRows(d) /\ l = RowLine(l.on)
  BY <1>1 DEF RowLine, PayLines, RentsTyped, RentRows
<1>4. LinesApart(L)
  BY <1>3 DEF LinesApart, RowLine, PayLines
<1>5. RowLines(d) = InOrder(L)
  BY DEF RowLines
<1> HIDE DEF L
<1>6. RowLines(d) \in Seq(L)
  BY <1>2, <1>4, <1>5, InOrderListsAll
<1>7. \A n \in DOMAIN RowLines(d) : RowLines(d)[n] \in L
  BY <1>6
<1>8. RowLines(d) \in Seq(PayLines)
  BY RowLinesAreRows
<1> QED
  BY <1>3, <1>7, <1>8

\* What is listed: the first line with something due on it, and what it is.
ListedTrue(v) ==
    LET lines == LinesOf(v.driver) IN
    /\ v.lines = lines /\ v.rows = Len(RowLines(v.driver))
    /\ v.first \in 1..(Len(lines) + 1)
    /\ v.first <= Len(lines) => v.due = Due(lines[v.first], settled, 0)
    /\ \A q \in DOMAIN lines : q < v.first => Due(lines[q], settled, 0) <= 0

LEMMA ListedIsTrue ==
    ASSUME RentsTyped, PaymentsTyped, NEW v \in Sheets, Listed(v) = v
    PROVE  ListedTrue(v)
<1> DEFINE rows == RowLines(v.driver)
           lines == LinesOf(v.driver)
           open == {n \in DOMAIN lines : Due(lines[n], settled, 0) > 0}
           first == IF open = {} THEN Len(lines) + 1 ELSE Min(open)
           due == IF open = {} THEN 0 ELSE Due(lines[first], settled, 0)
<1>1. Listed(v) = [v EXCEPT !.lines = lines, !.rows = Len(rows), !.first = first, !.due = due]
  BY DEF Listed, LinesOf
<1> HIDE DEF lines, rows, first, due
<1>2. v.lines = lines /\ v.rows = Len(rows) /\ v.first = first /\ v.due = due
  BY <1>1 DEF Sheets
<1>3. lines \in Seq(PayLines) /\ Len(lines) \in Nat /\ DOMAIN lines = 1..Len(lines)
  <2>1. v.driver \in Drivers
    BY DEF Sheets
  <2>2. lines \in Seq(PayLines)
    BY <2>1, LinesAreHis DEF lines
  <2> QED
    BY <2>2
<1>4. \A q \in DOMAIN lines : Due(lines[q], settled, 0) \in Int
  <2> TAKE q \in DOMAIN lines
  <2>1. lines[q] \in PayLines
    BY <1>3
  <2>2. lines[q].rent \in Int
    BY <2>1 DEF PayLines
  <2> QED
    BY <2>2, DueIsNumber DEF PaymentsTyped
<1>5. open # {} => Min(open) \in open /\ \A q \in open : Min(open) <= q
  <2>1. IsFiniteSet(open) /\ open \in SUBSET Nat
    <3>1. IsFiniteSet(DOMAIN lines) /\ DOMAIN lines \subseteq Nat
      BY <1>3, FS_Interval
    <3> QED
      BY <3>1, FS_Subset
  <2> HIDE DEF open
  <2> QED
    BY <2>1, GreatestAndLeast
<1>6. CASE open = {}
  <2>1. first = Len(lines) + 1
    BY <1>6 DEF first
  <2>2. \A q \in DOMAIN lines : Due(lines[q], settled, 0) <= 0
    BY <1>4, <1>6
  <2>3. first \in 1..(Len(lines) + 1) /\ ~(first <= Len(lines))
    BY <1>3, <2>1
  <2> QED
    BY <1>2, <2>2, <2>3 DEF ListedTrue, lines, rows
<1>7. CASE open # {}
  <2>1. first = Min(open) /\ first \in DOMAIN lines /\ due = Due(lines[first], settled, 0)
    BY <1>5, <1>7 DEF first, due
  <2>2. ASSUME NEW q \in DOMAIN lines, q < first PROVE Due(lines[q], settled, 0) <= 0
    <3>1. q \notin open
      <4>1. q \in Nat /\ first \in Nat
        BY <1>3, <2>1, <2>2
      <4> HIDE DEF open
      <4> QED
        BY <1>5, <1>7, <2>1, <2>2, <4>1
    <3> QED
      BY <1>4, <3>1
  <2>3. first \in 1..(Len(lines) + 1)
    BY <1>3, <2>1
  <2> QED
    BY <1>2, <2>1, <2>2, <2>3 DEF ListedTrue, lines, rows
<1> QED
  BY <1>6, <1>7

\* The lines a settlement is spread over: what is left of the rows, then lines that
\* name none.
PayableTrue(v, lines, rows) ==
    /\ lines \in Seq(PayLines) /\ v.first + Len(lines) > Len(rows)
    /\ \A n \in DOMAIN lines : \/ lines[n].on = 0 /\ v.first + n - 1 > Len(rows)
                               \/ v.first + n - 1 \in DOMAIN rows /\ lines[n] = rows[v.first + n - 1]
    /\ lines # << >> => v.due = Due(lines[1], settled, 0)
    /\ \A q \in DOMAIN rows : q < v.first => Due(rows[q], settled, 0) <= 0

LEMMA PayableIsTrue ==
    ASSUME RentsTyped, PaymentsTyped, NEW v, SheetTyped(v), ListedTrue(v)
    PROVE  PayableTrue(v, Payable(v), RowLines(v.driver))
<1>1. PICK rows, old, all, first, more :
         /\ rows = RowLines(v.driver) /\ old = OldLines(v.driver, rows) /\ all = rows \o old /\ first = v.first
         /\ more = OldLines(v.driver, SubSeq(v.lines, 1, v.rows))
  OBVIOUS
<1>2. v.driver \in Drivers
  BY DEF SheetTyped, Sheets
<1>3. /\ rows \in Seq(PayLines) /\ old \in Seq(PayLines) /\ more \in Seq(PayLines)
      /\ (\A n \in DOMAIN old : old[n].on = 0) /\ (\A n \in DOMAIN more : more[n].on = 0)
  BY <1>1, <1>2, RowLinesAreRows, OldLinesNameNone
<1>4. /\ v.lines = all /\ v.rows = Len(rows) /\ first \in 1..(Len(all) + 1)
      /\ first <= Len(all) => v.due = Due(all[first], settled, 0)
      /\ \A q \in DOMAIN all : q < first => Due(all[q], settled, 0) <= 0
  BY <1>1 DEF ListedTrue, LinesOf
<1>5. /\ all \in Seq(PayLines) /\ Len(rows) \in Nat /\ Len(old) \in Nat /\ Len(more) \in Nat
      /\ Len(all) = Len(rows) + Len(old) /\ DOMAIN all = 1..Len(all) /\ DOMAIN rows = 1..Len(rows)
      /\ \A n \in DOMAIN all : all[n] = IF n <= Len(rows) THEN rows[n] ELSE old[n - Len(rows)]
  BY <1>1, <1>3
<1>6. \A q \in DOMAIN rows : q < first => Due(rows[q], settled, 0) <= 0
  <2>1. \A q \in DOMAIN rows : q \in DOMAIN all /\ all[q] = rows[q]
    BY <1>5
  <2> QED
    BY <1>4, <2>1
<1>7. Payable(v) \in Seq(PayLines)
  BY PayableIsSound
<1>8. CASE first <= Len(rows)
  <2>1. PICK cut : cut = SubSeq(all, first, Len(rows))
    OBVIOUS
  <2>2. /\ cut \in Seq(PayLines) /\ Len(cut) = Len(rows) - first + 1
        /\ \A n \in 1..(Len(rows) - first + 1) : cut[n] = all[first + n - 1]
    <3>1. first \in 1..(Len(all) + 1) /\ Len(rows) \in (first - 1)..Len(all) /\ all \in Seq(PayLines)
      BY <1>4, <1>5, <1>8
    <3>2. /\ SubSeq(all, first, Len(rows)) \in Seq(PayLines)
          /\ Len(SubSeq(all, first, Len(rows))) = Len(rows) - first + 1
          /\ \A n \in 1..(Len(rows) - first + 1) : SubSeq(all, first, Len(rows))[n] = all[first + n - 1]
      BY ONLY <3>1, SubSeqProperties
    <3> QED
      BY <2>1, <3>2
  <2>3. PICK lines : lines = cut \o more
    OBVIOUS
  <2>4. Payable(v) = lines
    BY <1>1, <1>4, <1>8, <2>1, <2>3 DEF Payable
  <2>5. /\ DOMAIN lines = 1..(Len(cut) + Len(more)) /\ Len(lines) = Len(cut) + Len(more)
        /\ \A n \in DOMAIN lines : lines[n] = IF n <= Len(cut) THEN cut[n] ELSE more[n - Len(cut)]
        /\ DOMAIN more = 1..Len(more)
    <3>1. cut \in Seq(PayLines) /\ more \in Seq(PayLines)
      BY <1>3, <2>2
    <3> QED
      BY ONLY <2>3, <3>1
  <2>6. first + Len(lines) > Len(rows) /\ first \in Nat
    BY <1>4, <1>5, <2>2, <2>5
  <2>7. ASSUME NEW n \in DOMAIN lines
        PROVE  \/ lines[n].on = 0 /\ first + n - 1 > Len(rows)
               \/ first + n - 1 \in DOMAIN rows /\ lines[n] = rows[first + n - 1]
    <3>1. CASE n <= Len(cut)
      <4>1. n \in 1..(Len(rows) - first + 1) /\ lines[n] = cut[n]
        BY <1>4, <1>5, <2>2, <2>5, <3>1
      <4>2. first + n - 1 \in DOMAIN rows /\ first + n - 1 \in DOMAIN all /\ first + n - 1 <= Len(rows)
        BY <1>4, <1>5, <4>1
      <4> QED
        BY <1>5, <2>2, <4>1, <4>2
    <3>2. CASE ~(n <= Len(cut))
      <4>1. n - Len(cut) \in DOMAIN more /\ lines[n] = more[n - Len(cut)]
        BY <1>5, <2>2, <2>5, <2>6, <3>2
      <4>2. first + n - 1 > Len(rows)
        BY <1>5, <2>2, <2>5, <2>6, <3>2
      <4> QED
        BY <1>3, <4>1, <4>2
    <3> QED
      BY <3>1, <3>2
  <2>8. v.due = Due(lines[1], settled, 0)
    <3>1. first <= Len(all) /\ 1 \in DOMAIN lines /\ 1 <= Len(cut) /\ 1 \in 1..(Len(rows) - first + 1)
      BY <1>4, <1>5, <1>8, <2>2, <2>5
    <3>2. lines[1] = all[first + 1 - 1] /\ first + 1 - 1 = first
      BY <2>2, <2>5, <2>6, <3>1
    <3> QED
      BY <1>4, <3>1, <3>2
  <2> QED
    BY <1>1, <1>6, <1>7, <2>4, <2>6, <2>7, <2>8 DEF PayableTrue
<1>9. CASE ~(first <= Len(rows))
  <2>1. PICK lines : lines = SubSeq(all, first, Len(all))
    OBVIOUS
  <2>2. Payable(v) = lines
    BY <1>1, <1>4, <1>9, <2>1 DEF Payable
  <2>3. first \in Nat /\ first > Len(rows)
    BY <1>4, <1>5, <1>9
  <2>4. /\ lines \in Seq(PayLines) /\ Len(lines) = Len(all) - first + 1
        /\ \A n \in 1..(Len(all) - first + 1) : lines[n] = all[first + n - 1]
    <3>1. first \in 1..(Len(all) + 1) /\ Len(all) \in (first - 1)..Len(all) /\ all \in Seq(PayLines)
      BY <1>4, <1>5
    <3>2. /\ SubSeq(all, first, Len(all)) \in Seq(PayLines)
          /\ Len(SubSeq(all, first, Len(all))) = Len(all) - first + 1
          /\ \A n \in 1..(Len(all) - first + 1) : SubSeq(all, first, Len(all))[n] = all[first + n - 1]
      BY ONLY <3>1, SubSeqProperties
    <3> QED
      BY <2>1, <3>2
  <2>5. ASSUME NEW n \in DOMAIN lines
        PROVE  lines[n].on = 0 /\ first + n - 1 > Len(rows)
    <3>1. n \in 1..(Len(all) - first + 1) /\ n \in Nat /\ n >= 1
      BY <2>4
    <3>2. first + n - 1 \in DOMAIN all /\ first + n - 1 > Len(rows) /\ first + n - 1 - Len(rows) \in DOMAIN old
      BY <1>3, <1>5, <2>3, <3>1
    <3>3. lines[n] = old[first + n - 1 - Len(rows)]
      <4>1. PICK m : m = first + n - 1
        OBVIOUS
      <4>2. all[m] = old[m - Len(rows)]
        BY <1>5, <2>3, <3>2, <4>1
      <4>3. lines[n] = all[m]
        BY <2>4, <3>1, <4>1
      <4> QED
        BY <1>5, <2>3, <3>1, <4>1, <4>2, <4>3
    <3> QED
      BY <1>3, <3>2, <3>3
  <2>6. lines # << >> => v.due = Due(lines[1], settled, 0)
    <3>1. SUFFICES ASSUME lines # << >> PROVE v.due = Due(lines[1], settled, 0)
      OBVIOUS
    <3>2. Len(lines) \in Nat /\ Len(lines) # 0
      BY <2>4, <3>1
    <3>3. first <= Len(all) /\ 1 \in 1..(Len(all) - first + 1) /\ first + 1 - 1 = first
      BY <1>5, <2>3, <2>4, <3>2
    <3> QED
      BY <1>4, <2>4, <3>3
  <2>7. first + Len(lines) > Len(rows)
    <3>1. Len(lines) \in Nat
      BY <2>4
    <3> QED
      BY <1>5, <2>3, <3>1
  <2> QED
    BY <1>1, <1>6, <2>2, <2>4, <2>5, <2>6, <2>7 DEF PayableTrue
<1> QED
  BY <1>8, <1>9

\* The payments while a settlement of "v" is spread, with "left" of it still to be paid:
\* those that were there, and new ones to the driver; no row is paid beyond its rent that
\* was not, and the driver is charged no more than has been paid.
KeptRow(ps, i) ==
    \/ Due(RowLine(i), ps, 0) >= 0
    \/ Due(RowLine(i), ps, 0) >= Due(RowLine(i), settled, 0)
Gained(v, ps, left) ==
    /\ ps \in Seq(Slips) /\ left \in Nat /\ left <= v.sum
    /\ DOMAIN settled \subseteq DOMAIN ps /\ \A n \in DOMAIN settled : ps[n] = settled[n]
    /\ \A n \in DOMAIN ps \ DOMAIN settled :
          ps[n].driver = v.driver /\ ps[n].form = v.form /\ ps[n].sum \in Nat
    /\ left < v.sum => DOMAIN ps # DOMAIN settled
Spent(v, ps, left) ==
    /\ Gained(v, ps, left)
    /\ SumOf(ps, Charged(v.driver, ps, 0)) + left <= SumOf(settled, Charged(v.driver, settled, 0)) + v.sum
    /\ \A i \in LiveRows(v.driver) : KeptRow(ps, i)

\* A payment more, of what is left.
LEMMA PartIsGained ==
    ASSUME NEW v, v.sum \in Nat, NEW ps, NEW left, Gained(v, ps, left),
           NEW part \in Nat \ {0}, part <= left,
           NEW slip \in Slips, slip.driver = v.driver, slip.form = v.form, slip.sum = part
    PROVE  Gained(v, Append(ps, slip), left - part)
<1>1. PICK qs : qs = Append(ps, slip)
  OBVIOUS
<1>2. ps \in Seq(Slips)
  BY DEF Gained
<1>3. /\ qs \in Seq(Slips) /\ DOMAIN qs = DOMAIN ps \cup {Len(ps) + 1} /\ Len(ps) + 1 \notin DOMAIN ps
      /\ (\A n \in DOMAIN ps : qs[n] = ps[n]) /\ qs[Len(ps) + 1] = slip
  BY <1>1, <1>2, AppendedSlip
<1>4. left - part \in Nat /\ left - part <= v.sum
  BY DEF Gained
<1>5. DOMAIN settled \subseteq DOMAIN qs /\ (\A n \in DOMAIN settled : qs[n] = settled[n]) /\ DOMAIN qs # DOMAIN settled
  BY <1>3 DEF Gained
<1>6. \A n \in DOMAIN qs \ DOMAIN settled : qs[n].driver = v.driver /\ qs[n].form = v.form /\ qs[n].sum \in Nat
  <2> TAKE n \in DOMAIN qs \ DOMAIN settled
  <2>1. CASE n \in DOMAIN ps
    BY <1>3, <2>1 DEF Gained
  <2>2. CASE n \notin DOMAIN ps
    <3>1. qs[n] = slip
      BY <1>3, <2>2
    <3> QED
      BY <3>1
  <2> QED
    BY <2>1, <2>2
<1> QED
  BY <1>1, <1>3, <1>4, <1>5, <1>6 DEF Gained

LEMMA NothingIsSpent ==
    ASSUME RentsTyped, PaymentsTyped, NEW v, v.driver \in Drivers, v.sum \in Nat
    PROVE  Spent(v, settled, v.sum)
<1>1. settled \in Seq(Slips)
  BY DEF PaymentsTyped
<1>2. SumOf(settled, Charged(v.driver, settled, 0)) \in Int
  BY OwedIsRest
<1>3. ASSUME NEW i \in LiveRows(v.driver) PROVE KeptRow(settled, i)
  <2>1. RowLine(i).rent \in Int
    BY DEF RowLine, LiveRows, RentsTyped, RentRows
  <2>2. Due(RowLine(i), settled, 0) \in Int
    BY <1>1, <2>1, DueIsNumber
  <2> QED
    BY <2>2 DEF KeptRow
<1> QED
  BY <1>1, <1>2, <1>3 DEF Spent, Gained

\* A payment on a row takes no more than is due on it.
SlipFits(v, ps, slip, part) ==
    /\ slip \in Slips /\ slip.driver = v.driver /\ slip.form = v.form /\ slip.sum = part
    /\ slip.on = 0 \/ (slip.on \in LiveRows(v.driver) /\ part <= Due(RowLine(slip.on), ps, 0))

LEMMA PartIsSpent ==
    ASSUME RentsTyped, PaymentsTyped, NEW v, v.sum \in Nat, v.driver \in Drivers, NEW ps, NEW left, Spent(v, ps, left),
           NEW part \in Nat \ {0}, part <= left, NEW slip, SlipFits(v, ps, slip, part)
    PROVE  Spent(v, Append(ps, slip), left - part)
<1>1. PICK qs : qs = Append(ps, slip)
  OBVIOUS
<1>2. ps \in Seq(Slips) /\ slip \in Slips
  BY DEF Spent, Gained, SlipFits
<1>3. /\ qs \in Seq(Slips) /\ DOMAIN qs = DOMAIN ps \cup {Len(ps) + 1} /\ Len(ps) + 1 \notin DOMAIN ps
      /\ (\A n \in DOMAIN ps : qs[n] = ps[n]) /\ qs[Len(ps) + 1] = slip
  BY <1>1, <1>2, AppendedSlip
<1>4. Gained(v, qs, left - part)
  BY <1>1, PartIsGained DEF Spent, SlipFits
<1>7. SumOf(qs, Charged(v.driver, qs, 0)) + (left - part) <= SumOf(settled, Charged(v.driver, settled, 0)) + v.sum
  <2>1. PICK a, b, c : /\ a = SumOf(qs, Charged(v.driver, qs, 0)) /\ b = SumOf(ps, Charged(v.driver, ps, 0))
                       /\ c = SumOf(settled, Charged(v.driver, settled, 0))
    OBVIOUS
  <2>2. a \in Int /\ b \in Int /\ c \in Int
    BY <1>2, <1>3, <2>1, SumOfIsNumber DEF Charged, PaymentsTyped
  <2>3. a <= b + part
    BY <1>1, <1>2, <2>1, ChargedAppended DEF SlipFits
  <2>4. b + left <= c + v.sum /\ left \in Nat
    BY <2>1 DEF Spent, Gained
  <2>5. a + (left - part) <= c + v.sum
    BY <2>2, <2>3, <2>4
  <2> QED
    BY <2>1, <2>5
<1>8. ASSUME NEW i \in LiveRows(v.driver) PROVE KeptRow(qs, i)
  <2>1. PICK line : line = RowLine(i)
    OBVIOUS
  <2>2. line.on = i /\ line.rent \in Int /\ i # 0
    BY <2>1 DEF RowLine, LiveRows, RentsTyped, RentRows
  <2>3. Due(line, qs, 0) = IF OnLine(slip, line) THEN Due(line, ps, 0) - slip.sum ELSE Due(line, ps, 0)
    BY <1>1, <1>2, <2>2, DueOfAppended
  <2>4. Due(line, ps, 0) \in Int
    BY <1>2, <2>2, DueIsNumber
  <2>5. CASE OnLine(slip, line)
    <3>1. slip.on = i
      BY <2>2, <2>5 DEF OnLine
    <3>2. slip.sum = part /\ part <= Due(line, ps, 0)
      BY <2>1, <2>2, <3>1 DEF SlipFits
    <3> QED
      BY <2>1, <2>3, <2>4, <2>5, <3>2 DEF KeptRow
  <2>6. CASE ~OnLine(slip, line)
    BY <2>1, <2>3, <2>6 DEF KeptRow, Spent
  <2> QED
    BY <2>5, <2>6
<1>9. Spent(v, qs, left - part)
  BY <1>4, <1>7, <1>8 DEF Spent
<1> QED
  BY <1>1, <1>9

\* When nothing is due on any row, a payment that names none is on none.
LEMMA SlipOnLine ==
    ASSUME RentsTyped, NEW v \in Sheets, NEW ps \in Seq(Slips), NEW line, line.on \in Nat, line.sale \in Nat,
           NEW part \in Int
    PROVE  LET slip == Slip(v, ps, line, part) IN
           /\ slip \in Slips /\ slip.driver = v.driver /\ slip.form = v.form /\ slip.sum = part
           /\ line.on # 0 => slip.on = line.on
           /\ line.on = 0 /\ (\A q \in DOMAIN RowLines(v.driver) : Due(RowLines(v.driver)[q], ps, 0) <= 0)
                 => slip.on = 0
<1>1. Slip(v, ps, line, part) \in Slips
  BY SlipIsSound
<1>2. ASSUME \A q \in DOMAIN RowLines(v.driver) : Due(RowLines(v.driver)[q], ps, 0) <= 0
      PROVE  Picked(v.driver, ps).on = 0
  <2>1. PICK rows : rows = RowLines(v.driver)
    OBVIOUS
  <2>2. \A q \in DOMAIN rows : Due(rows[q], ps, 0) \in Int
    <3>1. rows \in Seq(PayLines)
      BY <2>1, RowLinesAreRows
    <3>2. \A q \in DOMAIN rows : rows[q].rent \in Int
      <4>1. \A q \in DOMAIN rows : rows[q] \in PayLines
        BY <3>1
      <4> QED
        BY <4>1 DEF PayLines
    <3> QED
      BY <3>2, DueIsNumber
  <2>3. {n \in DOMAIN rows : Due(rows[n], ps, 0) > 0} = {}
    BY <1>2, <2>1, <2>2
  <2> QED
    BY <2>1, <2>3 DEF Picked
<1> QED
  BY <1>1, <1>2 DEF Slip

\* As far as line "upto": while something is left, nothing is due on the rows before it.
Reached(v, ps, left, upto) ==
    /\ Spent(v, ps, left)
    /\ left > 0 => \A q \in DOMAIN RowLines(v.driver) : q < upto => Due(RowLines(v.driver)[q], ps, 0) <= 0

LEMMA LineIsPaid ==
    ASSUME RentsTyped, PaymentsTyped, NEW v, SheetTyped(v), v.sum \in Nat,
           NEW lines, PayableTrue(v, lines, RowLines(v.driver)), NEW n \in DOMAIN lines,
           NEW before, Reached(v, before.ps, before.left, v.first + n - 1), n = 1 => before.ps = settled
    PROVE  Reached(v, Paying(v, lines, before, n).ps, Paying(v, lines, before, n).left, v.first + n)
<1>1. PICK rows, ps, left, line, first, d :
         /\ rows = RowLines(v.driver) /\ ps = before.ps /\ left = before.left /\ line = lines[n]
         /\ first = v.first /\ d = v.driver
  OBVIOUS
<1>2. /\ ps \in Seq(Slips) /\ left \in Nat /\ left <= v.sum /\ Spent(v, ps, left)
      /\ left > 0 => \A q \in DOMAIN rows : q < first + n - 1 => Due(rows[q], ps, 0) <= 0
  BY <1>1 DEF Reached, Spent, Gained
<1>3. v \in Sheets /\ d \in Drivers /\ first \in Nat \ {0}
  BY <1>1 DEF SheetTyped, Sheets
<1>4. /\ rows \in Seq(PayLines) /\ DOMAIN rows = 1..Len(rows) /\ Len(rows) \in Nat
      /\ \A q \in DOMAIN rows : rows[q].on \in LiveRows(d) /\ rows[q] = RowLine(rows[q].on)
  BY <1>1, RowLinesAreLines
<1>5. /\ lines \in Seq(PayLines) /\ n \in Nat /\ n >= 1 /\ line \in PayLines
      /\ \/ line.on = 0 /\ first + n - 1 > Len(rows)
         \/ first + n - 1 \in DOMAIN rows /\ line = rows[first + n - 1]
      /\ n = 1 => v.due = Due(line, settled, 0)
  <2>1. lines \in Seq(PayLines)
    BY DEF PayableTrue
  <2>2. n \in Nat /\ n >= 1 /\ line \in PayLines /\ lines # << >>
    BY <1>1, <2>1
  <2> QED
    BY <1>1, <2>1, <2>2 DEF PayableTrue
<1>6. line.on \in Nat /\ line.sale \in Nat /\ line.rent \in Int
  BY <1>5 DEF PayLines
<1>7. \A q \in DOMAIN rows : rows[q].rent \in Int /\ rows[q].on # 0 /\ Due(rows[q], ps, 0) \in Int
  <2> TAKE q \in DOMAIN rows
  <2>1. rows[q] \in PayLines
    BY <1>4
  <2>2. rows[q].rent \in Int
    BY <2>1 DEF PayLines
  <2>3. rows[q].on # 0
    BY <1>4 DEF LiveRows, RentsTyped
  <2> QED
    BY <1>2, <2>2, <2>3, DueIsNumber
<1>8. PICK due : due = Due(line, ps, 0)
  OBVIOUS
<1>9. due \in Int
  BY <1>2, <1>6, <1>8, DueIsNumber
<1>10. PICK part : part = Min({due, left})
  OBVIOUS
<1>11. part \in {due, left} /\ part <= due /\ part <= left /\ part \in Int
  <2>1. \E x \in {due, left} : \A y \in {due, left} : x <= y
    BY <1>2, <1>9
  <2>2. part \in {due, left} /\ \A y \in {due, left} : part <= y
    BY <1>10, <2>1 DEF Min
  <2> QED
    BY <1>2, <1>9, <2>2
<1>12. Paying(v, lines, before, n) = IF part <= 0 THEN before
                                     ELSE [ps |-> Append(ps, Slip(v, ps, line, part)), left |-> left - part]
  <2>1. (IF n = 1 THEN v.due ELSE Due(lines[n], before.ps, 0)) = due
    BY <1>1, <1>5, <1>8
  <2> QED
    BY <1>1, <1>10, <2>1 DEF Paying
<1>13. CASE part <= 0
  <2>1. Paying(v, lines, before, n) = before
    BY <1>12, <1>13
  <2>2. ASSUME left > 0, NEW q \in DOMAIN rows, q < first + n PROVE Due(rows[q], ps, 0) <= 0
    <3>1. due <= 0
      BY <1>2, <1>11, <1>13, <2>2
    <3>2. CASE q < first + n - 1
      BY <1>2, <2>2, <3>2
    <3>3. CASE ~(q < first + n - 1)
      <4>1. q = first + n - 1 /\ q <= Len(rows)
        BY <1>3, <1>4, <1>5, <2>2, <3>3
      <4>2. line = rows[q]
        BY <1>4, <1>5, <4>1
      <4> QED
        BY <1>8, <3>1, <4>2
    <3> QED
      BY <3>2, <3>3
  <2> QED
    BY <1>1, <1>2, <2>1, <2>2 DEF Reached
<1>14. CASE ~(part <= 0)
  <2>1. PICK slip : slip = Slip(v, ps, line, part)
    OBVIOUS
  <2>2. part \in Nat \ {0} /\ left > 0
    BY <1>2, <1>11, <1>14
  <2>3. /\ slip \in Slips /\ slip.driver = d /\ slip.form = v.form /\ slip.sum = part /\ slip.live
        /\ line.on # 0 => slip.on = line.on
        /\ line.on = 0 /\ (\A q \in DOMAIN rows : Due(rows[q], ps, 0) <= 0) => slip.on = 0
    <3>1. slip.live
      BY <2>1 DEF Slip
    <3> QED
      BY <1>1, <1>2, <1>3, <1>6, <1>11, <2>1, <3>1, SlipOnLine
  <2>4. SlipFits(v, ps, slip, part)
    <3>1. CASE line.on = 0
      <4>1. first + n - 1 > Len(rows)
        BY <1>5, <1>7, <3>1
      <4>2. \A q \in DOMAIN rows : q < first + n - 1
        BY <1>3, <1>4, <1>5, <4>1
      <4>3. slip.on = 0
        BY <1>2, <2>2, <2>3, <3>1, <4>2
      <4> QED
        BY <1>1, <2>3, <4>3 DEF SlipFits
    <3>2. CASE line.on # 0
      <4>1. line.on \in LiveRows(d) /\ line = RowLine(line.on)
        BY <1>4, <1>5, <3>2
      <4> QED
        BY <1>1, <1>8, <1>11, <2>3, <3>2, <4>1 DEF SlipFits
    <3> QED
      BY <3>1, <3>2
  <2>5. Spent(v, Append(ps, slip), left - part)
    BY <1>1, <1>2, <1>3, <1>11, <2>2, <2>4, PartIsSpent
  <2>6. ASSUME left - part > 0, NEW q \in DOMAIN rows, q < first + n PROVE Due(rows[q], Append(ps, slip), 0) <= 0
    <3>1. part = due
      BY <1>2, <1>11, <2>6
    <3>2. Due(rows[q], Append(ps, slip), 0)
             = IF OnLine(slip, rows[q]) THEN Due(rows[q], ps, 0) - slip.sum ELSE Due(rows[q], ps, 0)
      BY <1>2, <1>7, <2>3, DueOfAppended
    <3>3. Due(rows[q], ps, 0) \in Int /\ slip.sum = part /\ part > 0
      BY <1>7, <2>2, <2>3
    <3>4. CASE q < first + n - 1
      <4>1. Due(rows[q], ps, 0) <= 0
        BY <1>2, <2>2, <3>4
      <4> QED
        BY <2>2, <3>2, <3>3, <4>1
    <3>5. CASE ~(q < first + n - 1)
      <4>1. q = first + n - 1 /\ q <= Len(rows)
        BY <1>3, <1>4, <1>5, <2>6, <3>5
      <4>2. line = rows[q] /\ line.on # 0
        BY <1>4, <1>5, <1>7, <4>1
      <4>3. OnLine(slip, rows[q])
        BY <2>3, <4>2 DEF OnLine
      <4>4. Due(rows[q], ps, 0) = part
        BY <1>8, <3>1, <4>2
      <4> QED
        BY <3>2, <3>3, <4>3, <4>4
    <3> QED
      BY <3>4, <3>5
  <2>7. /\ Paying(v, lines, before, n).ps = Append(ps, slip)
        /\ Paying(v, lines, before, n).left = left - part
    BY <1>12, <1>14, <2>1
  <2>8. Reached(v, Append(ps, slip), left - part, v.first + n)
    BY <1>1, <2>5, <2>6 DEF Reached
  <2> QED
    BY <2>7, <2>8
<1> QED
  BY <1>13, <1>14

\* All of the settlement is paid.
LEMMA SpreadIsSpent ==
    ASSUME RentsTyped, PaymentsTyped, NEW v, SheetTyped(v), ListedTrue(v), v.sum \in Nat
    PROVE  Spent(v, Spread(v), 0)
<1> DEFINE lines == Payable(v)
           many == Len(lines)
           after == CHOOSE f : f = [n \in 0..many |-> IF n = 0 THEN [ps |-> settled, left |-> v.sum]
                                                   ELSE Paying(v, lines, f[n - 1], n)]
           paid == after[many]
           rows == RowLines(v.driver)
<1>1. PayableTrue(v, lines, rows) /\ lines \in Seq(PayLines) /\ many \in Nat /\ DOMAIN lines = 1..many
  <2>1. lines \in Seq(PayLines)
    BY PayableIsSound
  <2> QED
    BY <2>1, PayableIsTrue
<1>2. v \in Sheets /\ v.driver \in Drivers /\ v.first \in Nat \ {0}
  BY DEF SheetTyped, Sheets
<1>3. Spread(v) = IF paid.left = 0 THEN paid.ps
                  ELSE Append(paid.ps, Slip(v, paid.ps, [on |-> 0, sale |-> 0], paid.left))
  BY DEF Spread
<1> HIDE DEF lines, many, rows
<1>4. after = [n \in 0..many |-> IF n = 0 THEN [ps |-> settled, left |-> v.sum]
                              ELSE Paying(v, lines, after[n - 1], n)]
  <2>1. \E f : f = [n \in 0..many |-> IF n = 0 THEN [ps |-> settled, left |-> v.sum]
                                   ELSE Paying(v, lines, f[n - 1], n)]
    <3>1. PICK ls, m : ls = lines /\ m = many
      OBVIOUS
    <3>2. m \in Nat
      BY <1>1, <3>1
    <3>3. \E f : PaidInTurn(f, v, ls, m)
      BY ONLY <3>2, PaidLineByLine
    <3>4. \E f : PaidInTurn(f, v, lines, many)
      BY <3>1, <3>3
    <3> QED
      BY <3>4 DEF PaidInTurn
  <2> QED
    BY <2>1
<1> HIDE DEF after
<1> DEFINE Here(n) == Reached(v, after[n].ps, after[n].left, v.first + n)
           A == {n \in 0..many : Here(n)}
<1>5. after[0] = [ps |-> settled, left |-> v.sum]
  BY <1>1, <1>4
<1>6. 0 \in A
  <2>1. Spent(v, settled, v.sum)
    BY <1>2, NothingIsSpent
  <2>2. \A q \in DOMAIN rows : q < v.first => Due(rows[q], settled, 0) <= 0
    BY <1>1 DEF PayableTrue
  <2>3. Reached(v, settled, v.sum, v.first)
    BY <2>1, <2>2 DEF Reached, rows
  <2>4. v.first + 0 = v.first /\ 0 \in 0..many
    BY <1>1, <1>2
  <2> QED
    BY <1>5, <2>3, <2>4
<1>7. ASSUME NEW n \in 1..many, n - 1 \in A PROVE n \in A
  <2>1. n \in 0..many /\ n # 0 /\ n \in DOMAIN lines /\ v.first + (n - 1) = v.first + n - 1
    BY <1>1, <1>2
  <2>2. after[n] = Paying(v, lines, after[n - 1], n)
    BY <1>4, <2>1
  <2>3. n = 1 => after[n - 1].ps = settled
    BY <1>5
  <2>4. Reached(v, after[n - 1].ps, after[n - 1].left, v.first + n - 1)
    BY <1>7, <2>1
  <2>5. PICK before : before = after[n - 1]
    OBVIOUS
  <2>6. Reached(v, Paying(v, lines, before, n).ps, Paying(v, lines, before, n).left, v.first + n)
    BY <1>1, <2>1, <2>3, <2>4, <2>5, LineIsPaid DEF rows
  <2> QED
    BY <2>1, <2>2, <2>5, <2>6
<1> HIDE DEF A
<1>8. Here(many)
  <2>1. \A n \in 0..many : n \in A
    BY <1>1, <1>6, <1>7, UpTo
  <2> QED
    BY <1>1, <2>1 DEF A
<1>9. PICK ps, left : ps = paid.ps /\ left = paid.left
  OBVIOUS
<1>10. /\ Spent(v, ps, left) /\ left \in Nat /\ ps \in Seq(Slips)
       /\ left > 0 => \A q \in DOMAIN rows : q < v.first + many => Due(rows[q], ps, 0) <= 0
  BY <1>8, <1>9 DEF Reached, Spent, Gained, rows
<1>11. CASE left = 0
  BY <1>3, <1>9, <1>10, <1>11
<1>12. CASE left # 0
  <2>1. PICK line, slip : line = [on |-> 0, sale |-> 0] /\ slip = Slip(v, ps, line, left)
    OBVIOUS
  <2>2. line.on = 0 /\ line.on \in Nat /\ line.sale \in Nat
    BY <2>1
  <2>3. \A q \in DOMAIN rows : q < v.first + many
    <3>1. rows \in Seq(PayLines)
      BY RowLinesAreRows DEF rows
    <3>2. DOMAIN rows = 1..Len(rows) /\ Len(rows) \in Nat /\ v.first + many > Len(rows)
      BY <1>1, <3>1 DEF PayableTrue, many
    <3> QED
      BY <1>1, <1>2, <3>2
  <2>4. left > 0
    BY <1>10, <1>12
  <2>5. \A q \in DOMAIN RowLines(v.driver) : Due(RowLines(v.driver)[q], ps, 0) <= 0
    BY <1>10, <2>3, <2>4 DEF rows
  <2>6. SlipFits(v, ps, slip, left)
    BY <1>2, <1>10, <2>1, <2>2, <2>5, SlipOnLine DEF SlipFits
  <2>7. Spent(v, Append(ps, slip), left - left)
    <3>1. left \in Nat \ {0} /\ left <= left
      BY <1>10, <1>12
    <3> QED
      BY <1>2, <1>10, <2>6, <3>1, PartIsSpent
  <2>8. Spread(v) = Append(ps, slip) /\ left - left = 0
    BY <1>3, <1>9, <1>10, <1>12, <2>1
  <2> QED
    BY <2>7, <2>8
<1> QED
  BY <1>11, <1>12

\* Whatever a request read, its settlement adds payments to its driver, and at least one.
LEMMA LineIsGained ==
    ASSUME RentsTyped, NEW v \in Sheets, v.sum \in Nat, NEW lines \in Seq(PayLines), NEW n \in DOMAIN lines,
           NEW before, Gained(v, before.ps, before.left)
    PROVE  Gained(v, Paying(v, lines, before, n).ps, Paying(v, lines, before, n).left)
<1>1. PICK ps, left, line : ps = before.ps /\ left = before.left /\ line = lines[n]
  OBVIOUS
<1>2. ps \in Seq(Slips) /\ left \in Nat /\ Gained(v, ps, left)
  BY <1>1 DEF Gained
<1>3. line \in PayLines
  BY <1>1
<1>4. line.on \in Nat /\ line.sale \in Nat /\ line.rent \in Int /\ v.due \in Int
  BY <1>3 DEF PayLines, Sheets
<1>5. PICK due : due = IF n = 1 THEN v.due ELSE Due(line, ps, 0)
  OBVIOUS
<1>6. due \in Int
  <2>1. Due(line, ps, 0) \in Int
    BY <1>2, <1>4, DueIsNumber
  <2> QED
    BY <1>4, <1>5, <2>1
<1>7. PICK part : part = Min({due, left})
  OBVIOUS
<1>8. part \in Int /\ part <= left
  <2>1. \E x \in {due, left} : \A y \in {due, left} : x <= y
    BY <1>2, <1>6
  <2>2. part \in {due, left} /\ \A y \in {due, left} : part <= y
    BY <1>7, <2>1 DEF Min
  <2> QED
    BY <1>2, <1>6, <2>2
<1>9. PICK slip : slip = Slip(v, ps, line, part)
  OBVIOUS
<1>10. Paying(v, lines, before, n) = IF part <= 0 THEN before ELSE [ps |-> Append(ps, slip), left |-> left - part]
  BY <1>1, <1>5, <1>7, <1>9 DEF Paying
<1>11. CASE part <= 0
  BY <1>10, <1>11
<1>12. CASE ~(part <= 0)
  <2>1. part \in Nat \ {0}
    BY <1>8, <1>12
  <2>2. slip \in Slips /\ slip.driver = v.driver /\ slip.form = v.form /\ slip.sum = part
    BY <1>2, <1>4, <1>8, <1>9, SlipOnLine
  <2>3. Gained(v, Append(ps, slip), left - part)
    BY <1>2, <1>8, <2>1, <2>2, PartIsGained
  <2> QED
    BY <1>10, <1>12, <2>3
<1> QED
  BY <1>11, <1>12

LEMMA SpreadIsGained ==
    ASSUME RentsTyped, PaymentsTyped, NEW v, SheetTyped(v), v.sum \in Nat
    PROVE  Gained(v, Spread(v), 0)
<1> DEFINE lines == Payable(v)
           many == Len(lines)
           after == CHOOSE f : f = [n \in 0..many |-> IF n = 0 THEN [ps |-> settled, left |-> v.sum]
                                                   ELSE Paying(v, lines, f[n - 1], n)]
           paid == after[many]
<1>1. lines \in Seq(PayLines) /\ many \in Nat /\ DOMAIN lines = 1..many
  <2>1. lines \in Seq(PayLines)
    BY PayableIsSound
  <2> QED
    BY <2>1
<1>2. v \in Sheets
  BY DEF SheetTyped
<1>3. Spread(v) = IF paid.left = 0 THEN paid.ps
                  ELSE Append(paid.ps, Slip(v, paid.ps, [on |-> 0, sale |-> 0], paid.left))
  BY DEF Spread
<1> HIDE DEF lines, many
<1>4. after = [n \in 0..many |-> IF n = 0 THEN [ps |-> settled, left |-> v.sum]
                              ELSE Paying(v, lines, after[n - 1], n)]
  <2>1. \E f : f = [n \in 0..many |-> IF n = 0 THEN [ps |-> settled, left |-> v.sum]
                                   ELSE Paying(v, lines, f[n - 1], n)]
    <3>1. PICK ls, m : ls = lines /\ m = many
      OBVIOUS
    <3>2. m \in Nat
      BY <1>1, <3>1
    <3>3. \E f : PaidInTurn(f, v, ls, m)
      BY ONLY <3>2, PaidLineByLine
    <3>4. \E f : PaidInTurn(f, v, lines, many)
      BY <3>1, <3>3
    <3> QED
      BY <3>4 DEF PaidInTurn
  <2> QED
    BY <2>1
<1> HIDE DEF after
<1> DEFINE A == {n \in 0..many : Gained(v, after[n].ps, after[n].left)}
<1>5. 0 \in A
  <2>1. Gained(v, settled, v.sum)
    BY DEF Gained, PaymentsTyped
  <2>2. after[0] = [ps |-> settled, left |-> v.sum] /\ 0 \in 0..many
    BY <1>1, <1>4
  <2> QED
    BY <2>1, <2>2
<1>6. ASSUME NEW n \in 1..many, n - 1 \in A PROVE n \in A
  <2>1. n \in 0..many /\ n # 0 /\ n \in DOMAIN lines
    BY <1>1
  <2>2. after[n] = Paying(v, lines, after[n - 1], n)
    BY <1>4, <2>1
  <2>3. PICK before : before = after[n - 1]
    OBVIOUS
  <2>4. Gained(v, Paying(v, lines, before, n).ps, Paying(v, lines, before, n).left)
    BY <1>1, <1>2, <1>6, <2>1, <2>3, LineIsGained
  <2> QED
    BY <2>1, <2>2, <2>3, <2>4
<1> HIDE DEF A
<1>7. many \in A
  <2>1. many \in 0..many
    BY <1>1
  <2> QED
    BY <1>1, <1>5, <1>6, <2>1, UpTo
<1>8. PICK ps, left : ps = paid.ps /\ left = paid.left
  OBVIOUS
<1>9. Gained(v, ps, left) /\ left \in Nat /\ ps \in Seq(Slips)
  BY <1>7, <1>8 DEF A, Gained
<1>10. CASE left = 0
  BY <1>3, <1>8, <1>9, <1>10
<1>11. CASE left # 0
  <2>1. PICK line, slip : line = [on |-> 0, sale |-> 0] /\ slip = Slip(v, ps, line, left)
    OBVIOUS
  <2>2. line.on \in Nat /\ line.sale \in Nat /\ left \in Int /\ left \in Nat \ {0} /\ left <= left
    BY <1>9, <1>11, <2>1
  <2>3. slip \in Slips /\ slip.driver = v.driver /\ slip.form = v.form /\ slip.sum = left
    BY <1>2, <1>9, <2>1, <2>2, SlipOnLine
  <2>4. Gained(v, Append(ps, slip), left - left)
    BY <1>9, <2>2, <2>3, PartIsGained
  <2>5. Spread(v) = Append(ps, slip) /\ left - left = 0
    BY <1>3, <1>8, <1>9, <1>11, <2>1
  <2> QED
    BY <2>4, <2>5
<1> QED
  BY <1>10, <1>11

\* What a request that writes does to the payments, crossed or not: it adds payments to
\* its driver, in its own form, or changes one of his and leaves it where it was.
WroteOwn(v, ps) ==
    /\ DOMAIN settled \subseteq DOMAIN ps
    /\ \A n \in DOMAIN settled : /\ ps[n].driver = settled[n].driver /\ ps[n].on = settled[n].on
                                 /\ ps[n].form = settled[n].form
    /\ \A n \in DOMAIN ps : (n \in DOMAIN settled /\ ps[n] = settled[n]) \/ ps[n].driver = v.driver
    /\ \A n \in DOMAIN ps : ps[n].sum \in Nat
    /\ v.own = 0 => \E n \in DOMAIN ps : ps[n].form = v.form

\* One payment changed, in its sum or in whether it counts.
Changed(v, ps) ==
    /\ ps \in Seq(Slips) /\ DOMAIN ps = DOMAIN settled /\ v.own \in DOMAIN settled
    /\ \A n \in DOMAIN settled \ {v.own} : ps[n] = settled[n]
    /\ ps[v.own].driver = settled[v.own].driver /\ ps[v.own].on = settled[v.own].on
    /\ ps[v.own].sale = settled[v.own].sale /\ ps[v.own].form = settled[v.own].form
    /\ settled[v.own].live => ps[v.own].live
    /\ ps[v.own].sum = IF v.page = "edit" THEN v.sum ELSE settled[v.own].sum

LEMMA ResultIsChanged ==
    ASSUME RentsTyped, PaymentsTyped, NEW v, SheetTyped(v), v.own <= Len(settled), v.own # 0
    PROVE  Changed(v, Result(v))
<1>1. /\ settled \in Seq(Slips) /\ Len(settled) \in Nat /\ DOMAIN settled = 1..Len(settled)
      /\ \A n \in DOMAIN settled : settled[n] \in Slips
  BY DEF PaymentsTyped
<1>2. v.own \in DOMAIN settled /\ v.page \in {"edit", "restore"}
  <2>1. v.own \in Nat
    BY DEF SheetTyped, Sheets
  <2> QED
    BY <1>1, <2>1 DEF SheetTyped
<1>3. Result(v) \in Seq(Slips)
  BY ResultIsSound
<1>4. CASE v.page = "edit"
  <2>1. Result(v) = [settled EXCEPT ![v.own].sum = v.sum]
    BY <1>4 DEF Result
  <2> QED
    BY <1>1, <1>2, <1>3, <1>4, <2>1 DEF Changed, Slips
<1>5. CASE v.page = "restore"
  <2>1. Result(v) = [settled EXCEPT ![v.own].live = TRUE]
    BY <1>5 DEF Result
  <2> QED
    BY <1>1, <1>2, <1>3, <1>5, <2>1 DEF Changed, Slips
<1> QED
  BY <1>2, <1>4, <1>5

LEMMA ResultIsGained ==
    ASSUME RentsTyped, PaymentsTyped, NEW v, SheetTyped(v), v.own = 0, v.sum \in Nat \ {0}
    PROVE  Gained(v, Result(v), 0)
<1>1. v \in Sheets /\ v.page \in {"driver", "accounts", "entry"}
  BY DEF SheetTyped, Sheets
<1>2. CASE v.page = "entry"
  <2>1. PICK line, slip : line = v.lines[1] /\ slip = Slip(v, settled, line, v.sum)
    OBVIOUS
  <2>2. Result(v) = Append(settled, slip)
    BY <1>2, <2>1 DEF Result
  <2>3. v.lines \in Seq(PayLines) /\ Len(v.lines) = 1
    BY <1>1, <1>2 DEF SheetTyped, Sheets
  <2>4. line \in PayLines
    BY <2>1, <2>3
  <2>5. line.on \in Nat /\ line.sale \in Nat /\ v.sum \in Int /\ settled \in Seq(Slips)
    BY <2>4 DEF PayLines, PaymentsTyped
  <2>6. slip \in Slips /\ slip.driver = v.driver /\ slip.form = v.form /\ slip.sum = v.sum
    BY <1>1, <2>1, <2>5, SlipOnLine
  <2>7. Gained(v, settled, v.sum)
    BY <2>5 DEF Gained
  <2>8. Gained(v, Append(settled, slip), v.sum - v.sum)
    BY <2>6, <2>7, PartIsGained
  <2> QED
    BY <2>2, <2>8
<1>3. CASE v.page # "entry"
  <2>1. Result(v) = Spread(v)
    BY <1>1, <1>3 DEF Result
  <2> QED
    BY <2>1, SpreadIsGained
<1> QED
  BY <1>2, <1>3

LEMMA ResultIsOwn ==
    ASSUME RentsTyped, PaymentsTyped, PaymentsOnRows, NEW v, SheetTyped(v), v.own <= Len(settled), FilledIn(v)
    PROVE  WroteOwn(v, Result(v))
<1>1. PICK ps : ps = Result(v)
  OBVIOUS
<1>2. CASE v.own = 0
  <2>1. v.sum \in Nat \ {0}
    BY <1>2 DEF FilledIn, SheetTyped
  <2>2. Gained(v, ps, 0) /\ 0 < v.sum
    BY <1>1, <1>2, <2>1, ResultIsGained
  <2>3. PICK n \in DOMAIN ps : n \notin DOMAIN settled
    BY <2>2 DEF Gained
  <2>4. ps[n].form = v.form
    BY <2>2, <2>3 DEF Gained
  <2>5. \A m \in DOMAIN ps : (m \in DOMAIN settled /\ ps[m] = settled[m]) \/ ps[m].driver = v.driver
    BY <2>2 DEF Gained
  <2>6. \A m \in DOMAIN ps : ps[m].sum \in Nat
    BY <2>2 DEF Gained, PaymentsOnRows
  <2> QED
    BY <1>1, <2>2, <2>4, <2>5, <2>6 DEF WroteOwn, Gained
<1>3. CASE v.own # 0
  <2>1. Changed(v, ps) /\ settled[v.own].driver = v.driver
    BY <1>1, <1>3, ResultIsChanged DEF FilledIn
  <2>2. \A m \in DOMAIN ps : ps[m].sum \in Nat
    <3>1. ps[v.own].sum \in Nat
      BY <2>1 DEF Changed, FilledIn, PaymentsOnRows
    <3> QED
      BY <2>1, <3>1 DEF Changed, PaymentsOnRows
  <2> QED
    BY <1>1, <1>3, <2>1, <2>2 DEF WroteOwn, Changed
<1> QED
  BY <1>2, <1>3

\* A write touches the driver of the settlement and those of the rows it is on.
LEMMA WriteStaysSo ==
    ASSUME RentsRead, RentsInv', NEW c \in Clerks, Write(c)
    PROVE  RentsRead'
<1>1. RentsTyped /\ PaymentsTyped /\ VisitsTyped /\ PaymentsOnRows /\ PaymentsTyped'
  BY DEF RentsRead, RentsInv
<1>2. PICK v, ps, new, paid :
         /\ v = visit[c] /\ ps = Result(v)
         /\ new = {n \in DOMAIN ps : n \in DOMAIN settled => ps[n] # settled[n]}
         /\ paid = {v.driver} \cup UNION {Payees(ps[n]) : n \in new}
  OBVIOUS
<1>3. /\ v.step = "ready" /\ Accepted(v, ps) /\ settled' = ps
      /\ visit' = [After(paid, v.from, v.form) EXCEPT ![c] = Away]
      /\ owing' = owing /\ oldRent' = oldRent /\ row' = row
  BY <1>2 DEF Write
<1>4. v # Away /\ SheetTyped(v) /\ v.own <= Len(settled) /\ FilledIn(v)
  <2>1. v # Away
    BY <1>3 DEF Away
  <2> QED
    BY <1>1, <1>2, <2>1 DEF VisitsTyped, RentsRead
<1>5. WroteOwn(v, ps)
  BY <1>1, <1>2, <1>4, ResultIsOwn
<1>6. KeepsPayments
  BY <1>3, <1>5 DEF KeepsPayments, WroteOwn
<1>7. PaymentsOnRows'
  BY <1>3, <1>5 DEF PaymentsOnRows, WroteOwn, Accepted
<1>8. ASSUME NEW d \in Drivers, d \notin paid PROVE Unmoved(d)
  <2>1. ASSUME NEW n \in DOMAIN ps, ~(n \in DOMAIN settled /\ ps[n] = settled[n]) PROVE Aside(ps[n], d)
    <3>1. ps[n].driver # d
      BY <1>2, <1>5, <1>8, <2>1 DEF WroteOwn
    <3>2. n \in new
      BY <1>2, <2>1
    <3>3. d \notin Payees(ps[n])
      BY <1>2, <1>8, <3>2
    <3>4. ps[n].on \notin LiveRows(d)
      BY <3>3 DEF Payees, LiveRows
    <3> QED
      BY <3>1, <3>4 DEF Aside
  <2>2. ASSUME NEW n \in DOMAIN settled' PROVE (n \in DOMAIN settled /\ settled'[n] = settled[n]) \/ Aside(settled'[n], d)
    BY <1>3, <2>1
  <2> QED
    BY <1>3, <2>2 DEF Unmoved, LiveRows, OldRents
<1>9. v.form \in Forms => ~Unused(v.form)'
  <2>1. v.form \in Forms => v.own = 0
    BY <1>4, RentsAssumption DEF FilledIn
  <2> QED
    BY <1>3, <1>5, <2>1 DEF WroteOwn, Unused
<1>10. ASSUME NEW b \in Clerks, visit'[b] # Away PROVE FilledIn(visit[b])' /\ StillSo(visit[b])'
  <2>1. b # c /\ visit'[b] = After(paid, v.from, v.form)[b]
    BY <1>3, <1>10 DEF After
  <2>2. PICK w, form, account : w = visit'[b] /\ form = v.form /\ account = v.from
    OBVIOUS
  <2>3. \A d \in Drivers : d \in paid \/ Unmoved(d)
    BY <1>8
  <2>4. form \in Forms => ~Unused(form)'
    BY <1>9, <2>2
  <2>5. FilledIn(w)' /\ StillSo(w)'
    BY <1>1, <1>6, <1>10, <2>1, <2>2, <2>3, <2>4, OthersStaySo
  <2> QED
    BY <2>2, <2>5
<1> QED
  BY <1>7, <1>10 DEF RentsRead, Away

\* All that is written comes from what was read.
LEMMA RentsStayRead == RentsRead /\ [RentsNext]_rentVars => RentsRead'
<1> SUFFICES ASSUME RentsRead, [RentsNext]_rentVars PROVE RentsRead'
  OBVIOUS
<1>1. RentsInv'
  BY RentsStaySound DEF RentsRead
<1>2. CASE UNCHANGED rentVars
  <2>1. UNCHANGED <<owing, oldRent, row, settled, visit>>
    BY <1>2 DEF rentVars
  <2>2. KeepsPayments /\ \A d : Unmoved(d)
    BY <2>1, NothingMoves
  <2>3. RentsTyped /\ PaymentsTyped /\ VisitsTyped /\ PaymentsOnRows /\ RentsTyped' /\ PaymentsTyped'
    BY <1>1 DEF RentsRead, RentsInv
  <2>4. PaymentsOnRows'
    BY <2>1, <2>3 DEF PaymentsOnRows
  <2>5. ASSUME NEW c \in Clerks, visit'[c] # Away PROVE FilledIn(visit[c])' /\ StillSo(visit[c])'
    <3>1. PICK v : v = visit[c]
      OBVIOUS
    <3>2. v # Away /\ SheetTyped(v) /\ v.own <= Len(settled) /\ FilledIn(v) /\ StillSo(v)
      BY <2>1, <2>3, <2>5, <3>1 DEF VisitsTyped, RentsRead
    <3>3. v.own \in DOMAIN settled \cup {0}
      <4>1. v.own \in Nat /\ DOMAIN settled = 1..Len(settled) /\ Len(settled) \in Nat
        BY <2>3, <3>2 DEF SheetTyped, Sheets, PaymentsTyped
      <4> QED
        BY <3>2, <4>1
    <3>4. FilledIn(v)' /\ StillSo(v)'
      BY <2>2, <2>3, <3>2, <3>3, FilledInStays, StillSoStays
    <3>5. visit'[c] = v
      BY <2>1, <3>1
    <3> QED
      BY <3>4, <3>5
  <2> QED
    BY <1>1, <2>4, <2>5 DEF RentsRead, Away
<1>3. CASE \E s \in SaleDates : DeleteSale(s) \/ \E who \in Assignments : AddSale(s, who) \/ EditSale(s, who)
  BY <1>1, <1>3, SaleStaysSo, DeletedSaleStaysSo
<1>4. CASE \/ \E i \in DOMAIN row : DeleteEntry(i)
           \/ \E d \in Drivers, n \in Openings : ChangeOpening(d, n)
           \/ \E n \in DOMAIN settled : VoidPayment(n)
  BY <1>1, <1>4, RecordsStaySo
<1>5. ASSUME NEW c \in Clerks, LoadAccount(c) \/ Read(c) \/ Leave(c) PROVE RentsRead'
  BY <1>1, <1>5, ReadStaysSo
<1>6. ASSUME NEW c \in Clerks, Write(c) PROVE RentsRead'
  BY <1>1, <1>6, WriteStaysSo
<1>7. ASSUME NEW c \in Clerks,
             \/ \E n \in DOMAIN settled : OpenRestore(c, n) \/ \E sum \in Sums : OpenEdit(c, n, sum)
             \/ \E from \in Accounts \cup {Waived}, sum \in Sums, form \in Forms :
                   \/ \E d \in Drivers : \/ OpenDriverPage(c, d, from, sum, form)
                                         \/ OpenAccountsPage(c, d, from, sum, form)
                   \/ \E i \in DOMAIN row : OpenEntry(c, i, from, sum, form)
      PROVE  RentsRead'
  BY <1>1, <1>7, BegunStaysSo
<1> QED
  BY <1>2, <1>3, <1>4, <1>5, <1>6, <1>7 DEF RentsNext

LEMMA RentsBeginRead == RentsInit => RentsRead
<1> SUFFICES ASSUME RentsInit PROVE RentsRead
  OBVIOUS
<1>1. PaymentsOnRows /\ \A c \in Clerks : visit[c] = Away
  BY DEF RentsInit, PaymentsOnRows
<1> QED
  BY <1>1, RentsBeginSound DEF RentsRead

\* One payment changed: a row is not paid beyond its rent that was not, when what it
\* comes to was due on it without it.
LEMMA ChangeKeepsRow ==
    ASSUME PaymentsTyped, NEW v, NEW ps, Changed(v, ps), NEW line, line.rent \in Int,
           OnLine(ps[v.own], line) => ps[v.own].sum <= Due(line, settled, v.own)
    PROVE  Due(line, ps, 0) >= 0 \/ Due(line, ps, 0) >= Due(line, settled, 0)
<1>1. PICK own : own = v.own
  OBVIOUS
<1>2. /\ ps \in Seq(Slips) /\ settled \in Seq(Slips) /\ own \in DOMAIN settled /\ own \in DOMAIN ps
      /\ ps[own].sum \in Int
  BY <1>1, PaymentsAreMany DEF Changed, PaymentsTyped
<1>3. Due(line, ps, own) = Due(line, settled, own)
  <2>1. SamePaid(line, settled, ps, own)
    BY <1>1 DEF SamePaid, Changed
  <2> QED
    BY <1>2, <2>1, DueOfSame
<1>4. /\ Due(line, ps, 0) = IF OnLine(ps[own], line) THEN Due(line, ps, own) - ps[own].sum ELSE Due(line, ps, own)
      /\ ~OnLine(settled[own], line) => Due(line, settled, 0) = Due(line, settled, own)
  BY <1>2, DueWithOwn
<1>5. Due(line, ps, 0) \in Int /\ Due(line, settled, 0) \in Int /\ Due(line, settled, own) \in Int
  BY <1>2, DueIsNumber
<1>6. CASE OnLine(ps[own], line)
  <2>1. ps[own].sum <= Due(line, settled, own)
    BY <1>1, <1>6
  <2> QED
    BY <1>2, <1>3, <1>4, <1>5, <1>6, <2>1
<1>7. CASE ~OnLine(ps[own], line)
  <2>1. ~OnLine(settled[own], line)
    BY <1>1, <1>7 DEF Changed, OnLine
  <2> QED
    BY <1>3, <1>4, <1>5, <1>7, <2>1
<1> QED
  BY <1>6, <1>7

\* ... and the driver is not overpaid, when it was owed him without it.
LEMMA ChangeKeepsCharge ==
    ASSUME PaymentsTyped, NEW v, NEW ps, Changed(v, ps), ps[v.own].sum \in Nat, NEW d
    PROVE  SumOf(ps, Charged(d, ps, 0)) <= SumOf(settled, Charged(d, settled, v.own)) + ps[v.own].sum
<1>1. PICK own : own = v.own
  OBVIOUS
<1>2. ps \in Seq(Slips) /\ settled \in Seq(Slips) /\ own \in DOMAIN settled /\ own \in DOMAIN ps
  BY <1>1 DEF Changed, PaymentsTyped
<1>3. SumOf(ps, Charged(d, ps, 0)) <= SumOf(ps, Charged(d, ps, own)) + ps[own].sum
  BY <1>1, <1>2, ChargedWithOwn
<1>4. Charged(d, ps, own) = Charged(d, settled, own)
  BY <1>1 DEF Charged, Changed
<1>5. SumOf(ps, Charged(d, settled, own)) = SumOf(settled, Charged(d, settled, own))
  <2>1. PICK A : A = Charged(d, settled, own)
    OBVIOUS
  <2>2. A \subseteq DOMAIN settled /\ A \subseteq DOMAIN ps /\ \A n \in A : ps[n].sum = settled[n].sum
    BY <1>1, <2>1 DEF Charged, Changed
  <2> QED
    BY <1>2, <2>1, <2>2, SumOfSame
<1> QED
  BY <1>1, <1>3, <1>4, <1>5

\* What a request that nothing crossed leaves of the driver's rows, and of what is
\* charged to him.
WrittenWithin(v, ps) ==
    /\ \A i \in LiveRows(v.driver) : KeptRow(ps, i)
    /\ v.page # "restore" => SumOf(ps, Charged(v.driver, ps, 0)) <= Worth(v.driver)

LEMMA ResultIsWithin ==
    ASSUME RentsTyped, PaymentsTyped, PaymentsOnRows, NEW v, SheetTyped(v), v.own <= Len(settled),
           FilledIn(v), StillSo(v), v.step = "ready", Uncrossed(v),
           v.page = "restore" => v.sum = settled[v.own].sum
    PROVE  WrittenWithin(v, Result(v))
<1>1. PICK ps, d : ps = Result(v) /\ d = v.driver
  OBVIOUS
<1>2. v \in Sheets /\ d \in Drivers /\ v.sum \in Int
  BY <1>1 DEF SheetTyped, Sheets
<1>3. \A own : /\ Worth(d) \in Int /\ SumOf(settled, Charged(d, settled, own)) \in Int
               /\ Owed(d, own) = Worth(d) - SumOf(settled, Charged(d, settled, own))
  BY <1>2, OwedIsRest
<1>4. ASSUME Spent(v, ps, 0), v.sum <= Owed(d, 0) PROVE WrittenWithin(v, ps)
  <2>1. PICK a, b : a = SumOf(ps, Charged(d, ps, 0)) /\ b = SumOf(settled, Charged(d, settled, 0))
    OBVIOUS
  <2>2. ps \in Seq(Slips) /\ a + 0 <= b + v.sum
    BY <1>1, <1>4, <2>1 DEF Spent, Gained
  <2>3. a \in Int /\ b \in Int /\ v.sum <= Worth(d) - b /\ Worth(d) \in Int
    <3>1. a \in Int
      BY <2>1, <2>2, SumOfIsNumber DEF Charged
    <3> QED
      BY <1>3, <1>4, <2>1, <3>1
  <2>4. a <= Worth(d)
    BY <1>2, <2>2, <2>3
  <2> QED
    BY <1>1, <1>4, <2>1, <2>4 DEF WrittenWithin, Spent
<1>5. CASE v.page = "entry"
  <2>1. v.own = 0 /\ v.sum \in Nat \ {0}
    BY <1>5 DEF SheetTyped, FilledIn
  <2>2. PICK line, slip : line = v.lines[1] /\ slip = Slip(v, settled, line, v.sum)
    OBVIOUS
  <2>3. /\ line.on \in LiveRows(d) /\ line = RowLine(line.on)
        /\ v.sum <= Due(line, settled, 0) /\ v.sum <= Owed(d, 0)
    BY <1>1, <1>5, <2>2 DEF StillSo, EntryStillSo
  <2>4. line.on \in Nat /\ line.on # 0 /\ line.sale \in Nat /\ settled \in Seq(Slips)
    <3>1. line.on \in DOMAIN row
      BY <2>3 DEF LiveRows
    <3>2. line.sale = row[line.on].sale
      BY <2>3 DEF RowLine
    <3> QED
      BY <3>1, <3>2 DEF RentsTyped, RentRows, PaymentsTyped
  <2>5. SlipFits(v, settled, slip, v.sum)
    <3>1. slip \in Slips /\ slip.driver = v.driver /\ slip.form = v.form /\ slip.sum = v.sum /\ slip.on = line.on
      BY <1>2, <2>2, <2>4, SlipOnLine
    <3> QED
      BY <1>1, <2>3, <3>1 DEF SlipFits
  <2>6. Spent(v, settled, v.sum)
    BY <1>1, <1>2, <2>1, NothingIsSpent
  <2>7. Spent(v, Append(settled, slip), v.sum - v.sum)
    BY <1>1, <1>2, <2>1, <2>5, <2>6, PartIsSpent
  <2>8. ps = Append(settled, slip) /\ v.sum - v.sum = 0
    BY <1>1, <1>2, <1>5, <2>2 DEF Result
  <2> QED
    BY <1>1, <1>4, <2>3, <2>7, <2>8
<1>6. CASE v.page \in {"driver", "accounts"}
  <2>1. v.own = 0 /\ v.sum \in Nat /\ ps = Spread(v)
    BY <1>1, <1>6 DEF SheetTyped, FilledIn, Result
  <2>2. Listed(v) = v /\ v.sum <= Owed(d, 0)
    BY <1>1, <1>6 DEF StillSo, ListStillSo
  <2>3. Spent(v, ps, 0)
    BY <1>2, <2>1, <2>2, ListedIsTrue, SpreadIsSpent
  <2> QED
    BY <1>1, <1>4, <2>2, <2>3
<1>7. CASE v.own # 0
  <2>1. Changed(v, ps) /\ ChangeStillSo(v)
    BY <1>1, <1>7, ResultIsChanged DEF StillSo
  <2>2. PICK own : own = v.own
    OBVIOUS
  <2>3. own \in DOMAIN settled /\ v.lines = Line(settled[own]) /\ v.page \in {"edit", "restore"}
    BY <1>2, <1>7, <2>1, <2>2 DEF Changed, FilledIn, SheetTyped
  <2>4. ps[own].sum = v.sum /\ ps[own].on = settled[own].on
    BY <2>1, <2>2, <2>3 DEF Changed
  <2>5. v.sum \in Nat
    BY <2>3, <2>2 DEF PaymentsOnRows, FilledIn
  <2>6. ASSUME NEW i \in LiveRows(d) PROVE KeptRow(ps, i)
    <3>1. PICK line : line = RowLine(i)
      OBVIOUS
    <3>2. line.on = i /\ line.rent \in Int /\ i \in DOMAIN row
      BY <3>1 DEF RowLine, LiveRows, RentsTyped, RentRows
    <3>3. ASSUME OnLine(ps[own], line) PROVE ps[own].sum <= Due(line, settled, own)
      <4>1. settled[own].on = i
        BY <2>4, <3>2, <3>3 DEF OnLine
      <4>2. v.lines = <<line>>
        BY <2>3, <3>1, <3>2, <4>1 DEF Line
      <4>3. 1 \in DOMAIN v.lines /\ v.lines[1] = line
        BY <4>2
      <4>4. v.sum <= Due(line, settled, own)
        BY <1>1, <2>1, <2>2, <3>2, <4>3 DEF ChangeStillSo
      <4> QED
        BY <2>4, <4>4
    <3>4. Due(line, ps, 0) >= 0 \/ Due(line, ps, 0) >= Due(line, settled, 0)
      BY <2>1, <2>2, <3>2, <3>3, ChangeKeepsRow
    <3> QED
      BY <3>1, <3>4 DEF KeptRow
  <2>7. ASSUME v.page # "restore" PROVE SumOf(ps, Charged(d, ps, 0)) <= Worth(d)
    <3>1. PICK a, b : a = SumOf(ps, Charged(d, ps, 0)) /\ b = SumOf(settled, Charged(d, settled, own))
      OBVIOUS
    <3>2. v.sum <= Owed(d, own)
      BY <1>1, <2>1, <2>2, <2>3, <2>7 DEF ChangeStillSo
    <3>3. a <= b + v.sum
      BY <2>1, <2>2, <2>4, <2>5, <3>1, ChangeKeepsCharge
    <3>4. a \in Int /\ b \in Int /\ Worth(d) \in Int /\ v.sum <= Worth(d) - b
      <4>1. a \in Int
        BY <2>1, <3>1, SumOfIsNumber DEF Charged, Changed
      <4> QED
        BY <1>3, <3>1, <3>2, <4>1
    <3>5. a <= Worth(d)
      BY <1>2, <3>3, <3>4
    <3> QED
      BY <3>1, <3>5
  <2> QED
    BY <1>1, <2>6, <2>7 DEF WrittenWithin
<1>8. v.own # 0 <=> v.page \in {"edit", "restore"}
  BY DEF SheetTyped
<1> QED
  BY <1>1, <1>2, <1>5, <1>6, <1>7, <1>8 DEF Sheets

\* The step of the property: the payments are written by the request itself.
WithinOwedNow(c, d) ==
    LET v == visit[c] IN
    /\ v.step = "ready" /\ visit'[c].step = "away" /\ settled' # settled
    /\ v.driver = d /\ ~v.crossed
    /\ v.page = "restore" => v.sum = settled[v.own].sum
    => /\ v.page # "restore" => Owed(d, 0)' >= 0
       /\ \A i \in LiveRows(d) :
             \/ Due(RowLine(i), settled, 0)' >= 0
             \/ Due(RowLine(i), settled, 0)' >= Due(RowLine(i), settled, 0)

LEMMA WriteIsWithin ==
    ASSUME RentsRead, RentsInv', NEW c \in Clerks, Write(c), NEW d \in Drivers
    PROVE  WithinOwedNow(c, d)
<1>1. RentsTyped /\ PaymentsTyped /\ VisitsTyped /\ PaymentsOnRows /\ RentsTyped' /\ PaymentsTyped'
  BY DEF RentsRead, RentsInv
<1>2. PICK v, ps : v = visit[c] /\ ps = Result(v)
  OBVIOUS
<1>3. /\ v.step = "ready" /\ ~v.stale /\ (v.own = 0 => Unused(v.form)) /\ settled' = ps
      /\ owing' = owing /\ oldRent' = oldRent /\ row' = row
  BY <1>2 DEF Write, Fresh, Accepted
<1>4. SUFFICES ASSUME v.driver = d, ~v.crossed, v.page = "restore" => v.sum = settled[v.own].sum
               PROVE  /\ v.page # "restore" => Owed(d, 0)' >= 0
                      /\ \A i \in LiveRows(d) :
                            \/ Due(RowLine(i), settled, 0)' >= 0
                            \/ Due(RowLine(i), settled, 0)' >= Due(RowLine(i), settled, 0)
  BY <1>2 DEF WithinOwedNow
<1>5. SheetTyped(v) /\ v.own <= Len(settled) /\ FilledIn(v) /\ StillSo(v)
  <2>1. v # Away
    BY <1>3 DEF Away
  <2> QED
    BY <1>1, <1>2, <2>1 DEF VisitsTyped, RentsRead
<1>6. WrittenWithin(v, ps)
  <2>1. Uncrossed(v)
    BY <1>3, <1>4 DEF Uncrossed
  <2> QED
    BY <1>1, <1>2, <1>3, <1>4, <1>5, <2>1, ResultIsWithin
<1>7. ASSUME v.page # "restore" PROVE Owed(d, 0)' >= 0
  <2>1. OwedRightAlways'
    BY <1>1, OwedIsAlwaysRest, PTL
  <2>2. /\ Worth(d)' \in Int /\ SumOf(settled, Charged(d, settled, 0))' \in Int
        /\ Owed(d, 0)' = Worth(d)' - SumOf(settled, Charged(d, settled, 0))'
    BY <2>1 DEF OwedRightAlways, OwedRight
  <2>3. Worth(d)' = Worth(d)
    BY <1>3 DEF Worth, LiveRows, Uncovered
  <2>4. Charged(d, settled, 0)' = Charged(d, ps, 0)
    BY <1>3 DEF Charged, InForce
  <2>5. SumOf(settled, Charged(d, settled, 0))' = SumOf(ps, Charged(d, ps, 0))
    BY <1>3, <2>4 DEF SumOf
  <2>6. SumOf(ps, Charged(d, ps, 0)) <= Worth(d)
    BY <1>4, <1>6, <1>7 DEF WrittenWithin
  <2> QED
    BY <2>2, <2>3, <2>5, <2>6
<1>8. ASSUME NEW i \in LiveRows(d)
      PROVE  Due(RowLine(i), settled, 0)' >= 0 \/ Due(RowLine(i), settled, 0)' >= Due(RowLine(i), settled, 0)
  <2>1. Due(RowLine(i), settled, 0)' = Due(RowLine(i), ps, 0)
    <3>1. RowLine(i)' = RowLine(i)
      BY <1>3 DEF RowLine
    <3> QED
      BY <1>3, <3>1 DEF Due
  <2>2. KeptRow(ps, i)
    BY <1>4, <1>6 DEF WrittenWithin
  <2> QED
    BY <2>1, <2>2 DEF KeptRow
<1> QED
  BY <1>7, <1>8

LEMMA RentsStayWithin ==
    ASSUME RentsRead, [RentsNext]_rentVars, NEW c \in Clerks, NEW d \in Drivers
    PROVE  WithinOwedNow(c, d)
<1>1. RentsInv' /\ VisitsTyped /\ PaymentsTyped
  BY RentsStaySound DEF RentsRead, RentsInv
<1>2. PICK v : v = visit[c]
  OBVIOUS
<1> SUFFICES ASSUME v.step = "ready", visit'[c].step = "away", settled' # settled
             PROVE  WithinOwedNow(c, d)
  BY <1>2 DEF WithinOwedNow
<1>3. v # Away
  BY DEF Away
<1>4. \A drivers, account, form : After(drivers, account, form)[c].step = "ready"
  <2> TAKE drivers, account, form
  <2>1. SheetTyped(v) /\ Marked(v, After(drivers, account, form)[c])
    BY <1>1, <1>2, <1>3, AfterMarks
  <2> QED
    BY <2>1 DEF Marked, SheetTyped, Sheets
<1>5. PICK b \in Clerks : Write(b)
  <2>1. \A n : ~VoidPayment(n)
    <3> SUFFICES ASSUME NEW n, VoidPayment(n) PROVE FALSE
      OBVIOUS
    <3>1. visit' = After({settled[n].driver} \cup Payees(settled[n]), settled[n].from, Waived)
      BY DEF VoidPayment, Move
    <3> QED
      BY <1>4, <3>1
  <2>2. \A s : ~DeleteSale(s) /\ \A who : ~AddSale(s, who) /\ ~EditSale(s, who)
    BY DEF DeleteSale, AddSale, EditSale
  <2>3. \A i : ~DeleteEntry(i)
    BY DEF DeleteEntry
  <2>4. \A e, n : ~ChangeOpening(e, n)
    BY DEF ChangeOpening
  <2>5. \A w, b : ~Go(b, w) /\ ~Arrive(b, w)
    BY DEF Go, Arrive
  <2>6. \A b : ~LoadAccount(b) /\ ~Read(b) /\ ~Leave(b)
    BY <2>5 DEF LoadAccount, Read, Leave
  <2>7. \A b, n, sum : ~OpenRestore(b, n) /\ ~OpenEdit(b, n, sum)
    BY <2>5 DEF OpenRestore, OpenEdit
  <2>8. \A b, e, from, sum, form : /\ ~OpenDriverPage(b, e, from, sum, form)
                                  /\ ~OpenAccountsPage(b, e, from, sum, form)
                                  /\ ~OpenEntry(b, e, from, sum, form)
    BY <2>5 DEF OpenDriverPage, OpenAccountsPage, OpenEntry
  <2>9. RentsNext
    BY DEF rentVars
  <2> QED
    BY <2>1, <2>2, <2>3, <2>4, <2>6, <2>7, <2>8, <2>9 DEF RentsNext
<1>6. b = c
  <2>1. PICK drivers, account, form : visit' = [After(drivers, account, form) EXCEPT ![b] = Away]
    BY <1>5 DEF Write
  <2>2. b # c => visit'[c] = After(drivers, account, form)[c]
    BY <2>1 DEF After
  <2> QED
    BY <1>4, <2>2
<1> QED
  BY <1>1, <1>5, <1>6, WriteIsWithin

\* "Settlement may not exceed what the driver is actually owed": a settlement, or an
\* edit of one, leaves the driver nothing overpaid and no row beyond its rent, although
\* both are read before the write, unless something crossed it: for any sales,
\* drivers, accounts, forms, sums and number of requests.
THEOREM SettledWithinOwedHolds == RentsSpec => SettledWithinOwed
<1>1. RentsRead /\ [RentsNext]_rentVars => \A c \in Clerks, d \in Drivers : WithinOwedNow(c, d)
  BY RentsStayWithin
<1>2. RentsRead /\ [RentsNext]_rentVars =>
         [\A c \in Clerks, d \in Drivers :
            LET v == visit[c] IN
            /\ v.step = "ready" /\ visit'[c].step = "away" /\ settled' # settled
            /\ v.driver = d /\ ~v.crossed
            /\ v.page = "restore" => v.sum = settled[v.own].sum
            => /\ v.page # "restore" => Owed(d, 0)' >= 0
               /\ \A i \in LiveRows(d) :
                     \/ Due(RowLine(i), settled, 0)' >= 0
                     \/ Due(RowLine(i), settled, 0)' >= Due(RowLine(i), settled, 0)]_rentVars
  BY <1>1 DEF WithinOwedNow
<1> QED
  BY RentsBeginRead, RentsStayRead, <1>2, PTL DEF RentsSpec, SettledWithinOwed
===============================================================================
