------------------------ MODULE LotsAndNumbers_proofs ------------------------
(***************************************************************************)
(* Proofs that the lock flag of a GRN line equals the allocations it is    *)
(* derived from and that no allocation names a deleted line, for every     *)
(* number of lots, sales and concurrent requests and every stale read;     *)
(* that while nothing races the stock of locked lots stays, sales take the *)
(* oldest lots first, and no lot is consumed beyond what it received;      *)
(* about the numbers of all documents, for any pages and databases; and    *)
(* what an import job and its upload say, for any requests and rows.       *)
(***************************************************************************)
EXTENDS GrnHistory, BillNumbers, ImportJobs, SumTheorems, TLAPS

\* What a lot row, an allocation row and a pending request look like.  Nothing is
\* said of the planned quantities: the argument does not depend on them.
Shape ==
    /\ lot \in [Lots -> [st : {"none", "live", "void"}, qty : Quantities \cup {0},
                         locked : BOOLEAN]]
    /\ sale \in [Sales -> {"none", "active", "void"}]
    /\ alloc = [s \in Sales |-> [g \in Lots |-> alloc[s][g]]]
    /\ req = [r \in Requests |-> req[r]]
    /\ \A r \in Requests :
        /\ req[r].op \in {"post", "edit"} =>
                req[r].sale \in Sales /\ req[r].plan = [g \in Lots |-> req[r].plan[g]]
        /\ req[r].op \in {"editGrn", "deleteGrn"} => req[r].lot \in Lots

\* The two properties support each other: a lot is found unused when it is
\* deleted because its flag and rows agree, and a flag is found refreshed
\* because no touched lot is missing.
IInv == Shape /\ LockMatchesUse /\ AllocationsHaveLots

\* Init establishes the invariant: nothing is sold, and a void sale locks nothing.
LEMMA InitInv == Init => IInv
<1> SUFFICES ASSUME Init PROVE IInv
  OBVIOUS
<1>1. Shape
  BY LegacyAssumption DEF Init, Shape, NoLot, NoAlloc, Idle
<1>2. LockMatchesUse
  BY DEF Init, LockMatchesUse, UsedIn, NoLot
<1>3. AllocationsHaveLots
  BY DEF Init, AllocationsHaveLots, NoLot, NoAlloc
<1> QED
  BY <1>1, <1>2, <1>3 DEF IInv

LotRows == [st : {"none", "live", "void"}, qty : Quantities \cup {0}, locked : BOOLEAN]

\* A transaction that changes one sale and refreshes every lot the sale had or
\* has leaves all flags right.
LEMMA RefreshKeeps ==
    ASSUME IInv, NEW s \in Sales, NEW T,
           sale' \in [Sales -> {"none", "active", "void"}],
           alloc' = [q \in Sales |-> [g \in Lots |-> alloc'[q][g]]],
           \A q \in Sales \ {s} : sale'[q] = sale[q] /\ alloc'[q] = alloc[q],
           \A g \in Lots \ T : alloc[s][g] = 0 /\ alloc'[s][g] = 0,
           \A g \in Lots : alloc'[s][g] # 0 => lot[g].st # "none",
           lot' = Refresh(lot, T, sale', alloc')
    PROVE  lot' \in [Lots -> LotRows] /\ LockMatchesUse' /\ AllocationsHaveLots'
<1>1. \A g \in Lots : /\ lot[g] \in LotRows
                     /\ lot'[g].st = lot[g].st
                     /\ lot'[g] \in LotRows
                     /\ lot'[g].locked = IF g \in T /\ lot[g].st # "none"
                                        THEN UsedIn(g, sale', alloc') ELSE lot[g].locked
  <2> TAKE g \in Lots
  <2>1. lot[g] \in LotRows
    BY DEF IInv, Shape, LotRows
  <2>2. UsedIn(g, sale', alloc') \in BOOLEAN
    BY DEF UsedIn
  <2>3. lot'[g] = IF g \in T /\ lot[g].st # "none"
                  THEN [lot[g] EXCEPT !.locked = UsedIn(g, sale', alloc')] ELSE lot[g]
    BY DEF Refresh
  <2> HIDE DEF UsedIn
  <2>4. CASE g \in T /\ lot[g].st # "none"
    BY <2>1, <2>2, <2>3, <2>4 DEF LotRows
  <2>5. CASE ~(g \in T /\ lot[g].st # "none")
    BY <2>1, <2>3, <2>5
  <2> QED
    BY <2>4, <2>5
<1>2. AllocationsHaveLots'
  BY <1>1 DEF IInv, AllocationsHaveLots
<1>3. ASSUME NEW g \in Lots PROVE lot'[g].locked <=> UsedIn(g, sale', alloc')
  <2>1. CASE g \in T /\ lot[g].st # "none"
    BY <1>1, <2>1
  <2>2. CASE g \in T /\ lot[g].st = "none"
    <3>1. ~UsedIn(g, sale, alloc) /\ ~lot[g].locked
      BY <2>2 DEF IInv, AllocationsHaveLots, LockMatchesUse, UsedIn
    <3>2. ~UsedIn(g, sale', alloc')
      BY <1>1, <1>2, <2>2 DEF AllocationsHaveLots, UsedIn
    <3> QED
      BY <1>1, <2>2, <3>1, <3>2
  <2>3. CASE g \notin T
    <3>1. UsedIn(g, sale', alloc') <=> UsedIn(g, sale, alloc)
      BY <2>3 DEF UsedIn
    <3> QED
      BY <1>1, <2>3, <3>1 DEF IInv, LockMatchesUse
  <2> QED
    BY <2>1, <2>2, <2>3
<1> QED
  <2>1. LockMatchesUse'
    BY <1>3 DEF LockMatchesUse
  <2>2. lot' = [g \in Lots |-> lot'[g]]
    BY DEF Refresh
  <2> QED
    BY <1>1, <1>2, <2>1, <2>2

\* Every step keeps the invariant: the three sale writes by RefreshKeeps, the
\* GRN writes because they keep the flag and delete only what no row names.
LEMMA StepInv == IInv /\ [Next]_vars => IInv'
<1> SUFFICES ASSUME IInv, [Next]_vars PROVE IInv'
  OBVIOUS
<1> USE DEF LotRows
<1>0. CASE UNCHANGED vars
  BY <1>0 DEF vars, IInv, Shape, LockMatchesUse, AllocationsHaveLots, UsedIn
<1> SUFFICES ASSUME NEW r \in Requests,
                    \/ ReceiveGrn(r) \/ PlanSale(r) \/ PlanEditSale(r) \/ WriteSale(r)
                    \/ Abort(r) \/ DeleteSale(r) \/ RestoreSale(r) \/ CheckGrn(r)
                    \/ WriteGrn(r) \/ DeleteGrn(r)
             PROVE  IInv'
  BY <1>0 DEF Next
<1>1. CASE ReceiveGrn(r)
  <2>1. PICK g \in Lots, n \in Quantities :
            /\ lot[g].st = "none"
            /\ lot' = [lot EXCEPT ![g] = [st |-> "live", qty |-> n, locked |-> FALSE]]
    BY <1>1 DEF ReceiveGrn
  <2>2. ~UsedIn(g, sale, alloc)
    BY <2>1 DEF IInv, AllocationsHaveLots, UsedIn
  <2>3. UNCHANGED <<sale, alloc, req>>
    BY <1>1 DEF ReceiveGrn
  <2>4. Shape'
    BY <2>1, <2>3 DEF IInv, Shape
  <2>5. LockMatchesUse'
    BY <2>1, <2>2, <2>3 DEF IInv, Shape, LockMatchesUse, UsedIn
  <2>6. AllocationsHaveLots'
    BY <2>1, <2>3 DEF IInv, Shape, AllocationsHaveLots
  <2> QED
    BY <2>4, <2>5, <2>6 DEF IInv
<1>2. ASSUME UNCHANGED <<lot, sale, alloc>>, Shape' PROVE IInv'
  BY <1>2 DEF IInv, LockMatchesUse, AllocationsHaveLots, UsedIn
<1>3. ASSUME NEW s \in Sales, NEW lines \in Forms, NEW asOf \in Lots,
             NEW X \in SUBSET Sales, NEW op \in {"post", "edit"},
             req' = [req EXCEPT ![r] = [op |-> op, sale |-> s, plan |-> Plan(lines, asOf, X)]],
             UNCHANGED <<lot, sale, alloc>>
      PROVE  IInv'
  <2> DEFINE P == Plan(lines, asOf, X)
  <2>1. P = [g \in Lots |-> P[g]]
    BY DEF Plan
  <2>2. req' = [req EXCEPT ![r] = [op |-> op, sale |-> s, plan |-> P]]
    BY <1>3
  <2>3. UNCHANGED <<lot, sale, alloc>>
    BY <1>3
  <2> HIDE DEF P
  <2>4. /\ req' = [q \in Requests |-> req'[q]]
        /\ \A q \in Requests : q # r => req'[q] = req[q]
        /\ req'[r] = [op |-> op, sale |-> s, plan |-> P]
    BY <2>2 DEF IInv, Shape
  <2>5. ASSUME NEW q \in Requests
        PROVE  /\ req'[q].op \in {"post", "edit"} =>
                    req'[q].sale \in Sales /\ req'[q].plan = [g \in Lots |-> req'[q].plan[g]]
               /\ req'[q].op \in {"editGrn", "deleteGrn"} => req'[q].lot \in Lots
    <3>1. CASE q = r
      <4>1. req'[q].op = op /\ req'[q].sale = s /\ req'[q].plan = P
        BY <2>4, <3>1
      <4> QED
        BY <2>1, <4>1
    <3>2. CASE q # r
      BY <2>4, <3>2 DEF IInv, Shape
    <3> QED
      BY <3>1, <3>2
  <2>6. Shape'
    BY <2>3, <2>4, <2>5 DEF IInv, Shape
  <2> QED
    BY <1>2, <2>3, <2>6
<1>11. CASE PlanSale(r)
  <2>1. PICK s \in Sales, lines \in Forms, asOf \in Lots :
            req' = [req EXCEPT ![r] = [op |-> "post", sale |-> s, plan |-> Plan(lines, asOf, {})]]
    BY <1>11 DEF PlanSale
  <2>2. UNCHANGED <<lot, sale, alloc>>
    BY <1>11 DEF PlanSale
  <2> QED
    BY <1>3, <2>1, <2>2
<1>12. CASE PlanEditSale(r)
  <2>1. PICK s \in Sales, lines \in Forms, asOf \in Lots :
            req' = [req EXCEPT ![r] = [op |-> "edit", sale |-> s, plan |-> Plan(lines, asOf, {s})]]
    BY <1>12 DEF PlanEditSale
  <2>2. UNCHANGED <<lot, sale, alloc>>
    BY <1>12 DEF PlanEditSale
  <2> QED
    BY <1>3, <2>1, <2>2
<1>4. CASE CheckGrn(r)
  BY <1>2, <1>4 DEF CheckGrn, IInv, Shape
<1>5. CASE Abort(r)
  BY <1>2, <1>5 DEF Abort, Done, Idle, IInv, Shape
<1>6. CASE WriteSale(r)
  <2> DEFINE s == req[r].sale
             plan == req[r].plan
             T == Touched(alloc[s]) \cup Touched(plan)
  <2>1. s \in Sales /\ plan = [g \in Lots |-> plan[g]]
    BY <1>6 DEF WriteSale, IInv, Shape
  <2>2. sale' \in [Sales -> {"none", "active", "void"}]
    BY <1>6, <2>1 DEF WriteSale, IInv, Shape
  <2>3. alloc' = [alloc EXCEPT ![s] = plan]
    BY <1>6 DEF WriteSale
  <2>4. alloc' = [q \in Sales |-> [g \in Lots |-> alloc'[q][g]]]
    BY <2>1, <2>3 DEF IInv, Shape
  <2>5. \A q \in Sales \ {s} : sale'[q] = sale[q] /\ alloc'[q] = alloc[q]
    BY <1>6, <2>1, <2>3 DEF WriteSale, IInv, Shape
  <2>6. \A g \in Lots \ T : alloc[s][g] = 0 /\ alloc'[s][g] = 0
    BY <2>1, <2>3 DEF Touched, IInv, Shape
  <2>7. \A g \in Lots : alloc'[s][g] # 0 => lot[g].st # "none"
    BY <1>6, <2>1, <2>3 DEF WriteSale, ReferencesHold, Touched, IInv, Shape
  <2>8. lot' = Refresh(lot, T, sale', alloc')
    BY <1>6 DEF WriteSale
  <2> HIDE DEF T
  <2>9. lot' \in [Lots -> LotRows] /\ LockMatchesUse' /\ AllocationsHaveLots'
    BY <2>1, <2>2, <2>4, <2>5, <2>6, <2>7, <2>8, RefreshKeeps
  <2>10. Shape'
    BY <1>6, <2>2, <2>4, <2>9 DEF WriteSale, Done, Idle, IInv, Shape
  <2> QED
    BY <2>9, <2>10 DEF IInv
<1>7. CASE DeleteSale(r)
  <2>1. PICK s \in Sales :
            /\ sale' = [sale EXCEPT ![s] = "none"]
            /\ alloc' = [alloc EXCEPT ![s] = NoAlloc]
            /\ lot' = Refresh(lot, Touched(alloc[s]), sale', alloc')
    BY <1>7 DEF DeleteSale
  <2>2. sale' \in [Sales -> {"none", "active", "void"}]
    BY <2>1 DEF IInv, Shape
  <2>3. alloc' = [q \in Sales |-> [g \in Lots |-> alloc'[q][g]]]
    BY <2>1 DEF IInv, Shape, NoAlloc
  <2>4. \A q \in Sales \ {s} : sale'[q] = sale[q] /\ alloc'[q] = alloc[q]
    BY <2>1 DEF IInv, Shape
  <2>5. \A g \in Lots : alloc'[s][g] = 0
    BY <2>1 DEF IInv, Shape, NoAlloc
  <2>6. \A g \in Lots \ Touched(alloc[s]) : alloc[s][g] = 0 /\ alloc'[s][g] = 0
    BY <2>5 DEF Touched
  <2>9. \A g \in Lots : alloc'[s][g] # 0 => lot[g].st # "none"
    BY <2>5
  <2>7. lot' \in [Lots -> LotRows] /\ LockMatchesUse' /\ AllocationsHaveLots'
    BY <2>1, <2>2, <2>3, <2>4, <2>6, <2>9, RefreshKeeps
  <2>8. Shape'
    BY <1>7, <2>2, <2>3, <2>7 DEF DeleteSale, IInv, Shape
  <2> QED
    BY <2>7, <2>8 DEF IInv
<1>8. CASE RestoreSale(r)
  <2>1. PICK s \in Sales :
            /\ sale' = [sale EXCEPT ![s] = "active"]
            /\ lot' = Refresh(lot, Touched(alloc[s]), sale', alloc)
    BY <1>8 DEF RestoreSale
  <2>2. alloc' = alloc
    BY <1>8 DEF RestoreSale
  <2>3. sale' \in [Sales -> {"none", "active", "void"}]
    BY <2>1 DEF IInv, Shape
  <2>4. alloc' = [q \in Sales |-> [g \in Lots |-> alloc'[q][g]]]
    BY <2>2 DEF IInv, Shape
  <2>5. \A q \in Sales \ {s} : sale'[q] = sale[q] /\ alloc'[q] = alloc[q]
    BY <2>1, <2>2 DEF IInv, Shape
  <2>6. \A g \in Lots \ Touched(alloc[s]) : alloc[s][g] = 0 /\ alloc'[s][g] = 0
    BY <2>2 DEF Touched
  <2>7. \A g \in Lots : alloc'[s][g] # 0 => lot[g].st # "none"
    BY <2>2 DEF IInv, AllocationsHaveLots
  <2>8. lot' = Refresh(lot, Touched(alloc[s]), sale', alloc')
    BY <2>1, <2>2
  <2>9. lot' \in [Lots -> LotRows] /\ LockMatchesUse' /\ AllocationsHaveLots'
    BY <2>3, <2>4, <2>5, <2>6, <2>7, <2>8, RefreshKeeps
  <2>10. Shape'
    BY <1>8, <2>3, <2>4, <2>9 DEF RestoreSale, IInv, Shape
  <2> QED
    BY <2>9, <2>10 DEF IInv
<1>9. CASE WriteGrn(r)
  <2> DEFINE g == req[r].lot
  <2>1. g \in Lots /\ lot[g].st # "none"
    BY <1>9 DEF WriteGrn, IInv, Shape
  <2>2. PICK st \in {"live", "void"}, n \in Quantities \cup {0} :
            lot' = [lot EXCEPT ![g].st = st, ![g].qty = n]
    <3>1. CASE \E n \in Quantities : lot' = [lot EXCEPT ![g].st = "live", ![g].qty = n]
      BY <3>1
    <3>2. CASE lot' = [lot EXCEPT ![g].st = "void"]
      <4>1. lot[g] \in LotRows
        BY <2>1 DEF IInv, Shape
      <4>2. lot' = [lot EXCEPT ![g].st = "void", ![g].qty = lot[g].qty]
        BY <2>1, <3>2, <4>1 DEF IInv, Shape
      <4>3. lot[g].qty \in Quantities \cup {0}
        BY <4>1
      <4> QED
        BY <4>2, <4>3
    <3> QED
      BY <1>9, <3>1, <3>2 DEF WriteGrn
  <2>3. /\ lot' \in [Lots -> LotRows]
        /\ \A h \in Lots : lot'[h].locked = lot[h].locked
        /\ \A h \in Lots : lot[h].st # "none" => lot'[h].st # "none"
    BY <2>1, <2>2 DEF IInv, Shape
  <2>4. UNCHANGED <<sale, alloc>>
    BY <1>9 DEF WriteGrn
  <2>5. Shape'
    BY <1>9, <2>3, <2>4 DEF WriteGrn, Done, Idle, IInv, Shape
  <2>6. LockMatchesUse'
    BY <2>3, <2>4 DEF IInv, LockMatchesUse, UsedIn
  <2>7. AllocationsHaveLots'
    BY <2>3, <2>4 DEF IInv, AllocationsHaveLots
  <2> QED
    BY <2>5, <2>6, <2>7 DEF IInv
<1>10. CASE DeleteGrn(r)
  <2> DEFINE g == req[r].lot
  <2>1. g \in Lots /\ (\A s \in Sales : alloc[s][g] = 0) /\ lot' = [lot EXCEPT ![g] = NoLot]
    BY <1>10 DEF DeleteGrn, IInv, Shape
  <2>2. UNCHANGED <<sale, alloc>>
    BY <1>10 DEF DeleteGrn
  <2>3. Shape'
    BY <1>10, <2>1, <2>2 DEF DeleteGrn, Done, Idle, NoLot, IInv, Shape
  <2>4. LockMatchesUse'
    BY <2>1, <2>2 DEF IInv, Shape, LockMatchesUse, UsedIn, NoLot
  <2>5. AllocationsHaveLots'
    BY <2>1, <2>2 DEF IInv, Shape, AllocationsHaveLots, NoLot
  <2> QED
    BY <2>3, <2>4, <2>5 DEF IInv
<1> QED
  BY <1>1, <1>4, <1>5, <1>6, <1>7, <1>8, <1>9, <1>10, <1>11, <1>12

\* Every reachable state satisfies the inductive invariant.
THEOREM InvariantHolds == Spec => []IInv
<1> QED
  BY InitInv, StepInv, PTL DEF Spec

\* The stored lock flag always equals the allocations it is derived from.
THEOREM LockFlagCorrect == Spec => []LockMatchesUse
<1>1. IInv => LockMatchesUse
  BY DEF IInv
<1> QED
  BY <1>1, InvariantHolds, PTL

\* No allocation ever names a deleted GRN line.
THEOREM NoDanglingAllocation == Spec => []AllocationsHaveLots
<1>1. IInv => AllocationsHaveLots
  BY DEF IInv
<1> QED
  BY <1>1, InvariantHolds, PTL

-----------------------------------------------------------------------------
(* What the planner does while nothing races.                              *)

\* Allocations and plans are numbers of bags.
Typed ==
    /\ alloc \in [Sales -> [Lots -> Nat]]
    /\ \A r \in Requests : req[r].op \in {"post", "edit"} => req[r].plan \in [Lots -> Nat]

\* What a request has read is still so.
PlanStands(r) ==
    /\ req[r].op = "post" =>
            /\ sale[req[r].sale] = "none"
            /\ \E lines \in Forms, asOf \in Lots : req[r].plan = Plan(lines, asOf, {})
    /\ req[r].op = "edit" =>
            /\ sale[req[r].sale] # "none"
            /\ \E lines \in Forms, asOf \in Lots : req[r].plan = Plan(lines, asOf, {req[r].sale})
    /\ req[r].op \in {"editGrn", "deleteGrn"} => ~HasLockedLots(req[r].lot)
Fresh == events = {} => \A r \in Requests : PlanStands(r)

OneLineForms == \A lines \in Forms : Len(lines) <= 1
Covered == OneLineForms /\ events = {} => NoOverConsumption

FInv == IInv /\ Typed /\ Fresh /\ Covered

\* What active sales, but those left out, take from a lot.
TakenFrom(g, sales, allocs, X) ==
    SumFunctionOnSet([s \in Sales |-> allocs[s][g]], {s \in Sales : sales[s] = "active"} \ X)

Rows == [Sales -> [Lots -> Nat]]

\* It is a number, the more so the more sales count, and one sale adds its row.
LEMMA TakenFacts ==
    ASSUME NEW allocs \in Rows, NEW sales, NEW g \in Lots, NEW s \in Sales
    PROVE  /\ TakenFrom(g, sales, allocs, {}) \in Nat /\ TakenFrom(g, sales, allocs, {s}) \in Nat
           /\ TakenFrom(g, sales, allocs, {}) =
                  TakenFrom(g, sales, allocs, {s}) + (IF sales[s] = "active" THEN allocs[s][g] ELSE 0)
<1>1. PICK f : f = [q \in Sales |-> allocs[q][g]]
  OBVIOUS
<1>2. \A q \in Sales : f[q] \in Nat
  BY <1>1 DEF Rows
<1>3. PICK A : A = {q \in Sales : sales[q] = "active"}
  OBVIOUS
<1>4. IsFiniteSet(A) /\ IsFiniteSet(A \ {s}) /\ \A q \in A : f[q] \in Nat /\ f[q] \in Int
  <2>1. A \subseteq Sales /\ A \ {s} \subseteq Sales
    BY <1>3
  <2> QED BY <1>2, <2>1, QuantitiesAssumption, FS_Subset
<1>5. /\ TakenFrom(g, sales, allocs, {}) = SumFunctionOnSet(f, A)
      /\ TakenFrom(g, sales, allocs, {s}) = SumFunctionOnSet(f, A \ {s})
  <2>1. A \ {} = A
    OBVIOUS
  <2> QED BY <1>1, <1>3, <2>1 DEF TakenFrom
<1>6. SumFunctionOnSet(f, A) \in Nat /\ SumFunctionOnSet(f, A \ {s}) \in Nat
  BY <1>4, SumType
<1>7. CASE sales[s] = "active"
  <2>1. s \in A
    BY <1>3, <1>7
  <2>2. SumFunctionOnSet(f, A) = f[s] + SumFunctionOnSet(f, A \ {s})
    BY <1>4, <2>1, SumRemove
  <2> QED BY <1>1, <1>2, <1>5, <1>6, <1>7, <2>2
<1>8. CASE sales[s] # "active"
  <2>1. A \ {s} = A
    BY <1>3, <1>8
  <2>2. PICK x : x = SumFunctionOnSet(f, A)
    OBVIOUS
  <2>3. x \in Nat /\ TakenFrom(g, sales, allocs, {}) = x /\ TakenFrom(g, sales, allocs, {s}) = x
    BY <1>5, <1>6, <2>1, <2>2
  <2>4. x = x + 0
    BY ONLY <2>3
  <2> QED BY <1>8, <2>3, <2>4
<1> QED BY <1>7, <1>8

\* A change of one sale leaves what the others take.
LEMMA TakenByOthers ==
    ASSUME NEW allocs \in Rows, NEW allocs2 \in Rows, NEW sales, NEW sales2, NEW g \in Lots, NEW s \in Sales,
           \A q \in Sales \ {s} : sales2[q] = sales[q] /\ allocs2[q] = allocs[q]
    PROVE  TakenFrom(g, sales2, allocs2, {s}) = TakenFrom(g, sales, allocs, {s})
<1>1. PICK f, f2 : f = [q \in Sales |-> allocs[q][g]] /\ f2 = [q \in Sales |-> allocs2[q][g]]
  OBVIOUS
<1>2. PICK A, A2 : /\ A = {q \in Sales : sales[q] = "active"} \ {s}
                   /\ A2 = {q \in Sales : sales2[q] = "active"} \ {s}
  OBVIOUS
<1>3. A2 = A
  BY <1>2
<1>4. \A q \in A : f[q] \in Int /\ f2[q] = f[q]
  BY <1>1, <1>2 DEF Rows
<1>5. IsFiniteSet(A)
  BY <1>2, QuantitiesAssumption, FS_Subset
<1>6. SumFunctionOnSet(f2, A) = SumFunctionOnSet(f, A)
  BY <1>4, <1>5, SumSame
<1> QED BY <1>1, <1>2, <1>3, <1>6 DEF TakenFrom

\* Nothing is taken from a lot that no active sale uses, and a lot nothing is taken from is not used.
LEMMA TakenUnused ==
    ASSUME NEW allocs \in Rows, NEW sales, NEW g \in Lots, ~UsedIn(g, sales, allocs)
    PROVE  TakenFrom(g, sales, allocs, {}) = 0
<1>1. PICK f, A : /\ f = [q \in Sales |-> allocs[q][g]]
                  /\ A = {q \in Sales : sales[q] = "active"}
  OBVIOUS
<1>2. IsFiniteSet(A) /\ A \ {} = A
  BY <1>1, QuantitiesAssumption, FS_Subset
<1>3. \A q \in A : f[q] = 0
  BY <1>1 DEF UsedIn
<1>4. SumFunctionOnSet(f, A) = 0
  BY <1>2, <1>3, SumZero
<1> QED BY <1>1, <1>2, <1>4 DEF TakenFrom

\* What is older than a lot is finite.
Older(g) == {h \in Lots : h < g}

\* A line takes no more than is open, and takes from a lot only what older ones leave.
LEMMA TakeFacts ==
    ASSUME NEW open \in [Lots -> Nat], NEW n \in Nat, NEW g \in Lots
    PROVE  /\ Take(n, g, open) \in Nat /\ Take(n, g, open) <= open[g]
           /\ \A h \in Lots : h < g /\ Take(n, g, open) > 0 => Take(n, h, open) = open[h]
<1>1. ASSUME NEW h \in Lots
      PROVE  IsFiniteSet(Older(h)) /\ SumFunctionOnSet(open, Older(h)) \in Nat
  <2>1. h \in Nat /\ \A k \in Older(h) : k \in 0..h
    BY LotsAssumption DEF Older
  <2>2. IsFiniteSet(0..h)
    BY <2>1, FS_Interval
  <2>3. IsFiniteSet(Older(h))
    BY <2>1, <2>2, FS_Subset
  <2>4. \A k \in Older(h) : open[k] \in Nat
    BY DEF Older
  <2> QED BY <2>3, <2>4, SumType
<1>2. ASSUME NEW h \in Lots
      PROVE  /\ Take(n, h, open) \in Nat /\ Take(n, h, open) <= open[h]
             /\ Take(n, h, open) = LET left == n - SumFunctionOnSet(open, Older(h))
                                   IN IF left <= 0 THEN 0 ELSE IF left < open[h] THEN left ELSE open[h]
  <2>1. PICK x : x = SumFunctionOnSet(open, Older(h))
    OBVIOUS
  <2>2. Take(n, h, open) = LET left == n - x
                           IN IF left <= 0 THEN 0 ELSE IF left < open[h] THEN left ELSE open[h]
    BY <2>1 DEF Take, Older
  <2>3. x \in Nat /\ open[h] \in Nat
    BY <1>1, <2>1
  <2>4. Take(n, h, open) \in Nat /\ Take(n, h, open) <= open[h]
    BY ONLY <2>2, <2>3, n \in Nat
  <2> QED BY <2>1, <2>2, <2>4
<1>3. ASSUME NEW h \in Lots, h < g, Take(n, g, open) > 0 PROVE Take(n, h, open) = open[h]
  <2>1. PICK S, T : S = Older(g) /\ T = Older(h) \cup {h}
    OBVIOUS
  <2>2. T \subseteq S /\ IsFiniteSet(S) /\ IsFiniteSet(T) /\ T \ {h} = Older(h) /\ h \in T
    <3>1. g \in Nat /\ h \in Nat /\ \A k \in Lots : k \in Nat
      BY LotsAssumption
    <3>2. T \subseteq S /\ T \ {h} = Older(h)
      <4>1. h \in S /\ h \notin Older(h)
        BY <1>3, <2>1, <3>1 DEF Older
      <4>2. Older(h) \subseteq S
        <5>1. ASSUME NEW k \in Older(h) PROVE k \in Lots /\ k < g
          BY <1>3, <3>1 DEF Older
        <5> QED BY <2>1, <5>1 DEF Older
      <4> QED BY ONLY <2>1, <4>1, <4>2
    <3>3. IsFiniteSet(S)
      BY <1>1, <2>1
    <3> QED BY <2>1, <3>2, <3>3, FS_Subset
  <2>3. /\ \A k \in S : open[k] \in Nat /\ open[k] \in Int
        /\ \A k \in T : open[k] \in Nat /\ open[k] \in Int
        /\ \A k \in S \ T : open[k] \in Nat
    BY <2>1, <2>2 DEF Older
  <2>4. SumFunctionOnSet(open, S) = SumFunctionOnSet(open, T) + SumFunctionOnSet(open, S \ T)
    BY <2>2, <2>3, SumSplit
  <2>5. SumFunctionOnSet(open, T) = open[h] + SumFunctionOnSet(open, Older(h))
    BY <2>2, <2>3, SumRemove
  <2>6. SumFunctionOnSet(open, S \ T) \in Nat
    <3>1. IsFiniteSet(S \ T)
      BY <2>2, FS_Subset
    <3> QED BY <2>3, <3>1, SumType
  <2>7. PICK x, y, z : /\ x = SumFunctionOnSet(open, Older(g)) /\ y = SumFunctionOnSet(open, Older(h))
                       /\ z = SumFunctionOnSet(open, S \ T)
    OBVIOUS
  <2>8. x = open[h] + y + z /\ x \in Nat /\ y \in Nat /\ z \in Nat /\ open[h] \in Nat
    <3>1. x \in Nat /\ y \in Nat /\ z \in Nat /\ open[h] \in Nat
      BY <1>1, <2>6, <2>7
    <3> QED BY <2>1, <2>4, <2>5, <2>7, <3>1
  <2>9. ~(n - x <= 0)
    <3>1. Take(n, g, open) = IF n - x <= 0 THEN 0 ELSE IF n - x < open[g] THEN n - x ELSE open[g]
      BY <1>2, <2>7
    <3> QED BY <1>3, <3>1
  <2>10. Take(n, h, open) = IF n - y <= 0 THEN 0 ELSE IF n - y < open[h] THEN n - y ELSE open[h]
    BY <1>2, <2>7
  <2> QED BY <2>8, <2>9, <2>10
<1> QED BY <1>2, <1>3

\* A plan by what is open.
Planned(lines, open) == [g \in Lots |-> SumFunction([i \in DOMAIN lines |-> Take(lines[i], g, open)])]
OpenLots(asOf, excluded) == [g \in Lots |-> Available(g, asOf, excluded)]

LEMMA PlanIsPlanned ==
    ASSUME NEW lines, NEW asOf, NEW X
    PROVE  Plan(lines, asOf, X) = Planned(lines, OpenLots(asOf, X))
  BY DEF Plan, Planned, OpenLots

\* A plan takes only from open lots, and when it takes from a lot it takes all that is
\* open in older ones; a plan for one line takes no more than is open.
LEMMA PlannedFacts ==
    ASSUME NEW lines \in Seq(Nat), NEW open \in [Lots -> Nat]
    PROVE  /\ Planned(lines, open) \in [Lots -> Nat]
           /\ \A g \in Lots : Planned(lines, open)[g] # 0 => open[g] > 0
           /\ \A g, h \in Lots : h < g /\ Planned(lines, open)[g] # 0 => open[h] <= Planned(lines, open)[h]
           /\ Len(lines) <= 1 => \A g \in Lots : Planned(lines, open)[g] <= open[g]
<1>1. PICK n \in Nat : n = Len(lines) /\ DOMAIN lines = 1..n /\ \A i \in 1..n : lines[i] \in Nat
  OBVIOUS
<1>2. IsFiniteSet(1..n)
  BY FS_Interval
<1> DEFINE T(g) == [i \in 1..n |-> Take(lines[i], g, open)]
<1>3. ASSUME NEW g \in Lots
      PROVE  /\ Planned(lines, open)[g] = SumFunctionOnSet(T(g), 1..n)
             /\ \A i \in 1..n : T(g)[i] = Take(lines[i], g, open) /\ T(g)[i] \in Nat /\ T(g)[i] \in Int
  <2>1. \A i \in 1..n : T(g)[i] = Take(lines[i], g, open) /\ T(g)[i] \in Nat
    BY <1>1, TakeFacts
  <2>2. Planned(lines, open)[g] = SumFunction(T(g))
    BY <1>1 DEF Planned
  <2>3. SumFunction(T(g)) = SumFunctionOnSet(T(g), 1..n)
    BY DEF SumFunction
  <2> QED BY <2>1, <2>2, <2>3
<1> HIDE DEF T
<1>4. Planned(lines, open) \in [Lots -> Nat]
  <2>1. ASSUME NEW g \in Lots PROVE Planned(lines, open)[g] \in Nat
    BY <1>2, <1>3, SumType
  <2> QED BY <2>1 DEF Planned
<1>5. ASSUME NEW g \in Lots, NEW h \in Lots, h < g, Planned(lines, open)[g] # 0
      PROVE  open[h] <= Planned(lines, open)[h]
  <2>1. PICK i \in 1..n : T(g)[i] # 0
    <3>1. SumFunctionOnSet(T(g), 1..n) # 0
      BY <1>3, <1>5
    <3> QED BY <1>2, <3>1, SumZero
  <2>2. T(h)[i] = open[h]
    <3>1. lines[i] \in Nat /\ Take(lines[i], g, open) > 0
      BY <1>1, <1>3, <2>1
    <3>2. Take(lines[i], h, open) = open[h]
      BY <1>5, <3>1, TakeFacts
    <3> QED BY <1>3, <3>2
  <2>3. SumFunctionOnSet(T(h), 1..n) = T(h)[i] + SumFunctionOnSet(T(h), (1..n) \ {i})
    BY <1>2, <1>3, SumRemove
  <2>4. SumFunctionOnSet(T(h), (1..n) \ {i}) \in Nat
    <3>1. IsFiniteSet((1..n) \ {i})
      BY <1>2, FS_Subset
    <3>2. \A j \in (1..n) \ {i} : T(h)[j] \in Nat
      BY <1>3
    <3> QED BY <3>1, <3>2, SumType
  <2>5. open[h] \in Nat /\ Planned(lines, open)[h] = SumFunctionOnSet(T(h), 1..n)
    BY <1>3
  <2> QED BY <2>2, <2>3, <2>4, <2>5
<1>6. ASSUME Len(lines) <= 1, NEW g \in Lots PROVE Planned(lines, open)[g] <= open[g]
  <2>1. open[g] \in Nat
    OBVIOUS
  <2>2. CASE n = 0
    <3>1. SumFunctionOnSet(T(g), 1..n) = 0
      BY <1>2, <2>2, SumZero
    <3> QED BY <1>3, <2>1, <3>1
  <2>3. CASE n = 1
    <3>1. 1 \in 1..n /\ (1..n) \ {1} = {} /\ IsFiniteSet({})
      BY <2>3, FS_EmptySet
    <3>2. SumFunctionOnSet(T(g), {}) = 0
      BY <3>1, SumZero
    <3>3. SumFunctionOnSet(T(g), 1..n) = T(g)[1] + SumFunctionOnSet(T(g), {})
      <4>1. \A i \in 1..n : T(g)[i] \in Int
        BY <1>3
      <4>2. SumFunctionOnSet(T(g), 1..n) = T(g)[1] + SumFunctionOnSet(T(g), (1..n) \ {1})
        BY ONLY <1>2, <3>1, <4>1, SumRemove
      <4> QED BY <3>1, <4>2
    <3>4. T(g)[1] <= open[g] /\ T(g)[1] \in Nat
      <4>1. lines[1] \in Nat
        BY <1>1, <3>1
      <4>2. T(g)[1] = Take(lines[1], g, open) /\ T(g)[1] \in Nat
        BY <1>3, <3>1
      <4>3. Take(lines[1], g, open) <= open[g]
        BY <4>1, TakeFacts
      <4> QED BY <4>2, <4>3
    <3> QED BY <1>3, <3>2, <3>3, <3>4
  <2> QED BY <1>1, <1>6, <2>2, <2>3
<1>7. ASSUME NEW g \in Lots, Planned(lines, open)[g] # 0 PROVE open[g] > 0
  <2>1. PICK i \in 1..n : T(g)[i] # 0
    <3>1. SumFunctionOnSet(T(g), 1..n) # 0
      BY <1>3, <1>7
    <3> QED BY <1>2, <3>1, SumZero
  <2>2. lines[i] \in Nat /\ T(g)[i] \in Nat /\ T(g)[i] <= open[g] /\ open[g] \in Nat
    BY <1>1, <1>3, TakeFacts
  <2> QED BY <2>1, <2>2
<1> QED BY <1>4, <1>5, <1>6, <1>7

\* What is open is a number.
LEMMA OpenTyped ==
    ASSUME IInv, Typed, NEW asOf, NEW s \in Sales, NEW X, X = {} \/ X = {s}
    PROVE  /\ OpenLots(asOf, X) \in [Lots -> Nat]
           /\ \A g \in Lots :
                 /\ lot[g].qty \in Nat /\ TakenFrom(g, sale, alloc, X) \in Nat
                 /\ OpenLots(asOf, X)[g] > 0 =>
                        /\ lot[g].st = "live" /\ g <= asOf
                        /\ OpenLots(asOf, X)[g] = lot[g].qty - TakenFrom(g, sale, alloc, X)
                 /\ lot[g].st = "live" /\ g <= asOf =>
                        lot[g].qty <= OpenLots(asOf, X)[g] + TakenFrom(g, sale, alloc, X)
<1>1. ASSUME NEW g \in Lots
      PROVE  /\ OpenLots(asOf, X)[g] \in Nat /\ lot[g].qty \in Nat /\ TakenFrom(g, sale, alloc, X) \in Nat
             /\ OpenLots(asOf, X)[g] > 0 =>
                    /\ lot[g].st = "live" /\ g <= asOf
                    /\ OpenLots(asOf, X)[g] = lot[g].qty - TakenFrom(g, sale, alloc, X)
             /\ lot[g].st = "live" /\ g <= asOf =>
                    lot[g].qty <= OpenLots(asOf, X)[g] + TakenFrom(g, sale, alloc, X)
  <2>1. PICK c : c = TakenFrom(g, sale, alloc, X)
    OBVIOUS
  <2>2. c \in Nat
    BY <2>1, TakenFacts DEF Typed, Rows
  <2>3. OpenLots(asOf, X)[g] = IF lot[g].st = "live" /\ g <= asOf /\ lot[g].qty > c
                               THEN lot[g].qty - c ELSE 0
    BY <2>1 DEF OpenLots, Available, Consumed, TakenFrom
  <2>4. lot[g].qty \in Nat
    BY QuantitiesAssumption DEF IInv, Shape
  <2> QED BY <2>1, <2>2, <2>3, <2>4
<1> QED BY <1>1 DEF OpenLots

\* Nothing is sold when the history begins.
LEMMA FirstInit == LotsInit => FInv
<1> SUFFICES ASSUME LotsInit PROVE FInv
  OBVIOUS
<1>1. Init /\ events = {} /\ IInv
  BY InitInv DEF LotsInit
<1>2. PICK g \in Lots, n \in Quantities :
          alloc = [s \in Sales |-> IF s \in Legacy THEN [NoAlloc EXCEPT ![g] = n] ELSE NoAlloc]
  BY <1>1 DEF Init
<1>3. req = [r \in Requests |-> Idle] /\ sale = [s \in Sales |-> IF s \in Legacy THEN "void" ELSE "none"]
  BY <1>1 DEF Init
<1>4. Typed
  <2>1. NoAlloc \in [Lots -> Nat] /\ n \in Nat
    BY QuantitiesAssumption DEF NoAlloc
  <2>2. [NoAlloc EXCEPT ![g] = n] \in [Lots -> Nat]
    BY <2>1
  <2> QED BY <1>2, <1>3, <2>1, <2>2 DEF Typed, Idle
<1>5. Fresh
  BY <1>3 DEF Fresh, PlanStands, Idle
<1>6. NoOverConsumption
  <2>1. ASSUME NEW h \in Lots PROVE Consumed(h, {}) <= lot[h].qty
    <3>1. ~UsedIn(h, sale, alloc)
      BY <1>3 DEF UsedIn
    <3>2. Consumed(h, {}) = 0
      <4>1. Consumed(h, {}) = TakenFrom(h, sale, alloc, {})
        BY DEF Consumed, TakenFrom
      <4> QED BY <1>4, <3>1, <4>1, TakenUnused DEF Typed, Rows
    <3>3. lot[h].qty \in Nat
      BY <1>1, QuantitiesAssumption DEF IInv, Shape
    <3> QED BY <3>2, <3>3
  <2> QED BY <2>1 DEF NoOverConsumption
<1> QED BY <1>1, <1>4, <1>5, <1>6 DEF FInv, Covered

\* No lot is consumed beyond what it received, in terms of the rows.
LEMMA NotOver ==
    NoOverConsumption <=> \A g \in Lots : lot[g].st = "live" => TakenFrom(g, sale, alloc, {}) <= lot[g].qty
  BY DEF NoOverConsumption, Consumed, TakenFrom

\* The steps of a quiet history: nothing raced before and nothing races now.
Quiet == events' = {}

LEMMA Unraced ==
    ASSUME LotsNext, Quiet
    PROVE  /\ Next /\ events = {} /\ ~Restored
           /\ \A r \in Requests : req[r].op = "idle" \/ req'[r] # req[r] \/ UNCHANGED <<lot, sale, alloc>>
<1>1. events = {} /\ ~Raced /\ ~Restored /\ Next
  BY DEF LotsNext, Quiet
<1> QED BY <1>1 DEF Raced

\* A plan stands as long as the rows do.
LEMMA PlansStand ==
    ASSUME NEW r \in Requests, UNCHANGED <<lot, sale, alloc>>, req'[r] = req[r], PlanStands(r)
    PROVE  PlanStands(r)'
<1>1. \A lines, asOf, X : Plan(lines, asOf, X)' = Plan(lines, asOf, X)
  BY DEF Plan, Available, Consumed
<1>2. \A g : HasLockedLots(g)' = HasLockedLots(g)
  BY DEF HasLockedLots
<1> QED BY <1>1, <1>2 DEF PlanStands

\* What a step of a quiet history does to the rows: it changes one lot nothing was
\* sold from, it clears a sale, or it writes a sale as planned from rows as they are.
SameStock(g) == lot'[g].st = lot[g].st /\ lot'[g].qty = lot[g].qty
OtherSales(s) == \A q \in Sales \ {s} : sale'[q] = sale[q] /\ alloc'[q] = alloc[q]

UnsoldLotChanges(g) ==
    /\ ~lot[g].locked /\ ~UsedIn(g, sale, alloc)
    /\ UNCHANGED <<sale, alloc>>
    /\ \A h \in Lots \ {g} : lot'[h] = lot[h]
SaleCleared(s) ==
    /\ alloc'[s] = NoAlloc /\ sale'[s] = "none"
    /\ OtherSales(s) /\ \A g \in Lots : SameStock(g)
SaleWritten(s, lines, asOf, X) ==
    /\ X = {s} \/ (X = {} /\ sale[s] = "none")
    /\ alloc'[s] = Plan(lines, asOf, X)
    /\ OtherSales(s) /\ \A g \in Lots : SameStock(g)

\* A refreshed lot keeps its stock.
LEMMA RefreshStock ==
    ASSUME IInv, NEW T, NEW sales, NEW allocs, NEW g \in Lots
    PROVE  /\ Refresh(lot, T, sales, allocs)[g].st = lot[g].st
           /\ Refresh(lot, T, sales, allocs)[g].qty = lot[g].qty
<1>1. lot[g] \in LotRows
  BY DEF IInv, Shape, LotRows
<1>2. Refresh(lot, T, sales, allocs)[g] = IF g \in T /\ lot[g].st # "none"
          THEN [lot[g] EXCEPT !.locked = UsedIn(g, sales, allocs)] ELSE lot[g]
  BY DEF Refresh
<1> QED BY <1>1, <1>2 DEF LotRows

LEMMA QuietSteps ==
    ASSUME IInv, Fresh, LotsNext, Quiet
    PROVE  \/ UNCHANGED <<lot, sale, alloc>>
           \/ \E g \in Lots : UnsoldLotChanges(g)
           \/ \E s \in Sales : SaleCleared(s)
           \/ \E s \in Sales, lines \in Forms, asOf \in Lots, X \in SUBSET Sales : SaleWritten(s, lines, asOf, X)
<1>1. Next /\ ~Restored /\ \A q \in Requests : PlanStands(q)
  BY Unraced DEF Fresh
<1>2. PICK r \in Requests :
          \/ ReceiveGrn(r) \/ PlanSale(r) \/ PlanEditSale(r) \/ WriteSale(r)
          \/ Abort(r) \/ DeleteSale(r) \/ RestoreSale(r) \/ CheckGrn(r)
          \/ WriteGrn(r) \/ DeleteGrn(r)
  BY <1>1 DEF Next
<1>3. PlanStands(r) /\ Shape /\ LockMatchesUse /\ AllocationsHaveLots
  BY <1>1 DEF IInv
<1>4. CASE ReceiveGrn(r)
  <2>1. PICK g \in Lots, n \in Quantities :
            /\ lot[g].st = "none"
            /\ lot' = [lot EXCEPT ![g] = [st |-> "live", qty |-> n, locked |-> FALSE]]
    BY <1>4 DEF ReceiveGrn
  <2>2. ~UsedIn(g, sale, alloc) /\ ~lot[g].locked
    BY <1>3, <2>1 DEF AllocationsHaveLots, LockMatchesUse, UsedIn
  <2> QED BY <1>3, <1>4, <2>1, <2>2 DEF ReceiveGrn, UnsoldLotChanges, Shape
<1>5. CASE WriteGrn(r)
  <2>1. PICK g \in Lots : g = req[r].lot /\ lot[g].st # "none" /\ ~HasLockedLots(g)
    BY <1>3, <1>5 DEF WriteGrn, Shape, PlanStands
  <2>2. ~UsedIn(g, sale, alloc) /\ ~lot[g].locked
    BY <1>3, <2>1 DEF HasLockedLots, LockMatchesUse
  <2>3. \A h \in Lots \ {g} : lot'[h] = lot[h]
    BY <1>3, <1>5, <2>1 DEF WriteGrn, Shape
  <2> QED BY <1>5, <2>2, <2>3 DEF WriteGrn, UnsoldLotChanges
<1>6. CASE DeleteGrn(r)
  <2>1. PICK g \in Lots : g = req[r].lot /\ ~HasLockedLots(g)
    BY <1>3, <1>6 DEF DeleteGrn, Shape, PlanStands
  <2>2. ~UsedIn(g, sale, alloc) /\ ~lot[g].locked
    BY <1>3, <2>1 DEF HasLockedLots, LockMatchesUse
  <2>3. \A h \in Lots \ {g} : lot'[h] = lot[h]
    BY <1>3, <1>6, <2>1 DEF DeleteGrn, Shape
  <2> QED BY <1>6, <2>2, <2>3 DEF DeleteGrn, UnsoldLotChanges
<1>7. CASE RestoreSale(r)
  BY <1>1, <1>3, <1>7 DEF RestoreSale, Restored, Shape
<1>8. CASE DeleteSale(r)
  <2>1. PICK s \in Sales :
            /\ sale' = [sale EXCEPT ![s] = "none"]
            /\ alloc' = [alloc EXCEPT ![s] = NoAlloc]
            /\ lot' = Refresh(lot, Touched(alloc[s]), sale', alloc')
    BY <1>8 DEF DeleteSale
  <2>2. \A g \in Lots : SameStock(g)
    BY <2>1, RefreshStock DEF SameStock
  <2>3. alloc'[s] = NoAlloc /\ sale'[s] = "none" /\ OtherSales(s)
    BY <1>3, <2>1 DEF Shape, OtherSales
  <2> QED BY <2>2, <2>3 DEF SaleCleared
<1>9. CASE WriteSale(r)
  <2>1. PICK s \in Sales : s = req[r].sale
    BY <1>3, <1>9 DEF WriteSale, Shape
  <2>2. \A g \in Lots : SameStock(g)
    BY <1>9, RefreshStock DEF WriteSale, SameStock
  <2>3. alloc'[s] = req[r].plan /\ OtherSales(s)
    BY <1>3, <1>9, <2>1 DEF WriteSale, Shape, OtherSales
  <2>4. PICK lines \in Forms, asOf \in Lots, X \in SUBSET Sales :
            req[r].plan = Plan(lines, asOf, X) /\ (X = {s} \/ (X = {} /\ sale[s] = "none"))
    <3>1. CASE req[r].op = "post"
      BY <1>3, <2>1, <3>1 DEF PlanStands
    <3>2. CASE req[r].op = "edit"
      <4>1. {s} \in SUBSET Sales
        BY <2>1
      <4> QED BY <1>3, <2>1, <3>2, <4>1 DEF PlanStands
    <3> QED BY <1>9, <3>1, <3>2 DEF WriteSale
  <2> QED BY <2>2, <2>3, <2>4 DEF SaleWritten
<1>10. CASE PlanSale(r) \/ PlanEditSale(r) \/ Abort(r) \/ CheckGrn(r)
  BY <1>10 DEF PlanSale, PlanEditSale, Abort, CheckGrn
<1> QED BY <1>2, <1>4, <1>5, <1>6, <1>7, <1>8, <1>9, <1>10

\* What the rows say after a sale is written: the others take what they took, no
\* older lot is left open, and a single line takes no more than was open.
LEMMA WrittenFacts ==
    ASSUME IInv, Typed, alloc' \in Rows, NEW s \in Sales, NEW lines \in Forms, NEW asOf \in Lots,
           NEW X, SaleWritten(s, lines, asOf, X)
    PROVE  \A g \in Lots :
              LET others == TakenFrom(g, sale, alloc, {s})
              IN /\ others \in Nat /\ alloc'[s][g] \in Nat /\ lot[g].qty \in Nat
                 /\ others <= TakenFrom(g, sale, alloc, {})
                 /\ TakenFrom(g, sale', alloc', {}) =
                        others + (IF sale'[s] = "active" THEN alloc'[s][g] ELSE 0)
                 /\ alloc'[s][g] # 0 => g <= asOf
                 /\ Len(lines) <= 1 /\ alloc'[s][g] # 0 => others + alloc'[s][g] <= lot[g].qty
                 /\ \A h \in Lots : h < g /\ alloc'[s][g] # 0 /\ lot[h].st = "live" =>
                        lot[h].qty <= TakenFrom(h, sale, alloc, {s}) + alloc'[s][h]
<1>1. PICK open : open = OpenLots(asOf, X)
  OBVIOUS
<1>2. PICK plan : plan = Planned(lines, open)
  OBVIOUS
<1>3. alloc'[s] = plan /\ (X = {} \/ X = {s}) /\ OtherSales(s)
  BY <1>1, <1>2, PlanIsPlanned DEF SaleWritten
<1>4. alloc \in Rows /\ lines \in Seq(Nat)
  BY QuantitiesAssumption DEF Typed, Rows
<1>5. \A g \in Lots : TakenFrom(g, sale, alloc, X) = TakenFrom(g, sale, alloc, {s})
  <2>1. CASE X = {s}
    BY <2>1
  <2>2. CASE X = {} /\ sale[s] = "none"
    <3>1. ASSUME NEW g \in Lots
          PROVE  TakenFrom(g, sale, alloc, {}) = TakenFrom(g, sale, alloc, {s})
      <4>1. alloc \in Rows /\ g \in Lots /\ s \in Sales /\ sale[s] # "active"
        BY <1>4, <2>2
      <4>2. /\ TakenFrom(g, sale, alloc, {s}) \in Nat
            /\ TakenFrom(g, sale, alloc, {}) = TakenFrom(g, sale, alloc, {s}) + 0
        BY ONLY <4>1, TakenFacts
      <4> QED BY <4>2
    <3> QED BY <2>2, <3>1
  <2> QED BY <2>1, <2>2 DEF SaleWritten
<1>6. /\ open \in [Lots -> Nat]
      /\ \A g \in Lots :
            /\ lot[g].qty \in Nat /\ TakenFrom(g, sale, alloc, {s}) \in Nat
            /\ open[g] > 0 =>
                   /\ lot[g].st = "live" /\ g <= asOf
                   /\ open[g] = lot[g].qty - TakenFrom(g, sale, alloc, {s})
            /\ lot[g].st = "live" /\ g <= asOf =>
                   lot[g].qty <= open[g] + TakenFrom(g, sale, alloc, {s})
  <2>1. IInv /\ Typed /\ s \in Sales /\ (X = {} \/ X = {s})
    BY <1>3
  <2>2. /\ open \in [Lots -> Nat]
        /\ \A g \in Lots :
              /\ lot[g].qty \in Nat /\ TakenFrom(g, sale, alloc, X) \in Nat
              /\ open[g] > 0 =>
                     /\ lot[g].st = "live" /\ g <= asOf
                     /\ open[g] = lot[g].qty - TakenFrom(g, sale, alloc, X)
              /\ lot[g].st = "live" /\ g <= asOf =>
                     lot[g].qty <= open[g] + TakenFrom(g, sale, alloc, X)
    <3>1. /\ OpenLots(asOf, X) \in [Lots -> Nat]
          /\ \A g \in Lots :
                /\ lot[g].qty \in Nat /\ TakenFrom(g, sale, alloc, X) \in Nat
                /\ OpenLots(asOf, X)[g] > 0 =>
                       /\ lot[g].st = "live" /\ g <= asOf
                       /\ OpenLots(asOf, X)[g] = lot[g].qty - TakenFrom(g, sale, alloc, X)
                /\ lot[g].st = "live" /\ g <= asOf =>
                       lot[g].qty <= OpenLots(asOf, X)[g] + TakenFrom(g, sale, alloc, X)
      BY ONLY <2>1, OpenTyped
    <3> QED BY ONLY <1>1, <3>1
  <2> QED BY ONLY <1>5, <2>2
<1>7. /\ plan \in [Lots -> Nat]
      /\ \A g \in Lots : plan[g] # 0 => open[g] > 0
      /\ \A g, h \in Lots : h < g /\ plan[g] # 0 => open[h] <= plan[h]
      /\ Len(lines) <= 1 => \A g \in Lots : plan[g] <= open[g]
  BY <1>2, <1>4, <1>6, PlannedFacts
<1>8. ASSUME NEW g \in Lots
      PROVE  /\ TakenFrom(g, sale, alloc, {s}) <= TakenFrom(g, sale, alloc, {})
             /\ TakenFrom(g, sale', alloc', {}) =
                    TakenFrom(g, sale, alloc, {s}) + (IF sale'[s] = "active" THEN plan[g] ELSE 0)
  <2>1. TakenFrom(g, sale', alloc', {s}) = TakenFrom(g, sale, alloc, {s})
    BY <1>3, <1>4, TakenByOthers DEF OtherSales
  <2>2. TakenFrom(g, sale', alloc', {}) =
            TakenFrom(g, sale', alloc', {s}) + (IF sale'[s] = "active" THEN alloc'[s][g] ELSE 0)
    BY TakenFacts
  <2>3. /\ TakenFrom(g, sale, alloc, {s}) \in Nat
        /\ TakenFrom(g, sale, alloc, {}) =
               TakenFrom(g, sale, alloc, {s}) + (IF sale[s] = "active" THEN alloc[s][g] ELSE 0)
    <3>1. PICK a, w : a = alloc /\ w = sale
      OBVIOUS
    <3>2. a \in Rows /\ g \in Lots /\ s \in Sales
      BY <1>4, <3>1
    <3>3. /\ TakenFrom(g, w, a, {s}) \in Nat
          /\ TakenFrom(g, w, a, {}) = TakenFrom(g, w, a, {s}) + (IF w[s] = "active" THEN a[s][g] ELSE 0)
      BY ONLY <3>2, TakenFacts
    <3> QED BY ONLY <3>1, <3>3
  <2>4. alloc[s][g] \in Nat
    BY <1>4 DEF Rows
  <2> QED BY <1>3, <2>1, <2>2, <2>3, <2>4
<1>9. \A g, h \in Lots : g \in Nat /\ (h < g /\ g <= asOf => h <= asOf)
  BY LotsAssumption
<1> QED
  <2> TAKE g \in Lots
  <2>1. /\ TakenFrom(g, sale, alloc, {s}) \in Nat /\ plan[g] \in Nat /\ lot[g].qty \in Nat
        /\ plan[g] # 0 => g <= asOf
    BY <1>6, <1>7
  <2>2. ASSUME Len(lines) <= 1, plan[g] # 0
        PROVE  TakenFrom(g, sale, alloc, {s}) + plan[g] <= lot[g].qty
    <3>1. plan[g] <= open[g] /\ open[g] = lot[g].qty - TakenFrom(g, sale, alloc, {s})
      BY <1>6, <1>7, <2>2
    <3>2. open[g] \in Nat
      BY <1>6
    <3> QED BY <2>1, <3>1, <3>2
  <2>3. ASSUME NEW h \in Lots, h < g, plan[g] # 0, lot[h].st = "live"
        PROVE  lot[h].qty <= TakenFrom(h, sale, alloc, {s}) + plan[h]
    <3>1. h <= asOf /\ open[h] <= plan[h]
      BY <1>7, <1>9, <2>1, <2>3
    <3>2. open[h] \in Nat /\ plan[h] \in Nat /\ lot[h].qty \in Nat /\ TakenFrom(h, sale, alloc, {s}) \in Nat
      BY <1>6, <1>7
    <3>3. lot[h].qty <= open[h] + TakenFrom(h, sale, alloc, {s})
      BY <1>6, <2>3, <3>1
    <3> QED BY <3>1, <3>2, <3>3
  <2> QED BY <1>3, <1>8, <2>1, <2>2, <2>3

\* Every allocation and every plan stays a bag of numbers.
LEMMA StepTyped == IInv /\ Typed /\ [Next]_vars => Typed'
<1> SUFFICES ASSUME IInv, Typed, [Next]_vars PROVE Typed'
  OBVIOUS
<1>0. CASE UNCHANGED vars
  BY <1>0 DEF vars, Typed
<1> SUFFICES ASSUME NEW r \in Requests,
                    \/ ReceiveGrn(r) \/ PlanSale(r) \/ PlanEditSale(r) \/ WriteSale(r)
                    \/ Abort(r) \/ DeleteSale(r) \/ RestoreSale(r) \/ CheckGrn(r)
                    \/ WriteGrn(r) \/ DeleteGrn(r)
             PROVE  Typed'
  BY <1>0 DEF Next
<1>1. alloc \in Rows /\ req = [q \in Requests |-> req[q]]
  BY DEF Typed, Rows, IInv, Shape
<1>2. ASSUME NEW s \in Sales, NEW lines \in Forms, NEW asOf \in Lots, NEW X, X = {} \/ X = {s}
      PROVE  Plan(lines, asOf, X) \in [Lots -> Nat]
  BY <1>2, OpenTyped, PlanIsPlanned, PlannedFacts, QuantitiesAssumption
<1>3. ASSUME NEW plan \in [Lots -> Nat], NEW op, NEW s,
             req' = [req EXCEPT ![r] = [op |-> op, sale |-> s, plan |-> plan]], UNCHANGED alloc
      PROVE  Typed'
  BY <1>1, <1>3 DEF Typed
<1>4. CASE PlanSale(r)
  <2>1. PICK s \in Sales, lines \in Forms, asOf \in Lots :
            req' = [req EXCEPT ![r] = [op |-> "post", sale |-> s, plan |-> Plan(lines, asOf, {})]]
    BY <1>4 DEF PlanSale
  <2> QED BY <1>2, <1>3, <1>4, <2>1 DEF PlanSale
<1>5. CASE PlanEditSale(r)
  <2>1. PICK s \in Sales, lines \in Forms, asOf \in Lots :
            req' = [req EXCEPT ![r] = [op |-> "edit", sale |-> s, plan |-> Plan(lines, asOf, {s})]]
    BY <1>5 DEF PlanEditSale
  <2> QED BY <1>2, <1>3, <1>5, <2>1 DEF PlanEditSale
<1>6. CASE WriteSale(r)
  <2>1. alloc' = [alloc EXCEPT ![req[r].sale] = req[r].plan] /\ req[r].plan \in [Lots -> Nat]
    BY <1>6 DEF WriteSale, Typed
  <2>2. req' = [req EXCEPT ![r] = Idle]
    BY <1>6 DEF WriteSale, Done
  <2> QED BY <1>1, <2>1, <2>2 DEF Typed, Rows, Idle
<1>7. CASE DeleteSale(r)
  <2>1. PICK s \in Sales : alloc' = [alloc EXCEPT ![s] = NoAlloc]
    BY <1>7 DEF DeleteSale
  <2>2. NoAlloc \in [Lots -> Nat]
    BY DEF NoAlloc
  <2>3. UNCHANGED req
    BY <1>7 DEF DeleteSale
  <2> QED BY <1>1, <2>1, <2>2, <2>3 DEF Typed, Rows
<1>8. CASE CheckGrn(r)
  BY <1>1, <1>8 DEF CheckGrn, Typed
<1>9. CASE Abort(r) \/ WriteGrn(r) \/ DeleteGrn(r)
  BY <1>1, <1>9 DEF Abort, WriteGrn, DeleteGrn, Done, Idle, Typed
<1>10. CASE ReceiveGrn(r) \/ RestoreSale(r)
  BY <1>10 DEF ReceiveGrn, RestoreSale, Typed
<1> QED BY <1>4, <1>5, <1>6, <1>7, <1>8, <1>9, <1>10

\* What a request has read stays so until somebody else writes.
LEMMA StepFresh == IInv /\ Fresh /\ LotsNext => Fresh'
<1> SUFFICES ASSUME IInv, Fresh, LotsNext, Quiet PROVE \A q \in Requests : PlanStands(q)'
  BY DEF Fresh, Quiet
<1>1. Next /\ \A q \in Requests : PlanStands(q)
  BY Unraced DEF Fresh
<1>2. PICK r \in Requests :
          \/ ReceiveGrn(r) \/ PlanSale(r) \/ PlanEditSale(r) \/ WriteSale(r)
          \/ Abort(r) \/ DeleteSale(r) \/ RestoreSale(r) \/ CheckGrn(r)
          \/ WriteGrn(r) \/ DeleteGrn(r)
  BY <1>1 DEF Next
<1>3. req = [q \in Requests |-> req[q]]
  BY DEF IInv, Shape
<1>4. ASSUME NEW q \in Requests, req'[q].op = "idle" PROVE PlanStands(q)'
  BY <1>4 DEF PlanStands
<1>5. ASSUME NEW q \in Requests, req'[q] = req[q] PROVE PlanStands(q)'
  <2>1. CASE req[q].op = "idle"
    BY <1>4, <1>5, <2>1
  <2>2. CASE req[q].op # "idle"
    <3>1. UNCHANGED <<lot, sale, alloc>>
      <4>1. ~Raced
        BY DEF LotsNext, Quiet
      <4> QED BY <1>5, <2>2, <4>1 DEF Raced
    <3> QED BY <1>1, <1>5, <3>1, PlansStand
  <2> QED BY <2>1, <2>2
<1>6. ASSUME NEW q \in Requests \ {r} PROVE req'[q] = req[q]
  BY <1>2, <1>3 DEF ReceiveGrn, PlanSale, PlanEditSale, WriteSale, Abort, DeleteSale,
                    RestoreSale, CheckGrn, WriteGrn, DeleteGrn, Done
<1>7. CASE ReceiveGrn(r) \/ DeleteSale(r) \/ RestoreSale(r)
  <2>1. req' = req
    BY <1>7 DEF ReceiveGrn, DeleteSale, RestoreSale
  <2> QED BY <1>5, <2>1
<1>8. CASE WriteSale(r) \/ Abort(r) \/ WriteGrn(r) \/ DeleteGrn(r)
  <2>1. req'[r].op = "idle"
    BY <1>3, <1>8 DEF WriteSale, Abort, WriteGrn, DeleteGrn, Done, Idle
  <2> QED BY <1>4, <1>5, <1>6, <2>1
<1>9. CASE PlanSale(r)
  <2>1. PICK s \in Sales, lines \in Forms, asOf \in Lots :
            /\ sale[s] = "none"
            /\ req' = [req EXCEPT ![r] = [op |-> "post", sale |-> s, plan |-> Plan(lines, asOf, {})]]
    BY <1>9 DEF PlanSale
  <2>2. UNCHANGED <<lot, sale, alloc>>
    BY <1>9 DEF PlanSale
  <2>3. PICK plan : plan = Plan(lines, asOf, {}) /\ plan = Plan(lines, asOf, {})'
    BY <2>2 DEF Plan, Available, Consumed
  <2>4. req'[r].op = "post" /\ req'[r].sale = s /\ req'[r].plan = plan
    BY <1>3, <2>1, <2>3
  <2>5. PlanStands(r)'
    BY <2>1, <2>2, <2>3, <2>4 DEF PlanStands
  <2> QED BY <1>5, <1>6, <2>5
<1>10. CASE PlanEditSale(r)
  <2>1. PICK s \in Sales, lines \in Forms, asOf \in Lots :
            /\ sale[s] # "none"
            /\ req' = [req EXCEPT ![r] = [op |-> "edit", sale |-> s, plan |-> Plan(lines, asOf, {s})]]
    BY <1>10 DEF PlanEditSale
  <2>2. UNCHANGED <<lot, sale, alloc>>
    BY <1>10 DEF PlanEditSale
  <2>3. PICK plan : plan = Plan(lines, asOf, {s}) /\ plan = Plan(lines, asOf, {s})'
    BY <2>2 DEF Plan, Available, Consumed
  <2>4. req'[r].op = "edit" /\ req'[r].sale = s /\ req'[r].plan = plan
    BY <1>3, <2>1, <2>3
  <2>5. PlanStands(r)'
    BY <2>1, <2>2, <2>3, <2>4 DEF PlanStands
  <2> QED BY <1>5, <1>6, <2>5
<1>11. CASE CheckGrn(r)
  <2>1. PICK g \in Lots, op \in {"editGrn", "deleteGrn"} :
            ~HasLockedLots(g) /\ req' = [req EXCEPT ![r] = [op |-> op, lot |-> g]]
    BY <1>11 DEF CheckGrn
  <2>2. UNCHANGED <<lot, sale, alloc>>
    BY <1>11 DEF CheckGrn
  <2>3. req'[r].op \in {"editGrn", "deleteGrn"} /\ req'[r].lot = g
    BY <1>3, <2>1
  <2>4. ~HasLockedLots(g)'
    BY <2>1, <2>2 DEF HasLockedLots
  <2>5. PlanStands(r)'
    BY <2>3, <2>4 DEF PlanStands
  <2> QED BY <1>5, <1>6, <2>5
<1> QED BY <1>2, <1>7, <1>8, <1>9, <1>10, <1>11

\* A sale that takes nothing leaves its lots no fuller.
LEMMA ClearedTakesLess ==
    ASSUME Typed, alloc' \in Rows, NEW s \in Sales, SaleCleared(s), NEW g \in Lots
    PROVE  /\ TakenFrom(g, sale', alloc', {}) <= TakenFrom(g, sale, alloc, {})
           /\ TakenFrom(g, sale', alloc', {}) \in Nat /\ TakenFrom(g, sale, alloc, {}) \in Nat
<1>1. alloc \in Rows /\ sale'[s] = "none" /\ OtherSales(s)
  BY DEF Typed, Rows, SaleCleared
<1>2. PICK a, w, a2, w2 : a = alloc /\ w = sale /\ a2 = alloc' /\ w2 = sale'
  OBVIOUS
<1>3. /\ a \in Rows /\ a2 \in Rows /\ s \in Sales /\ g \in Lots /\ w2[s] # "active" /\ a[s][g] \in Nat
      /\ \A q \in Sales \ {s} : w2[q] = w[q] /\ a2[q] = a[q]
  BY <1>1, <1>2 DEF OtherSales, Rows
<1>4. /\ TakenFrom(g, w, a, {}) \in Nat /\ TakenFrom(g, w, a, {s}) \in Nat
      /\ TakenFrom(g, w, a, {}) = TakenFrom(g, w, a, {s}) + (IF w[s] = "active" THEN a[s][g] ELSE 0)
  BY ONLY <1>3, TakenFacts
<1>5. /\ TakenFrom(g, w2, a2, {}) \in Nat
      /\ TakenFrom(g, w2, a2, {}) = TakenFrom(g, w2, a2, {s}) + 0
  BY ONLY <1>3, TakenFacts
<1>6. TakenFrom(g, w2, a2, {s}) = TakenFrom(g, w, a, {s})
  BY ONLY <1>3, TakenByOthers
<1>7. TakenFrom(g, w2, a2, {}) <= TakenFrom(g, w, a, {})
  BY ONLY <1>3, <1>4, <1>5, <1>6
<1> QED BY ONLY <1>2, <1>4, <1>5, <1>7

\* As long as the history is quiet and forms have one line, no lot is consumed beyond
\* what it received.
LEMMA StepCovered == FInv /\ LotsNext /\ IInv' /\ Typed' => Covered'
<1> SUFFICES ASSUME FInv, LotsNext, IInv', Typed', OneLineForms, Quiet PROVE NoOverConsumption'
  BY DEF Covered, Quiet, OneLineForms
<1>1. IInv /\ Typed /\ Fresh /\ NoOverConsumption /\ alloc \in Rows /\ alloc' \in Rows
  BY Unraced DEF FInv, Covered, Typed, Rows
<1>2. SUFFICES ASSUME NEW g \in Lots, lot'[g].st = "live"
              PROVE  TakenFrom(g, sale', alloc', {}) <= lot'[g].qty
  BY DEF NoOverConsumption, Consumed, TakenFrom
<1>3. lot[g].qty \in Nat /\ lot'[g].qty \in Nat
  BY <1>1, QuantitiesAssumption DEF IInv, Shape
<1>4. lot[g].st = "live" => TakenFrom(g, sale, alloc, {}) <= lot[g].qty
  BY <1>1, NotOver
<1>5. CASE UNCHANGED <<lot, sale, alloc>>
  BY <1>2, <1>4, <1>5
<1>6. ASSUME NEW h \in Lots, UnsoldLotChanges(h)
      PROVE  TakenFrom(g, sale', alloc', {}) <= lot'[g].qty
  <2>1. UNCHANGED <<sale, alloc>>
    BY <1>6 DEF UnsoldLotChanges
  <2>2. CASE g = h
    <3>1. ~UsedIn(g, sale, alloc)
      BY <1>6, <2>2 DEF UnsoldLotChanges
    <3>2. TakenFrom(g, sale, alloc, {}) = 0
      BY <1>1, <3>1, TakenUnused
    <3> QED BY <1>3, <2>1, <3>2
  <2>3. CASE g # h
    <3>1. lot'[g] = lot[g]
      BY <1>6, <2>3 DEF UnsoldLotChanges
    <3> QED BY <1>2, <1>4, <2>1, <3>1
  <2> QED BY <2>2, <2>3
<1>7. ASSUME NEW s \in Sales, SaleCleared(s)
      PROVE  TakenFrom(g, sale', alloc', {}) <= lot'[g].qty
  <2>1. SameStock(g)
    BY <1>7 DEF SaleCleared
  <2>2. /\ TakenFrom(g, sale', alloc', {}) <= TakenFrom(g, sale, alloc, {})
        /\ TakenFrom(g, sale', alloc', {}) \in Nat /\ TakenFrom(g, sale, alloc, {}) \in Nat
    BY <1>1, <1>7, ClearedTakesLess
  <2> QED BY <1>2, <1>3, <1>4, <2>1, <2>2 DEF SameStock
<1>8. ASSUME NEW s \in Sales, NEW lines \in Forms, NEW asOf \in Lots, NEW X,
             SaleWritten(s, lines, asOf, X)
      PROVE  TakenFrom(g, sale', alloc', {}) <= lot'[g].qty
  <2>1. SameStock(g)
    BY <1>8 DEF SaleWritten
  <2>2. Len(lines) <= 1
    BY DEF OneLineForms
  <2>3. PICK others, mine, before : /\ others = TakenFrom(g, sale, alloc, {s}) /\ mine = alloc'[s][g]
                                    /\ before = TakenFrom(g, sale, alloc, {})
    OBVIOUS
  <2>4. /\ others \in Nat /\ mine \in Nat /\ others <= before
        /\ TakenFrom(g, sale', alloc', {}) = others + (IF sale'[s] = "active" THEN mine ELSE 0)
        /\ mine # 0 => others + mine <= lot[g].qty
    BY <1>1, <1>8, <2>2, <2>3, WrittenFacts
  <2>5. before \in Nat /\ before <= lot[g].qty
    <3>1. before \in Nat
      <4>1. s \in Sales /\ g \in Lots /\ alloc \in Rows
        BY <1>1
      <4> QED BY ONLY <2>3, <4>1, TakenFacts
    <3> QED BY <1>2, <1>4, <2>1, <2>3, <3>1 DEF SameStock
  <2> QED BY <1>3, <2>1, <2>4, <2>5 DEF SameStock
<1>9. \/ UNCHANGED <<lot, sale, alloc>>
      \/ \E h \in Lots : UnsoldLotChanges(h)
      \/ \E s \in Sales : SaleCleared(s)
      \/ \E s \in Sales, lines \in Forms, asOf \in Lots, X \in SUBSET Sales : SaleWritten(s, lines, asOf, X)
  BY <1>1, QuietSteps
<1> QED BY <1>5, <1>6, <1>7, <1>8, <1>9

LEMMA FirstStep == FInv /\ [LotsNext]_lotsVars => FInv'
<1> SUFFICES ASSUME FInv, [LotsNext]_lotsVars PROVE FInv'
  OBVIOUS
<1>1. CASE UNCHANGED lotsVars
  <2>1. IInv' /\ Typed'
    BY <1>1, StepInv, StepTyped DEF FInv, lotsVars
  <2>2. Fresh'
    <3>1. ASSUME NEW r \in Requests, PlanStands(r) PROVE PlanStands(r)'
      BY <1>1, <3>1, PlansStand DEF lotsVars, vars
    <3> QED BY <1>1, <3>1 DEF FInv, Fresh, lotsVars
  <2>3. Covered'
    BY <1>1 DEF FInv, Covered, NoOverConsumption, Consumed, lotsVars, vars
  <2> QED BY <2>1, <2>2, <2>3 DEF FInv
<1>2. CASE LotsNext
  <2>1. IInv' /\ Typed'
    BY <1>2, StepInv, StepTyped DEF FInv, LotsNext
  <2>2. Fresh' /\ Covered'
    BY <1>2, <2>1, StepFresh, StepCovered DEF FInv
  <2> QED BY <2>1, <2>2 DEF FInv
<1> QED BY <1>1, <1>2

\* Every state of a history satisfies it.
THEOREM HistoryInvariant == LotsSpec => []FInv
<1> QED BY FirstInit, FirstStep, PTL DEF LotsSpec

\* Allocations and the plans still unwritten are bags of the lots of the model.
THEOREM QuantitiesTyped == LotsSpec => []Typed
<1>1. FInv => Typed
  BY DEF FInv
<1> QED BY <1>1, HistoryInvariant, PTL

\* While nothing races and no sale is restored, a step leaves the stock of a locked lot.
LEMMA QuietLocks == FInv /\ LotsNext /\ Quiet => LocksRespected
<1> SUFFICES ASSUME FInv, LotsNext, Quiet, NEW g \in Lots, lot[g].locked PROVE SameStock(g)
  BY DEF LocksRespected, SameStock
<1>1. \/ UNCHANGED <<lot, sale, alloc>>
      \/ \E h \in Lots : UnsoldLotChanges(h)
      \/ \E s \in Sales : SaleCleared(s)
      \/ \E s \in Sales, lines \in Forms, asOf \in Lots, X \in SUBSET Sales : SaleWritten(s, lines, asOf, X)
  BY QuietSteps DEF FInv
<1>2. CASE UNCHANGED <<lot, sale, alloc>>
  BY <1>2 DEF SameStock
<1>3. ASSUME NEW h \in Lots, UnsoldLotChanges(h) PROVE SameStock(g)
  <2>1. g # h /\ lot'[g] = lot[g]
    BY <1>3 DEF UnsoldLotChanges
  <2> QED BY <2>1 DEF SameStock
<1>4. ASSUME NEW s \in Sales, SaleCleared(s) PROVE SameStock(g)
  BY <1>4 DEF SaleCleared
<1>5. ASSUME NEW s \in Sales, NEW lines, NEW asOf, NEW X, SaleWritten(s, lines, asOf, X)
      PROVE  SameStock(g)
  BY <1>5 DEF SaleWritten
<1> QED BY <1>1, <1>2, <1>3, <1>4, <1>5

\* ... and a sale takes from a lot only when every older lot is used up.
LEMMA QuietOldest == FInv /\ LotsNext /\ Quiet /\ Typed' => TakesOldest
<1> SUFFICES ASSUME FInv, LotsNext, Quiet, Typed', NEW q \in Sales, alloc'[q] # alloc[q],
                    NEW g \in Touched(alloc'[q]), NEW h \in Lots,
                    h < g, lot'[h].st = "live", sale'[q] = "active"
             PROVE  TakenFrom(h, sale', alloc', {}) >= lot'[h].qty
  <2>1. \A k : TakenFrom(k, sale', alloc', {}) =
                   SumFunctionOnSet([s \in Sales |-> alloc'[s][k]], {s \in Sales : sale'[s] = "active"})
    <3>1. {s \in Sales : sale'[s] = "active"} \ {} = {s \in Sales : sale'[s] = "active"}
      OBVIOUS
    <3> QED BY <3>1 DEF TakenFrom
  <2> QED BY <2>1 DEF TakesOldest
<1>1. IInv /\ Typed /\ Fresh /\ alloc \in Rows /\ alloc' \in Rows /\ g \in Lots /\ alloc'[q][g] # 0
  BY DEF FInv, Typed, Rows, Touched
<1>2. \/ UNCHANGED <<lot, sale, alloc>>
      \/ \E k \in Lots : UnsoldLotChanges(k)
      \/ \E s \in Sales : SaleCleared(s)
      \/ \E s \in Sales, lines \in Forms, asOf \in Lots, X \in SUBSET Sales : SaleWritten(s, lines, asOf, X)
  BY <1>1, QuietSteps
<1>3. CASE UNCHANGED <<lot, sale, alloc>> \/ \E k \in Lots : UnsoldLotChanges(k)
  BY <1>3 DEF UnsoldLotChanges
<1>4. ASSUME NEW s \in Sales, SaleCleared(s) PROVE FALSE
  <2>1. q = s
    BY <1>4 DEF SaleCleared, OtherSales
  <2> QED BY <1>4, <2>1 DEF SaleCleared
<1>5. ASSUME NEW s \in Sales, NEW lines \in Forms, NEW asOf \in Lots, NEW X,
             SaleWritten(s, lines, asOf, X)
      PROVE  TakenFrom(h, sale', alloc', {}) >= lot'[h].qty
  <2>1. q = s
    BY <1>5 DEF SaleWritten, OtherSales
  <2>2. SameStock(h)
    BY <1>5 DEF SaleWritten
  <2>3. TakenFrom(h, sale', alloc', {}) = TakenFrom(h, sale, alloc, {s}) + alloc'[s][h]
    BY <1>1, <1>5, <2>1, WrittenFacts
  <2>4. lot[h].qty <= TakenFrom(h, sale, alloc, {s}) + alloc'[s][h]
    BY <1>1, <1>5, <2>1, <2>2, WrittenFacts DEF SameStock
  <2> QED BY <2>2, <2>3, <2>4 DEF SameStock
<1> QED BY <1>2, <1>3, <1>4, <1>5

\* edit_grn and the delete action never change the stock of a GRN line whose flag is
\* set, for every number of requests, unless rows changed under a request (pending.py:231).
THEOREM LocksKeepStock == LotsSpec => LockedLotsKeepStock
<1>1. FInv /\ [LotsNext]_lotsVars => [events' # {} \/ LocksRespected]_lotsVars
  BY QuietLocks DEF Quiet
<1> QED BY <1>1, HistoryInvariant, PTL DEF LotsSpec, LockedLotsKeepStock

\* For forms with any number of lines, a sale takes from a lot only when every older
\* lot is used up (sales_core.py:233), unless rows changed under its request.
THEOREM OldestTakenFirst == LotsSpec => [][events' # {} \/ TakesOldest]_lotsVars
<1>1. FInv /\ FInv' /\ [LotsNext]_lotsVars => [events' # {} \/ TakesOldest]_lotsVars
  BY QuietOldest DEF Quiet, FInv
<1> QED BY <1>1, HistoryInvariant, PTL DEF LotsSpec

\* When a form has at most one chargeable line of the material, no lot is ever consumed
\* beyond what it received either: _expand_chargeable_items_fifo plans every line from
\* the same rows, so two lines of one form may take the same stock twice.
THEOREM FirstInFirstOutHolds == ASSUME OneLineForms PROVE LotsSpec => FirstInFirstOut
<1>1. FInv /\ FInv' /\ [LotsNext]_lotsVars
          => [events' # {} \/ (NoOverConsumption' /\ TakesOldest)]_lotsVars
  BY QuietOldest DEF Quiet, FInv, Covered
<1> QED BY <1>1, HistoryInvariant, PTL DEF LotsSpec, FirstInFirstOut
------------------------------------------------------------------------------
(* The numbers of the documents.                                              *)

\* A document, a page that holds the number it drew or asked about.
Form == [kind : Kinds, auto : Nat, manual : Nat, void : BOOLEAN, old : BOOLEAN, how : Ways]
Page == [stage : {"asked", "drawn"}, kind : Kinds, id : Nat, number : Nat, auto : Nat,
         stale : BOOLEAN, late : BOOLEAN]
Active(e) == page[e].stage # "none"

\* The parts of the type invariant: every id lies before the next one, every
\* counter is a number, and a page loads a document that was there.
DocsTyped ==
    /\ doc \in [Docs -> Form] /\ IsFiniteSet(Docs)
    /\ nextId \in Nat \ {0} /\ \A d \in Docs : d \in Nat \ {0} /\ d < nextId
PagesTyped ==
    /\ counter \in [Numbered -> Nat]
    /\ page \in [Editors -> Page \cup {NoPage}]

\* The write lock: one page at most holds a number, it is to post a new document
\* with it, and the number lies ahead of every one given so far.
OneDraws == \A e, f \in Editors : Drawn(e) /\ Drawn(f) => e = f
DrawnAhead ==
    \A e \in Editors : Drawn(e) =>
        /\ page[e].id = 0 /\ page[e].kind \in Numbered
        /\ \A d \in Docs : doc[d].kind = page[e].kind => doc[d].auto < page[e].auto

\* What the check of a page that is not late is still good for: nobody else whose
\* table is searched stands with the number, or, unless it edits a sale, its own
\* document has the number already (or was written by another page meanwhile).
\* A bill by hand is asked about to be posted only.
Lonely(n, id) == \A x \in Standing \ {id} : doc[x].manual = n => doc[x].kind = "supplier"
OwnAlready(r) == r.id # 0 /\ r.kind # "sale" /\ (r.stale \/ (r.id \in Docs /\ doc[r.id].manual = r.number))
CheckHolds ==
    \A e \in Editors : Active(e) =>
        /\ page[e].kind = "pending" => page[e].id = 0
        /\ ~page[e].late /\ page[e].number # Blank =>
               Lonely(page[e].number, page[e].id) \/ OwnAlready(page[e])

NumbersInv == DocsTyped /\ PagesTyped /\ OneDraws /\ DrawnAhead /\ CheckHolds /\ AutoGivenOnce

------------------------------------------------------------------------------
(* Greatest numbers, tables and conflicts.                                    *)

\* Some element of a finite set has the greatest number.
LEMMA Greatest ==
    ASSUME NEW S, IsFiniteSet(S), S # {}, NEW f \in [S -> Nat]
    PROVE  \E m \in S : \A x \in S : f[x] <= f[m]
<1> DEFINE Tops(T) == \E m \in T : \A x \in T : f[x] <= f[m]
           Bad == {n \in Nat : \E T \in SUBSET S : T # {} /\ Cardinality(T) = n /\ ~Tops(T)}
<1>1. SUFFICES ASSUME Bad # {} PROVE FALSE
  <2>1. Cardinality(S) \in Nat
    BY FS_CardinalityType
  <2> QED BY <2>1
<1>2. PICK n \in Bad : \A k \in Bad : n <= k
  <2> HIDE DEF Bad
  <2>1. Bad \in SUBSET Nat
    BY DEF Bad
  <2> QED BY <1>1, <2>1, LeastNumber
<1>3. PICK T \in SUBSET S : T # {} /\ Cardinality(T) = n /\ ~Tops(T)
  BY <1>2
<1>4. PICK y \in T : TRUE
  BY <1>3
<1> DEFINE R == T \ {y}
<1>5. IsFiniteSet(T)
  BY FS_Subset
<1>6. Cardinality(R) = n - 1 /\ Cardinality(R) \in Nat
  BY <1>3, <1>4, <1>5, FS_RemoveElement, FS_CardinalityType
<1>7. R # {}
  <2>1. SUFFICES ASSUME T = {y} PROVE FALSE
    BY <1>4
  <2>2. f[y] \in Nat
    BY <1>4
  <2> QED BY <1>3, <2>1, <2>2
<1>8. R \in SUBSET S /\ n \in Nat
  BY <1>2
<1>9. Tops(R)
  <2>1. n - 1 \notin Bad
    BY <1>2, <1>6, <1>8
  <2> QED BY <1>6, <1>7, <1>8, <2>1
<1>10. PICK m \in R : \A x \in R : f[x] <= f[m]
  BY <1>9
<1>11. m \in T /\ y \in T /\ f[m] \in Nat /\ f[y] \in Nat /\ \A x \in T : f[x] \in Nat
  BY <1>4, <1>10
<1>12. CASE f[y] <= f[m]
  BY <1>3, <1>10, <1>11, <1>12
<1>13. CASE f[m] <= f[y]
  <2>1. ASSUME NEW x \in T PROVE f[x] <= f[y]
    <3>1. CASE x = y
      BY <1>11, <3>1
    <3>2. CASE x # y
      <4>1. f[x] <= f[m] /\ f[x] \in Nat
        BY <1>10, <1>11, <3>2
      <4> QED BY <1>11, <1>13, <4>1
    <3> QED BY <3>1, <3>2
  <2> QED BY <1>3, <1>11, <2>1
<1> QED BY <1>11, <1>12, <1>13

\* Max and Min of a set that has a greatest or least element.
LEMMA MaxIs ==
    ASSUME NEW S \in SUBSET Nat, NEW m \in S, \A x \in S : x <= m
    PROVE  Max(S) \in S /\ \A x \in S : x <= Max(S)
<1>1. \A x \in S : m >= x
  OBVIOUS
<1>2. Max(S) \in S /\ \A x \in S : Max(S) >= x
  BY <1>1 DEF Max
<1> QED BY <1>2

LEMMA MinIs ==
    ASSUME NEW S \in SUBSET Nat, S # {}
    PROVE  Min(S) \in S /\ \A x \in S : Min(S) <= x
<1>1. \E n \in S : \A x \in S : n <= x
  BY LeastNumber
<1>2. Min(S) \in S /\ \A x \in S : Min(S) =< x
  BY <1>1 DEF Min
<1> QED BY <1>2

\* The tables.
LEMMA Tables ==
    /\ DOMAIN Searched = 1..6
    /\ ToSet(Searched) = {"sale", "booking", "payment", "return", "grn", "pending"}
    /\ Kinds = {"sale", "booking", "payment", "return", "grn", "pending", "supplier"}
    /\ Numbered = Kinds \ {"pending"}
    /\ \A k \in Kinds \ {"supplier"} : \E i \in DOMAIN Searched : Searched[i] = k
    /\ \A i, j \in DOMAIN Searched : Searched[i] = Searched[j] => i = j
<1>1. DOMAIN Searched = 1..6
  BY DEF Searched
<1>2. /\ Searched[1] = "sale" /\ Searched[2] = "booking" /\ Searched[3] = "payment"
      /\ Searched[4] = "return" /\ Searched[5] = "grn" /\ Searched[6] = "pending"
  BY DEF Searched
<1>3. \A i \in 1..6 : i = 1 \/ i = 2 \/ i = 3 \/ i = 4 \/ i = 5 \/ i = 6
  OBVIOUS
<1>4. 1 \in 1..6 /\ 2 \in 1..6 /\ 3 \in 1..6 /\ 4 \in 1..6 /\ 5 \in 1..6 /\ 6 \in 1..6
  OBVIOUS
<1>5. ToSet(Searched) = {Searched[i] : i \in 1..6}
  BY <1>1 DEF ToSet
<1>6. ToSet(Searched) = {"sale", "booking", "payment", "return", "grn", "pending"}
  BY <1>2, <1>3, <1>4, <1>5
<1>7. Kinds = {"sale", "booking", "payment", "return", "grn", "pending", "supplier"}
  BY <1>6 DEF Kinds
<1>8. Numbered = Kinds \ {"pending"}
  BY <1>6, <1>7 DEF Numbered
<1>9. \A k \in Kinds \ {"supplier"} : \E i \in DOMAIN Searched : Searched[i] = k
  BY <1>1, <1>2, <1>4, <1>7
<1>10. \A i, j \in DOMAIN Searched : Searched[i] = Searched[j] => i = j
  BY <1>1, <1>2, <1>3
<1> QED BY <1>1, <1>6, <1>7, <1>8, <1>9, <1>10

LEMMA RankIs ==
    ASSUME NEW k \in Kinds \ {"supplier"}
    PROVE  Rank(k) \in 1..6 /\ Searched[Rank(k)] = k
<1>1. \E i \in DOMAIN Searched : Searched[i] = k
  BY Tables
<1>2. Rank(k) \in DOMAIN Searched /\ Searched[Rank(k)] = k
  BY <1>1 DEF Rank
<1> QED BY <1>2, Tables

\* What a look for conflicts says of the documents docs: a hit stands with the
\* number; a document that stands with it in a searched table means a hit, in its
\* table or in an earlier one.
Carrier(docs, S, except, x) ==
    x \in DOMAIN docs \ except /\ ~docs[x].void /\ docs[x].manual \in S

LEMMA HitsCarry ==
    ASSUME NEW docs, NEW S, NEW except, NEW d \in FirstHitsIn(docs, S, except)
    PROVE  Carrier(docs, S, except, d)
BY DEF FirstHitsIn, Carriers, Carrier

LEMMA CarriersHit ==
    ASSUME NEW docs, NEW S, NEW except, NEW x, Carrier(docs, S, except, x),
           docs[x].kind \in Kinds \ {"supplier"}
    PROVE  /\ FirstHitsIn(docs, S, except) # {}
           /\ \A d \in FirstHitsIn(docs, S, except) : Rank(docs[d].kind) <= Rank(docs[x].kind)
<1> DEFINE tables == {i \in DOMAIN Searched : Carriers(docs, Searched[i], S, except) # {}}
           r == Rank(docs[x].kind)
<1>1. r \in DOMAIN Searched /\ Searched[r] = docs[x].kind /\ r \in Nat
  BY RankIs, Tables
<1>2. x \in Carriers(docs, Searched[r], S, except)
  BY <1>1 DEF Carriers, Carrier
<1>3. r \in tables /\ tables \in SUBSET Nat
  BY <1>1, <1>2, Tables
<1>4. Min(tables) \in tables /\ Min(tables) <= r
  <2> HIDE DEF tables, r
  <2> QED BY <1>3, MinIs
<1>5. FirstHitsIn(docs, S, except) = Carriers(docs, Searched[Min(tables)], S, except)
  BY <1>3 DEF FirstHitsIn
<1>6. ASSUME NEW d \in FirstHitsIn(docs, S, except) PROVE Rank(docs[d].kind) <= r
  <2>1. docs[d].kind = Searched[Min(tables)]
    BY <1>5, <1>6 DEF Carriers
  <2>2. Rank(Searched[Min(tables)]) = Min(tables)
    <3> DEFINE m == Min(tables)
    <3>1. m \in DOMAIN Searched
      BY <1>4
    <3> HIDE DEF m
    <3>2. Rank(Searched[m]) = m
      BY <3>1, Tables DEF Rank
    <3> QED BY <3>2 DEF m
  <2> QED BY <1>4, <2>1, <2>2
<1> QED BY <1>4, <1>5, <1>6

\* The number drawn lies ahead of those of its kind.
LEMMA NextAhead ==
    ASSUME DocsTyped, PagesTyped, NEW k \in Numbered
    PROVE  NextNumber(k) \in Nat /\ \A d \in Docs : doc[d].kind = k => doc[d].auto < NextNumber(k)
<1> DEFINE T == {x \in Docs : doc[x].kind = k}
           S == {counter[k]} \cup {doc[d].auto + 1 : d \in T}
<1>1. counter[k] \in Nat /\ \A d \in Docs : doc[d].auto \in Nat
  BY DEF DocsTyped, PagesTyped, Form
<1>2. S \in SUBSET Nat
  BY <1>1
<1>3. \E m \in S : \A x \in S : x <= m
  <2>1. CASE T = {}
    BY <1>1, <2>1
  <2>2. CASE T # {}
    <3> DEFINE f == [d \in T |-> doc[d].auto]
    <3>1. f \in [T -> Nat] /\ IsFiniteSet(T) /\ \A d \in T : f[d] = doc[d].auto
      BY <1>1, FS_Subset DEF DocsTyped
    <3> HIDE DEF f
    <3>2. PICK t \in T : \A x \in T : f[x] <= f[t]
      BY <2>2, <3>1, Greatest
    <3>3. \A x \in T : doc[x].auto + 1 <= doc[t].auto + 1
      BY <1>1, <3>1, <3>2
    <3>4. CASE counter[k] <= doc[t].auto + 1
      BY <1>1, <3>3, <3>4
    <3>5. CASE doc[t].auto + 1 <= counter[k]
      <4>1. \A x \in T : doc[x].auto + 1 <= counter[k]
        BY <1>1, <3>3, <3>5
      <4> QED BY <1>1, <4>1
    <3> QED BY <1>1, <3>4, <3>5
  <2> QED BY <2>1, <2>2
<1>4. NextNumber(k) = Max(S)
  BY DEF NextNumber
<1>5. NextNumber(k) \in S /\ \A x \in S : x <= NextNumber(k)
  <2> HIDE DEF S
  <2> QED BY <1>2, <1>3, <1>4, MaxIs
<1>6. ASSUME NEW d \in Docs, doc[d].kind = k PROVE doc[d].auto < NextNumber(k)
  <2>1. doc[d].auto + 1 \in S
    BY <1>6
  <2>2. doc[d].auto + 1 <= NextNumber(k) /\ NextNumber(k) \in Nat
    BY <1>2, <1>5, <2>1
  <2> QED BY <1>1, <2>2
<1> QED BY <1>2, <1>5, <1>6

\* What a page knows when its check passes.
LEMMA AskedToPost ==
    ASSUME DocsTyped, NEW n, FirstHits({n}, {}) = {}
    PROVE  Lonely(n, 0)
<1>1. SUFFICES ASSUME NEW x \in Standing, doc[x].manual = n PROVE doc[x].kind = "supplier"
  BY DEF Lonely
<1>2. Carrier(doc, {n}, {}, x) /\ doc[x].kind \in Kinds
  BY <1>1 DEF Carrier, Standing, Docs, DocsTyped, Form
<1> QED BY <1>2, CarriersHit DEF FirstHits

LEMMA AskedToEdit ==
    ASSUME DocsTyped, NEW n, NEW d \in Standing,
           LET hits == FirstHits({n}, IF doc[d].kind = "sale" THEN {d} ELSE {})
           IN  hits = {} \/ d \in hits
    PROVE  Lonely(n, d) \/ (doc[d].kind # "sale" /\ doc[d].manual = n)
<1> DEFINE except == IF doc[d].kind = "sale" THEN {d} ELSE {}
<1>1. CASE FirstHits({n}, except) = {}
  <2>1. SUFFICES ASSUME NEW x \in Standing \ {d}, doc[x].manual = n PROVE doc[x].kind = "supplier"
    BY DEF Lonely
  <2>2. Carrier(doc, {n}, except, x) /\ doc[x].kind \in Kinds
    BY <2>1 DEF Carrier, Standing, Docs, DocsTyped, Form
  <2> HIDE DEF except
  <2> QED BY <1>1, <2>2, CarriersHit DEF FirstHits
<1>2. CASE d \in FirstHits({n}, except)
  <2>1. Carrier(doc, {n}, except, d)
    <3> HIDE DEF except
    <3> QED BY <1>2, HitsCarry DEF FirstHits
  <2> QED BY <2>1 DEF Carrier
<1> QED BY <1>1, <1>2

------------------------------------------------------------------------------
(* What a write does: to the document d, which gets the number n if it stands *)
(* afterwards, and to the pages.                                              *)

After(r, d, n) ==
    [r EXCEPT !.stale = r.stale \/ r.id = d, !.late = r.late \/ (n # Blank /\ r.number = n)]
DocTouched(d, n) ==
    /\ Docs' \ {d} = Docs \ {d} /\ \A x \in Docs' \ {d} : doc'[x] = doc[x]
    /\ d \in Standing' => doc'[d].manual = n
    /\ \A f \in Editors : page'[f] = NoPage \/ (Active(f) /\ page'[f] = After(page[f], d, n))
    /\ page' \in [Editors -> Page \cup {NoPage}]

LEMMA OvertakenIs ==
    ASSUME PagesTyped, NEW d, NEW n
    PROVE  /\ Overtaken(d, n) \in [Editors -> Page \cup {NoPage}]
           /\ \A f \in Editors :
                 \/ Overtaken(d, n)[f] = NoPage
                 \/ /\ Active(f)
                    /\ Overtaken(d, n)[f] = After(page[f], d, n)
<1>1. ASSUME NEW f \in Editors
      PROVE  /\ Overtaken(d, n)[f] \in Page \cup {NoPage}
             /\ \/ Overtaken(d, n)[f] = NoPage
                \/ /\ Active(f)
                   /\ Overtaken(d, n)[f] = After(page[f], d, n)
  <2>1. CASE page[f].stage = "none"
    BY <2>1 DEF Overtaken
  <2>2. CASE page[f].stage # "none"
    <3>1. page[f] \in Page
      BY <2>2 DEF PagesTyped, NoPage
    <3>2. Overtaken(d, n)[f] = After(page[f], d, n)
      BY <2>2 DEF Overtaken, After
    <3>3. Overtaken(d, n)[f] \in Page
      BY <3>1, <3>2 DEF Page, After
    <3> QED BY <2>2, <3>2, <3>3 DEF Active
  <2> QED BY <2>1, <2>2
<1>2. Overtaken(d, n) = [f \in Editors |-> Overtaken(d, n)[f]]
  BY DEF Overtaken
<1> QED BY <1>1, <1>2

\* The pages after a write of d, whether by one of them or not.
Overtakes(d, n) ==
    page' = Overtaken(d, n) \/ \E e \in Editors : page' = [Overtaken(d, n) EXCEPT ![e] = NoPage]

\* The writers of one document: its id, its number and its new row.
LEMMA EditTouches ==
    ASSUME DocsTyped, PagesTyped, NEW d \in Docs, NEW n, NEW row,
           doc' = [doc EXCEPT ![d] = row], ~row.void => row.manual = n,
           Overtakes(d, n)
    PROVE  DocTouched(d, n) /\ Docs' = Docs /\ doc'[d] = row
<1>1. Docs' = Docs /\ doc'[d] = row /\ \A x \in Docs \ {d} : doc'[x] = doc[x]
  BY DEF DocsTyped, Docs
<1>2. d \in Standing' => doc'[d].manual = n
  BY <1>1 DEF Standing
<1>3. /\ page' \in [Editors -> Page \cup {NoPage}]
      /\ \A f \in Editors : page'[f] = NoPage \/ page'[f] = Overtaken(d, n)[f]
  <2> DEFINE o == Overtaken(d, n)
  <2>1. o \in [Editors -> Page \cup {NoPage}]
    BY OvertakenIs
  <2>2. page' = o \/ \E e \in Editors : page' = [o EXCEPT ![e] = NoPage]
    BY DEF Overtakes
  <2> HIDE DEF o
  <2>3. /\ page' \in [Editors -> Page \cup {NoPage}]
        /\ \A f \in Editors : page'[f] = NoPage \/ page'[f] = o[f]
    BY <2>1, <2>2
  <2> QED BY <2>3 DEF o
<1>4. ASSUME NEW f \in Editors PROVE page'[f] = NoPage \/ (Active(f) /\ page'[f] = After(page[f], d, n))
  <2>1. page'[f] = NoPage \/ page'[f] = Overtaken(d, n)[f]
    BY <1>3
  <2>2. \/ Overtaken(d, n)[f] = NoPage
        \/ Active(f) /\ Overtaken(d, n)[f] = After(page[f], d, n)
    BY OvertakenIs
  <2> QED BY <2>1, <2>2
<1> QED BY <1>1, <1>2, <1>3, <1>4 DEF DocTouched

RenumberedRow(d, n, way) ==
    [doc[d] EXCEPT !.manual = n, !.how = IF doc[d].manual = n THEN doc[d].how ELSE way]

LEMMA RenumberedIs ==
    ASSUME DocsTyped, NEW d \in Docs, NEW n \in Nat, NEW way \in Ways
    PROVE  /\ Renumbered(d, n, way) = [doc EXCEPT ![d] = RenumberedRow(d, n, way)]
           /\ RenumberedRow(d, n, way) \in Form
           /\ RenumberedRow(d, n, way).kind = doc[d].kind /\ RenumberedRow(d, n, way).auto = doc[d].auto
           /\ RenumberedRow(d, n, way).old = doc[d].old /\ RenumberedRow(d, n, way).void = doc[d].void
           /\ RenumberedRow(d, n, way).manual = n
           /\ RenumberedRow(d, n, way).how = IF doc[d].manual = n THEN doc[d].how ELSE way
<1>1. doc[d] \in Form /\ doc = [x \in Docs |-> doc[x]]
  BY DEF DocsTyped
<1>2. /\ RenumberedRow(d, n, way) \in Form
      /\ RenumberedRow(d, n, way).kind = doc[d].kind /\ RenumberedRow(d, n, way).auto = doc[d].auto
      /\ RenumberedRow(d, n, way).old = doc[d].old /\ RenumberedRow(d, n, way).void = doc[d].void
      /\ RenumberedRow(d, n, way).manual = n
      /\ RenumberedRow(d, n, way).how = IF doc[d].manual = n THEN doc[d].how ELSE way
  <2> DEFINE h == IF doc[d].manual = n THEN doc[d].how ELSE way
             r == doc[d]
  <2>1. r \in Form /\ h \in Ways
    BY <1>1 DEF Form
  <2>2. RenumberedRow(d, n, way) = [r EXCEPT !.manual = n, !.how = h]
    BY DEF RenumberedRow
  <2> HIDE DEF h, r
  <2> DEFINE z == [r EXCEPT !.manual = n, !.how = h]
  <2>3. z \in Form
    BY <2>1 DEF Form
  <2>4. /\ z.kind = r.kind /\ z.auto = r.auto /\ z.old = r.old /\ z.void = r.void
        /\ z.manual = n /\ z.how = h
    BY <2>1 DEF Form
  <2> HIDE DEF z
  <2>5. RenumberedRow(d, n, way) = z
    BY <2>2 DEF z
  <2> QED BY <2>3, <2>4, <2>5 DEF h, r
<1>3. Renumbered(d, n, way) = [doc EXCEPT ![d] = RenumberedRow(d, n, way)]
  BY <1>1 DEF Renumbered, RenumberedRow, Form, Docs
<1> QED BY <1>2, <1>3

------------------------------------------------------------------------------
(* The parts of the invariant under a write and under a step of a page.       *)

\* A page that is active is a record, one that is not holds nothing.
LEMMA PageIs ==
    ASSUME PagesTyped, NEW f \in Editors
    PROVE  /\ Active(f) => page[f] \in Page
           /\ Drawn(f) => Active(f)
           /\ Asking(f) => Active(f)
BY DEF PagesTyped, Active, Drawn, Asking, NoPage

LEMMA CheckKept ==
    ASSUME NumbersInv, NEW d, NEW n, DocTouched(d, n)
    PROVE  CheckHolds'
<1>1. SUFFICES ASSUME NEW f \in Editors, Active(f)'
               PROVE  /\ page'[f].kind = "pending" => page'[f].id = 0
                      /\ ~page'[f].late /\ page'[f].number # Blank =>
                             Lonely(page[f].number, page[f].id)' \/ OwnAlready(page[f])'
  BY DEF CheckHolds
<1>2. Active(f) /\ page'[f] = After(page[f], d, n) /\ page[f] \in Page
  BY <1>1, PageIs DEF DocTouched, Active, NoPage, NumbersInv
<1> DEFINE r == page[f]
<1>3. /\ page'[f].number = r.number /\ page'[f].id = r.id /\ page'[f].kind = r.kind
      /\ page'[f].stale = (r.stale \/ r.id = d) /\ page'[f].late = (r.late \/ (n # Blank /\ r.number = n))
  <2>1. r \in Page /\ page'[f] = After(r, d, n)
    BY <1>2
  <2> HIDE DEF r
  <2> QED BY <2>1 DEF After, Page
<1>4. r.kind = "pending" => r.id = 0
  BY <1>2 DEF NumbersInv, CheckHolds
<1>5. SUFFICES ASSUME ~page'[f].late, page'[f].number # Blank
                PROVE  Lonely(page[f].number, page[f].id)' \/ OwnAlready(page[f])'
  BY <1>3, <1>4
<1>6. ~r.late /\ r.number # Blank /\ r.number # n
  BY <1>5, <1>3
<1>7. Lonely(r.number, r.id) \/ OwnAlready(r)
  BY <1>2, <1>6 DEF NumbersInv, CheckHolds
<1>8. ASSUME NEW x \in Standing' \ {r.id}, doc'[x].manual = r.number
      PROVE  x \in Standing \ {r.id} /\ doc'[x] = doc[x]
  <2>1. x # d
    BY <1>6, <1>8 DEF DocTouched
  <2>2. x \in Docs /\ doc'[x] = doc[x]
    BY <1>8, <2>1 DEF DocTouched, Standing
  <2> QED BY <1>8, <2>2 DEF Standing
<1>9. CASE Lonely(r.number, r.id)
  <2>1. ASSUME NEW x \in Standing' \ {r.id}, doc'[x].manual = r.number
        PROVE  doc'[x].kind = "supplier"
    BY <1>8, <1>9, <2>1 DEF Lonely
  <2> QED BY <1>3, <2>1 DEF Lonely
<1>10. CASE OwnAlready(r)
  <2>1. r.id # 0 /\ r.kind # "sale" /\ (r.stale \/ (r.id \in Docs /\ doc[r.id].manual = r.number))
    BY <1>10 DEF OwnAlready
  <2>2. CASE r.stale \/ r.id = d
    BY <1>3, <2>1, <2>2 DEF OwnAlready
  <2>3. CASE r.id # d /\ r.id \in Docs /\ doc[r.id].manual = r.number
    <3>1. r.id \in Docs' /\ doc'[r.id] = doc[r.id]
      BY <2>3 DEF DocTouched
    <3> QED BY <1>3, <2>1, <2>3, <3>1 DEF OwnAlready
  <2> QED BY <2>1, <2>2, <2>3
<1> QED BY <1>7, <1>9, <1>10

\* Documents that keep kind, number and age keep what was drawn.
LEMMA DrawsKept ==
    ASSUME NumbersInv, NEW d, NEW n, DocTouched(d, n), Docs' \subseteq Docs,
           \A x \in Docs' : /\ doc'[x].kind = doc[x].kind /\ doc'[x].auto = doc[x].auto
                            /\ doc'[x].old = doc[x].old
    PROVE  OneDraws' /\ DrawnAhead' /\ AutoGivenOnce'
<1>1. ASSUME NEW f \in Editors, Drawn(f)'
      PROVE  Drawn(f) /\ page'[f].id = page[f].id /\ page'[f].kind = page[f].kind
             /\ page'[f].auto = page[f].auto
  <2>1. Active(f) /\ page'[f] = After(page[f], d, n) /\ page[f] \in Page
    BY <1>1, PageIs DEF DocTouched, Drawn, NoPage, NumbersInv
  <2> DEFINE r == page[f]
  <2>2. r \in Page /\ page'[f] = After(r, d, n)
    BY <2>1
  <2> HIDE DEF r
  <2>3. page'[f].stage = r.stage /\ page'[f].id = r.id /\ page'[f].kind = r.kind /\ page'[f].auto = r.auto
    BY <2>2 DEF After, Page
  <2> QED BY <1>1, <2>3 DEF Drawn, r
<1>2. OneDraws'
  BY <1>1 DEF OneDraws, NumbersInv
<1>3. DrawnAhead'
  <2>1. ASSUME NEW f \in Editors, Drawn(f)'
        PROVE  /\ page'[f].id = 0 /\ page'[f].kind \in Numbered
               /\ \A x \in Docs' : doc'[x].kind = page'[f].kind => doc'[x].auto < page'[f].auto
    BY <1>1, <2>1 DEF DrawnAhead, NumbersInv
  <2> QED BY <2>1 DEF DrawnAhead
<1>4. AutoGivenOnce'
  BY DEF AutoGivenOnce, NumbersInv
<1> QED BY <1>2, <1>3, <1>4

\* A step of one page that writes no document.
LEMMA QuietKept ==
    ASSUME NumbersInv, NEW e \in Editors, NEW r \in Page \cup {NoPage},
           UNCHANGED <<doc, counter, nextId>>, page' = [page EXCEPT ![e] = r],
           r.stage = "drawn" => /\ Free /\ r.id = 0 /\ r.kind \in Numbered
                                /\ \A d \in Docs : doc[d].kind = r.kind => doc[d].auto < r.auto,
           r.stage # "none" /\ r.kind = "pending" => r.id = 0,
           r.stage # "none" /\ ~r.late /\ r.number # Blank => Lonely(r.number, r.id) \/ OwnAlready(r)
    PROVE  NumbersInv' /\ (TwinsExplained => TwinsExplained')
<1>1. page'[e] = r /\ \A f \in Editors \ {e} : page'[f] = page[f]
  BY DEF NumbersInv, PagesTyped
<1>2. DocsTyped' /\ PagesTyped'
  BY DEF NumbersInv, DocsTyped, PagesTyped, Docs
<1>3. AutoGivenOnce' /\ (TwinsExplained => TwinsExplained')
  BY DEF NumbersInv, AutoGivenOnce, TwinsExplained, Twins, MayShare, Standing, Docs
<1>4. OneDraws'
  <2>1. \A f \in Editors \ {e} : Drawn(f)' => Drawn(f)
    BY <1>1 DEF Drawn
  <2>2. Drawn(e)' => Free
    BY <1>1 DEF Drawn
  <2> QED BY <2>1, <2>2 DEF OneDraws, NumbersInv, Free
<1>5. DrawnAhead'
  <2>1. ASSUME NEW f \in Editors, Drawn(f)'
        PROVE  /\ page'[f].id = 0 /\ page'[f].kind \in Numbered
               /\ \A d \in Docs : doc[d].kind = page'[f].kind => doc[d].auto < page'[f].auto
    <3>1. CASE f = e
      BY <1>1, <2>1, <3>1 DEF Drawn
    <3>2. CASE f # e
      BY <1>1, <2>1, <3>2 DEF Drawn, DrawnAhead, NumbersInv
    <3> QED BY <3>1, <3>2
  <2> QED BY <2>1 DEF DrawnAhead, Docs
<1>6. CheckHolds'
  <2>1. SUFFICES ASSUME NEW f \in Editors, page'[f].stage # "none"
                 PROVE  /\ page'[f].kind = "pending" => page'[f].id = 0
                        /\ ~page'[f].late /\ page'[f].number # Blank =>
                               Lonely(page'[f].number, page'[f].id) \/ OwnAlready(page'[f])
    BY DEF CheckHolds, Active, Lonely, OwnAlready, Standing, Docs
  <2>2. CASE f = e
    BY <1>1, <2>1, <2>2
  <2>3. CASE f # e
    BY <1>1, <2>1, <2>3 DEF CheckHolds, NumbersInv, Active
  <2> QED BY <2>2, <2>3
<1> QED BY <1>2, <1>3, <1>4, <1>5, <1>6 DEF NumbersInv

\* A write of d leaves twins explained if it explains those of d.
LEMMA TwinsKept ==
    ASSUME TwinsExplained, NEW d, Docs' \ {d} = Docs \ {d}, \A x \in Docs' \ {d} : doc'[x] = doc[x],
           \A x \in Standing' \ {d} :
               d \in Standing' /\ doc'[x].manual = doc'[d].manual /\ doc'[d].manual # Blank
                   => MayShare(x, d)' \/ MayShare(d, x)'
    PROVE  TwinsExplained'
<1>1. SUFFICES ASSUME NEW x \in Standing', NEW y \in Standing', x # y,
                      doc'[x].manual = doc'[y].manual, doc'[x].manual # Blank
               PROVE  MayShare(x, y)' \/ MayShare(y, x)'
  BY DEF TwinsExplained, Twins
<1>2. CASE x = d
  BY <1>1, <1>2
<1>3. CASE y = d
  BY <1>1, <1>3
<1>4. CASE x # d /\ y # d
  <2>1. x \in Standing /\ y \in Standing /\ doc'[x] = doc[x] /\ doc'[y] = doc[y]
    BY <1>1, <1>4 DEF Standing
  <2>2. <<x, y>> \in Twins
    BY <1>1, <2>1 DEF Twins
  <2>3. MayShare(x, y) \/ MayShare(y, x)
    BY <2>2 DEF TwinsExplained
  <2> QED BY <2>1, <2>3 DEF MayShare
<1> QED BY <1>2, <1>3, <1>4

------------------------------------------------------------------------------
(* The actions.                                                               *)

Kept == NumbersInv' /\ (TwinsExplained => TwinsExplained')

LEMMA ManualIs == \A n \in ManualNumbers \cup {Blank} : n \in Nat
BY BillNumbersAssumption DEF Blank

LEMMA AskToPostStep ==
    ASSUME NumbersInv, NEW e \in Editors, AskToPost(e)
    PROVE  Kept
<1>1. PICK kind \in Kinds \ {"grn"}, n \in ManualNumbers \cup {Blank} :
         /\ n # Blank => FirstHits({n}, {}) = {}
         /\ page' = [page EXCEPT ![e] = Asked(kind, 0, n)]
  BY DEF AskToPost
<1> DEFINE r == Asked(kind, 0, n)
<1>2. n \in Nat /\ 0 \in Nat /\ kind \in Kinds
  BY ManualIs
<1>3. r \in Page /\ r.stage = "asked" /\ r.id = 0 /\ r.number = n
  BY <1>2 DEF Asked, Page
<1>4. n # Blank => Lonely(n, 0)
  BY <1>1, AskedToPost DEF NumbersInv
<1>5. UNCHANGED <<doc, counter, nextId>> /\ page' = [page EXCEPT ![e] = r]
  BY <1>1 DEF AskToPost
<1> HIDE DEF r
<1> QED BY <1>3, <1>4, <1>5, QuietKept DEF Kept

LEMMA DrawNumberStep ==
    ASSUME NumbersInv, NEW e \in Editors, DrawNumber(e)
    PROVE  Kept
<1> DEFINE p == page[e]
           k == NextNumber(page[e].kind)
           r == [p EXCEPT !.stage = "drawn", !.auto = k]
<1>1. p \in Page /\ Active(e)
  BY PageIs DEF DrawNumber, NumbersInv
<1>2. p.id = 0 /\ p.kind \in Numbered /\ Free
  BY <1>1, Tables DEF DrawNumber, Page
<1>3. k \in Nat /\ \A d \in Docs : doc[d].kind = p.kind => doc[d].auto < k
  BY <1>2, NextAhead DEF NumbersInv
<1>4. p.stage # "none" /\ (p.kind = "pending" => p.id = 0) /\ (~p.late /\ p.number # Blank => Lonely(p.number, p.id) \/ OwnAlready(p))
  BY <1>1 DEF NumbersInv, CheckHolds, Active
<1>5. UNCHANGED <<doc, counter, nextId>>
  BY DEF DrawNumber
<1>6. page' = [page EXCEPT ![e] = r]
  BY DEF DrawNumber
<1> HIDE DEF p, k
<1>7. /\ r \in Page /\ r.stage = "drawn" /\ r.auto = k
      /\ r.id = p.id /\ r.kind = p.kind /\ r.number = p.number /\ r.late = p.late
  BY <1>1, <1>3 DEF Page
<1> HIDE DEF r
<1>8. OwnAlready(p) => FALSE
  BY <1>2 DEF OwnAlready
<1> QED BY <1>2, <1>3, <1>4, <1>5, <1>6, <1>7, <1>8, QuietKept DEF Kept

LEMMA DrawForGrnStep ==
    ASSUME NumbersInv, NEW e \in Editors, DrawForGrn(e)
    PROVE  Kept
<1> DEFINE k == NextNumber("grn")
<1>1. PICK n \in ManualNumbers \cup {Blank} :
         /\ n # Blank => FirstHits({n}, {}) = {}
         /\ page' = [page EXCEPT ![e] = [Asked("grn", 0, n) EXCEPT !.stage = "drawn", !.auto = k]]
  BY DEF DrawForGrn
<1> DEFINE q == Asked("grn", 0, n)
           r == [q EXCEPT !.stage = "drawn", !.auto = k]
<1>2. n \in Nat /\ 0 \in Nat /\ "grn" \in Kinds /\ "grn" \in Numbered
  BY ManualIs, Tables
<1>3. q \in Page /\ q.stage = "asked" /\ q.id = 0 /\ q.number = n /\ q.kind = "grn"
  BY <1>2 DEF Asked, Page
<1>4. n # Blank => Lonely(n, 0)
  BY <1>1, AskedToPost DEF NumbersInv
<1>5. UNCHANGED <<doc, counter, nextId>> /\ page' = [page EXCEPT ![e] = r] /\ Free
  BY <1>1 DEF DrawForGrn
<1>6. k \in Nat /\ \A d \in Docs : doc[d].kind = "grn" => doc[d].auto < k
  BY <1>2, NextAhead DEF NumbersInv
<1> HIDE DEF q, k
<1>7. r \in Page /\ r.stage = "drawn" /\ r.auto = k /\ r.id = 0 /\ r.kind = "grn" /\ r.number = n
  BY <1>3, <1>6 DEF Page
<1> HIDE DEF r
<1> QED BY <1>2, <1>4, <1>5, <1>6, <1>7, QuietKept DEF Kept

LEMMA AskToEditStep ==
    ASSUME NumbersInv, NEW e \in Editors, AskToEdit(e)
    PROVE  Kept
<1>1. PICK d \in Standing, n \in ManualNumbers \cup {Blank} :
         /\ LET hits == FirstHits({n}, IF doc[d].kind = "sale" THEN {d} ELSE {})
            IN  n = Blank \/ hits = {} \/ d \in hits
         /\ page' = [page EXCEPT ![e] = Asked(doc[d].kind, d, n)] /\ doc[d].kind # "pending"
  BY DEF AskToEdit
<1> DEFINE r == Asked(doc[d].kind, d, n)
<1>2. n \in Nat /\ d \in Nat \ {0} /\ d \in Docs /\ doc[d].kind \in Kinds
  BY ManualIs DEF NumbersInv, DocsTyped, Standing, Form
<1>3. r \in Page /\ r.stage = "asked" /\ r.id = d /\ r.number = n /\ r.kind = doc[d].kind
  BY <1>2 DEF Asked, Page
<1>4. n # Blank => Lonely(n, d) \/ (doc[d].kind # "sale" /\ doc[d].manual = n)
  BY <1>1, AskedToEdit DEF NumbersInv
<1>5. UNCHANGED <<doc, counter, nextId>> /\ page' = [page EXCEPT ![e] = r]
  BY <1>1 DEF AskToEdit
<1> HIDE DEF r
<1>6. n # Blank => Lonely(r.number, r.id) \/ OwnAlready(r)
  BY <1>2, <1>3, <1>4 DEF OwnAlready
<1> QED BY <1>1, <1>3, <1>5, <1>6, QuietKept DEF Kept

LEMMA LeaveStep ==
    ASSUME NumbersInv, NEW e \in Editors, Leave(e)
    PROVE  Kept
<1>1. UNCHANGED <<doc, counter, nextId>> /\ page' = [page EXCEPT ![e] = NoPage]
  BY DEF Leave
<1>2. NoPage \in Page \cup {NoPage} /\ NoPage.stage = "none"
  BY DEF NoPage
<1> QED BY <1>1, <1>2, QuietKept DEF Kept

\* MayShare, of two rows.
Shares(a, b) ==
    \/ a.kind = "supplier" \/ a.how \in {"restored", "unchecked", "late", "typed"}
    \/ a.how = "flushed" /\ b.kind # "supplier" /\ Rank(b.kind) >= Rank(a.kind)

\* A write of a document that stays: its row is typed, drawn and aged as before,
\* and its twins are explained.
LEMMA EditStep ==
    ASSUME NumbersInv, NEW d \in Docs, NEW n, NEW row \in Form,
           doc' = [doc EXCEPT ![d] = row], ~row.void => row.manual = n,
           Overtakes(d, n),
           UNCHANGED <<counter, nextId>>,
           row.kind = doc[d].kind, row.auto = doc[d].auto, row.old = doc[d].old,
           TwinsExplained =>
               \A x \in Standing \ {d} :
                   ~row.void /\ doc[x].manual = n /\ n # Blank => Shares(doc[x], row) \/ Shares(row, doc[x])
    PROVE  Kept
<1>1. DocsTyped /\ PagesTyped
  BY DEF NumbersInv
<1>2. DocTouched(d, n) /\ Docs' = Docs /\ doc'[d] = row
  BY <1>1, EditTouches
<1>3. \A x \in Docs' \ {d} : doc'[x] = doc[x]
  BY <1>2 DEF DocTouched
<1>4. DocsTyped'
  <2>1. doc' \in [Docs' -> Form]
    BY <1>1, <1>2 DEF DocsTyped
  <2> QED BY <1>1, <1>2, <2>1 DEF DocsTyped
<1>5. PagesTyped'
  BY <1>1, <1>2 DEF PagesTyped, DocTouched
<1>6. CheckHolds'
  BY <1>2, CheckKept
<1>7. \A x \in Docs' : /\ doc'[x].kind = doc[x].kind /\ doc'[x].auto = doc[x].auto
                       /\ doc'[x].old = doc[x].old
  BY <1>2, <1>3
<1>8. OneDraws' /\ DrawnAhead' /\ AutoGivenOnce'
  BY <1>2, <1>7, DrawsKept
<1>9. ASSUME TwinsExplained PROVE TwinsExplained'
  <2>1. ASSUME NEW x \in Standing' \ {d}, d \in Standing', doc'[x].manual = doc'[d].manual, doc'[d].manual # Blank
        PROVE  MayShare(x, d)' \/ MayShare(d, x)'
    <3>1. x \in Standing \ {d} /\ doc'[x] = doc[x]
      BY <1>2, <1>3, <2>1 DEF Standing
    <3>2. ~row.void /\ doc'[d].manual = n
      BY <1>2, <2>1 DEF Standing
    <3>3. Shares(doc'[x], doc'[d]) \/ Shares(doc'[d], doc'[x])
      BY <1>2, <1>9, <2>1, <3>1, <3>2
    <3> QED BY <3>3 DEF MayShare, Shares
  <2> QED BY <1>2, <1>3, <1>9, <2>1, TwinsKept
<1> QED BY <1>4, <1>5, <1>6, <1>8, <1>9 DEF Kept, NumbersInv

\* An edit that gives d the number n, by a way that explains its twins.
Excuses(d, x, way) ==
    \/ doc[x].kind = "supplier" \/ doc[d].kind = "supplier"
    \/ way \in {"restored", "unchecked", "late", "typed"}
    \/ way = "flushed" /\ doc[x].kind # "supplier" /\ Rank(doc[x].kind) >= Rank(doc[d].kind)

LEMMA RenumberStep ==
    ASSUME NumbersInv, NEW d \in Standing, NEW n \in Nat, NEW way \in Ways,
           doc' = Renumbered(d, n, way), UNCHANGED <<counter, nextId>>,
           Overtakes(d, n),
           n # Blank /\ doc[d].manual # n =>
               \A x \in Standing \ {d} : doc[x].manual = n => Excuses(d, x, way)
    PROVE  Kept
<1> DEFINE row == RenumberedRow(d, n, way)
<1>1. d \in Docs /\ DocsTyped /\ PagesTyped
  BY DEF NumbersInv, Standing
<1>2. /\ doc' = [doc EXCEPT ![d] = row] /\ row \in Form
      /\ row.kind = doc[d].kind /\ row.auto = doc[d].auto /\ row.old = doc[d].old
      /\ row.manual = n /\ row.how = IF doc[d].manual = n THEN doc[d].how ELSE way
  BY <1>1, RenumberedIs
<1> HIDE DEF row
<1>4. ASSUME TwinsExplained, NEW x \in Standing \ {d}, doc[x].manual = n, n # Blank
      PROVE  Shares(doc[x], row) \/ Shares(row, doc[x])
  <2>1. CASE doc[d].manual = n
    <3>1. <<x, d>> \in Twins
      BY <1>4, <2>1 DEF Twins
    <3>2. MayShare(x, d) \/ MayShare(d, x)
      BY <1>4, <3>1 DEF TwinsExplained
    <3>3. row.kind = doc[d].kind /\ row.how = doc[d].how
      BY <1>2, <2>1
    <3> QED BY <3>2, <3>3 DEF MayShare, Shares
  <2>2. CASE doc[d].manual # n
    <3>1. Excuses(d, x, way)
      BY <1>4, <2>2
    <3>2. row.kind = doc[d].kind /\ row.how = way
      BY <1>2, <2>2
    <3> QED BY <3>1, <3>2 DEF Shares, Excuses
  <2> QED BY <2>1, <2>2
<1>5. TwinsExplained =>
         \A x \in Standing \ {d} :
             ~row.void /\ doc[x].manual = n /\ n # Blank => Shares(doc[x], row) \/ Shares(row, doc[x])
  BY <1>4
<1> QED BY <1>1, <1>2, <1>5, EditStep

LEMMA SaveEditStep ==
    ASSUME NumbersInv, NEW e \in Editors, SaveEdit(e)
    PROVE  Kept
<1> DEFINE r == page[e]
           way == IF r.late THEN "late" ELSE "checked"
<1>1. r \in Page /\ Active(e)
  BY PageIs DEF SaveEdit, NumbersInv
<1>2. /\ r.id \in Standing /\ (r.stale => r.kind = "sale")
      /\ doc' = Renumbered(r.id, r.number, way) /\ UNCHANGED <<counter, nextId>>
      /\ page' = [Overtaken(r.id, r.number) EXCEPT ![e] = NoPage]
  BY DEF SaveEdit
<1>3. ASSUME r.number # Blank, doc[r.id].manual # r.number,
             NEW x \in Standing \ {r.id}, doc[x].manual = r.number
      PROVE  Excuses(r.id, x, way)
  <2>1. CASE r.late
    BY <2>1 DEF Excuses
  <2>2. CASE ~r.late
    <3>1. Lonely(r.number, r.id) \/ OwnAlready(r)
      BY <1>1, <1>3, <2>2 DEF NumbersInv, CheckHolds
    <3>2. ~OwnAlready(r)
      BY <1>2, <1>3 DEF OwnAlready
    <3> QED BY <1>3, <3>1, <3>2 DEF Lonely, Excuses
  <2> QED BY <2>1, <2>2
<1>4. r.number \in Nat /\ way \in Ways
  BY <1>1 DEF Page, Ways
<1> HIDE DEF r, way
<1> QED BY <1>2, <1>3, <1>4, RenumberStep DEF Overtakes

LEMMA FlushStep ==
    ASSUME NumbersInv, NEW d \in Docs, FlushThenCheck(d)
    PROVE  Kept
<1>1. PICK n \in ManualNumbers \cup {Blank}, prefixed \in BOOLEAN :
         LET flushed == Renumbered(d, n, IF prefixed THEN "typed" ELSE "flushed")
             hits == FirstHitsIn(flushed, IF prefixed THEN {} ELSE {n}, {})
         IN  /\ d \in Standing /\ doc[d].kind \notin {"return", "supplier"}
             /\ prefixed => doc[d].kind = "sale" /\ n # Blank
             /\ n = Blank \/ hits = {} \/ d \in hits
             /\ doc' = flushed /\ page' = Overtaken(d, n) /\ UNCHANGED <<counter, nextId>>
  BY DEF FlushThenCheck
<1> DEFINE way == IF prefixed THEN "typed" ELSE "flushed"
<1>2. n \in Nat /\ way \in Ways /\ d \in Standing
  BY <1>1, ManualIs DEF Ways
<1>3. doc' = Renumbered(d, n, way) /\ page' = Overtaken(d, n) /\ UNCHANGED <<counter, nextId>>
  BY <1>1
<1>4. ASSUME n # Blank, NEW x \in Standing \ {d}, doc[x].manual = n
      PROVE  Excuses(d, x, way)
  <2>1. CASE prefixed
    BY <2>1 DEF Excuses
  <2>2. CASE ~prefixed /\ doc[x].kind = "supplier"
    BY <2>2 DEF Excuses
  <2>3. CASE ~prefixed /\ doc[x].kind # "supplier"
    <3> DEFINE f == Renumbered(d, n, way)
               row == RenumberedRow(d, n, way)
    <3>1. /\ f = [doc EXCEPT ![d] = row] /\ row.kind = doc[d].kind /\ row.void = doc[d].void
          /\ row.manual = n
      BY <1>2, RenumberedIs DEF NumbersInv
    <3>2. FirstHitsIn(f, {n}, {}) = {} \/ d \in FirstHitsIn(f, {n}, {})
      BY <1>1, <1>4, <2>3
    <3> HIDE DEF f, row
    <3>3. /\ DOMAIN f = Docs /\ f[d] = row /\ f[x] = doc[x]
          /\ doc[x].kind \in Kinds \ {"supplier"} /\ doc[d].kind \in Kinds \ {"supplier"}
      BY <1>1, <1>4, <2>3, <3>1 DEF NumbersInv, DocsTyped, Docs, Standing, Form
    <3>4. Carrier(f, {n}, {}, x)
      BY <1>4, <3>3 DEF Carrier, Standing
    <3>5. d \in FirstHitsIn(f, {n}, {}) /\ Rank(f[d].kind) <= Rank(f[x].kind)
      BY <3>2, <3>3, <3>4, CarriersHit
    <3>6. Rank(doc[d].kind) <= Rank(doc[x].kind)
      BY <3>1, <3>3, <3>5
    <3>7. Rank(doc[d].kind) \in 1..6 /\ Rank(doc[x].kind) \in 1..6
      BY <3>3, RankIs
    <3>8. Rank(doc[x].kind) >= Rank(doc[d].kind)
      BY <3>6, <3>7
    <3> QED BY <2>3, <3>8 DEF Excuses
  <2> QED BY <2>1, <2>2, <2>3
<1> HIDE DEF way
<1> QED BY <1>2, <1>3, <1>4, RenumberStep DEF Overtakes

LEMMA UncheckedStep ==
    ASSUME NumbersInv, NEW d \in Docs, EditUnchecked(d)
    PROVE  Kept
<1>1. PICK n \in ManualNumbers \cup {Blank} :
         doc' = Renumbered(d, n, "unchecked") /\ page' = Overtaken(d, n)
  BY DEF EditUnchecked
<1>2. d \in Standing /\ UNCHANGED <<counter, nextId>>
  BY DEF EditUnchecked
<1>4. n \in Nat
  BY ManualIs
<1>5. "unchecked" \in Ways
  BY DEF Ways
<1>3. \A x \in Standing \ {d} : Excuses(d, x, "unchecked")
  BY DEF Excuses
<1> QED BY <1>1, <1>2, <1>3, <1>4, <1>5, RenumberStep DEF Overtakes

LEMMA TakeAwayStep ==
    ASSUME NumbersInv, NEW d \in Docs, TakeAway(d)
    PROVE  Kept
<1>1. DocsTyped /\ PagesTyped /\ page' = Overtaken(d, Blank) /\ UNCHANGED <<counter, nextId>>
  BY DEF TakeAway, NumbersInv
<1>2. CASE doc[d].kind \in Voided
  <2> DEFINE r == doc[d]
             row == [r EXCEPT !.void = TRUE]
  <2>1. doc' = [doc EXCEPT ![d] = row] /\ r \in Form
    BY <1>1, <1>2 DEF TakeAway, DocsTyped
  <2> HIDE DEF r
  <2>2. row \in Form /\ row.void = TRUE /\ row.kind = r.kind /\ row.auto = r.auto /\ row.old = r.old
    BY <2>1 DEF Form
  <2> HIDE DEF row
  <2> QED BY <1>1, <2>1, <2>2, EditStep DEF r, Overtakes
<1>3. CASE doc[d].kind \notin Voided
  <2>1. doc' = [x \in Docs \ {d} |-> doc[x]]
    BY <1>3 DEF TakeAway
  <2>2. Docs' = Docs \ {d} /\ \A x \in Docs' : doc'[x] = doc[x]
    BY <2>1 DEF Docs
  <2>3. DocTouched(d, Blank)
    <3>1. /\ page' \in [Editors -> Page \cup {NoPage}]
          /\ \A f \in Editors : page'[f] = NoPage \/ (Active(f) /\ page'[f] = After(page[f], d, Blank))
      BY <1>1, OvertakenIs
    <3> QED BY <2>2, <3>1 DEF DocTouched, Standing
  <2>4. DocsTyped'
    <3>1. doc' \in [Docs' -> Form] /\ IsFiniteSet(Docs')
      BY <1>1, <2>1, <2>2, FS_Subset DEF DocsTyped
    <3> QED BY <1>1, <2>2, <3>1 DEF DocsTyped
  <2>5. PagesTyped'
    BY <1>1, <2>3 DEF PagesTyped, DocTouched
  <2>6. CheckHolds'
    BY <2>3, CheckKept
  <2>7. OneDraws' /\ DrawnAhead' /\ AutoGivenOnce'
    <3>1. Docs' \subseteq Docs
      BY <2>2
    <3> QED BY <2>2, <2>3, <3>1, DrawsKept
  <2>8. ASSUME TwinsExplained PROVE TwinsExplained'
    <3>1. d \notin Standing'
      BY <2>2 DEF Standing
    <3> QED BY <2>2, <2>8, <3>1, TwinsKept
  <2> QED BY <2>4, <2>5, <2>6, <2>7, <2>8 DEF Kept, NumbersInv
<1> QED BY <1>2, <1>3

LEMMA GiveBackStep ==
    ASSUME NumbersInv, NEW d \in Docs, GiveBack(d)
    PROVE  Kept
<1> DEFINE r == doc[d]
           row == [r EXCEPT !.void = FALSE, !.how = "restored"]
<1>1. DocsTyped /\ PagesTyped /\ page' = Overtaken(d, r.manual) /\ UNCHANGED <<counter, nextId>>
  BY DEF GiveBack, NumbersInv
<1>2. doc' = [doc EXCEPT ![d] = row] /\ r \in Form
  BY <1>1 DEF GiveBack, DocsTyped, Form
<1> HIDE DEF r
<1>3. /\ row \in Form /\ row.kind = r.kind /\ row.auto = r.auto /\ row.old = r.old
      /\ row.manual = r.manual /\ row.how = "restored"
  BY <1>2 DEF Form, Ways
<1> HIDE DEF row
<1>4. \A x : Shares(row, doc[x])
  BY <1>3 DEF Shares
<1> QED BY <1>1, <1>2, <1>3, <1>4, EditStep DEF r, Overtakes

LEMMA SavePostStep ==
    ASSUME NumbersInv, NEW e \in Editors, SavePost(e)
    PROVE  Kept
<1> DEFINE r == page[e]
           n == r.number
           row == [kind |-> r.kind, auto |-> r.auto, manual |-> n, void |-> FALSE,
                   old |-> FALSE, how |-> IF r.late THEN "late" ELSE "checked"]
<1>1. r \in Page /\ Active(e) /\ DocsTyped /\ PagesTyped
  BY PageIs DEF SavePost, NumbersInv
<1>2. /\ Drawn(e) \/ (r.kind = "pending" /\ Free)
      /\ doc' = [d \in Docs \cup {nextId} |-> IF d = nextId THEN row ELSE doc[d]]
      /\ counter' = [k \in Numbered |-> IF k = r.kind THEN r.auto + 1 ELSE counter[k]]
      /\ page' = [Overtaken(nextId, n) EXCEPT ![e] = NoPage]
      /\ nextId' = nextId + 1
  BY DEF SavePost
<1>3. r.id = 0
  BY <1>1, <1>2 DEF NumbersInv, DrawnAhead, CheckHolds
<1>4. row \in Form
  <2> DEFINE h == IF r.late THEN "late" ELSE "checked"
  <2>1. h \in Ways
    BY DEF Ways
  <2>2. row = [kind |-> r.kind, auto |-> r.auto, manual |-> n, void |-> FALSE, old |-> FALSE, how |-> h]
    OBVIOUS
  <2>3. r.kind \in Kinds /\ r.auto \in Nat /\ n \in Nat
    BY <1>1 DEF Page
  <2> HIDE DEF h, row, r, n
  <2> QED BY <2>1, <2>2, <2>3 DEF Form
<1>5. row.kind = r.kind /\ row.auto = r.auto /\ row.manual = n /\ row.void = FALSE /\ row.how = IF r.late THEN "late" ELSE "checked"
  OBVIOUS
<1>6. n # Blank /\ ~r.late => \A x \in Standing : doc[x].manual = n => doc[x].kind = "supplier"
  <2>1. 0 \notin Standing
    BY <1>1 DEF DocsTyped, Standing
  <2> QED BY <1>1, <1>3, <2>1 DEF NumbersInv, CheckHolds, Lonely, OwnAlready
<1>7. r.auto \in Nat /\ r.kind \in Kinds /\ nextId \notin Docs /\ nextId \in Nat \ {0}
  BY <1>1 DEF Page, DocsTyped
<1>8. \A f \in Editors : page'[f] = NoPage \/ (Active(f) /\ f # e /\ page'[f] = After(page[f], nextId, n))
  <2> DEFINE o == Overtaken(nextId, n)
  <2>1. o \in [Editors -> Page \cup {NoPage}]
    BY <1>1, OvertakenIs
  <2>2. \A f \in Editors : o[f] = NoPage \/ (Active(f) /\ o[f] = After(page[f], nextId, n))
    BY <1>1, OvertakenIs
  <2>3. page' = [o EXCEPT ![e] = NoPage]
    BY <1>2
  <2> HIDE DEF o, n
  <2> QED BY <2>1, <2>2, <2>3
<1>9. page' \in [Editors -> Page \cup {NoPage}]
  <2> DEFINE o == Overtaken(nextId, n)
  <2>1. o \in [Editors -> Page \cup {NoPage}]
    BY <1>1, OvertakenIs
  <2>2. page' = [o EXCEPT ![e] = NoPage]
    BY <1>2
  <2> HIDE DEF o
  <2> QED BY <2>1, <2>2
<1>10. counter' \in [Numbered -> Nat]
  BY <1>1, <1>2, <1>7 DEF PagesTyped
<1> HIDE DEF row
<1>11. /\ Docs' = Docs \cup {nextId} /\ doc'[nextId] = row /\ \A x \in Docs : doc'[x] = doc[x]
       /\ doc' \in [Docs' -> Form]
  BY <1>1, <1>2, <1>4, <1>7 DEF Docs, DocsTyped
<1>12. DocsTyped'
  <2>1. IsFiniteSet(Docs')
    BY <1>1, <1>11, FS_AddElement DEF DocsTyped
  <2> QED BY <1>1, <1>2, <1>11, <2>1 DEF DocsTyped
<1>13. PagesTyped'
  BY <1>9, <1>10 DEF PagesTyped
<1>14. CheckHolds'
  <2>1. DocTouched(nextId, n)
    BY <1>5, <1>7, <1>8, <1>9, <1>11 DEF DocTouched
  <2> QED BY <2>1, CheckKept
<1>15. \A f \in Editors : ~Drawn(f)'
  <2>1. ASSUME NEW f \in Editors, Drawn(f)' PROVE FALSE
    <3>1. Active(f) /\ f # e /\ page'[f] = After(page[f], nextId, n) /\ page[f] \in Page
      BY <1>1, <1>8, <2>1, PageIs DEF Drawn, NoPage
    <3> DEFINE q == page[f]
    <3>2. q \in Page /\ page'[f] = After(q, nextId, n)
      BY <3>1
    <3> HIDE DEF q, n
    <3>3. page'[f].stage = q.stage
      BY <3>2 DEF After, Page
    <3>4. Drawn(f)
      BY <2>1, <3>3 DEF Drawn, q
    <3> QED BY <1>2, <3>1, <3>4 DEF NumbersInv, OneDraws, Free
  <2> QED BY <2>1
<1>16. AutoGivenOnce'
  <2>1. ASSUME NEW x \in Docs, doc[x].kind = r.kind, r.kind \in Numbered PROVE doc[x].auto # r.auto
    <3>1. Drawn(e)
      BY <1>2, <2>1, Tables
    <3>2. doc[x].auto < r.auto /\ doc[x].auto \in Nat
      BY <1>1, <2>1, <3>1 DEF NumbersInv, DrawnAhead, DocsTyped, Form
    <3> QED BY <1>7, <3>2
  <2>2. ASSUME NEW x \in Docs', NEW y \in Docs', x # y, doc'[x].kind = doc'[y].kind,
               doc'[x].kind \in Numbered, doc'[x].auto = doc'[y].auto
        PROVE  doc'[x].old /\ doc'[y].old
    <3>1. CASE x = nextId
      BY <1>5, <1>7, <1>11, <2>1, <2>2, <3>1
    <3>2. CASE y = nextId
      BY <1>5, <1>7, <1>11, <2>1, <2>2, <3>2
    <3>3. CASE x # nextId /\ y # nextId
      BY <1>11, <2>2, <3>3 DEF NumbersInv, AutoGivenOnce
    <3> QED BY <3>1, <3>2, <3>3
  <2> QED BY <2>2 DEF AutoGivenOnce
<1>17. ASSUME TwinsExplained PROVE TwinsExplained'
  <2>1. PICK i : i = nextId
    OBVIOUS
  <2>2. /\ i \notin Docs /\ Docs' = Docs \cup {i} /\ doc'[i] = row
        /\ \A x \in Docs : doc'[x] = doc[x]
    BY <1>7, <1>11, <2>1
  <2>3. ASSUME NEW x \in Standing' \ {i},
               i \in Standing' /\ doc'[x].manual = doc'[i].manual /\ doc'[i].manual # Blank
        PROVE  MayShare(x, i)' \/ MayShare(i, x)'
    <3>1. x \in Standing /\ doc'[x] = doc[x]
      BY <2>2, <2>3 DEF Standing
    <3>2. CASE r.late
      <4>1. row.how = "late"
        BY <1>5, <3>2
      <4> QED BY <2>2, <4>1 DEF MayShare
    <3>3. CASE ~r.late
      <4>1. doc[x].kind = "supplier"
        BY <1>5, <1>6, <2>2, <2>3, <3>1, <3>3
      <4> QED BY <3>1, <4>1 DEF MayShare
    <3> QED BY <3>2, <3>3
  <2>4. Docs' \ {i} = Docs \ {i} /\ \A x \in Docs' \ {i} : doc'[x] = doc[x]
    BY <2>2
  <2> QED BY <1>17, <2>3, <2>4, TwinsKept
<1>18. OneDraws' /\ DrawnAhead'
  BY <1>15 DEF OneDraws, DrawnAhead
<1> QED BY <1>12, <1>13, <1>14, <1>16, <1>17, <1>18 DEF Kept, NumbersInv

------------------------------------------------------------------------------
(* Every behaviour.                                                           *)

LEMMA NumbersStep ==
    ASSUME NumbersInv, [NumbersNext]_numberVars
    PROVE  Kept
<1>1. ASSUME NEW e \in Editors,
             AskToPost(e) \/ DrawNumber(e) \/ DrawForGrn(e) \/ SavePost(e)
               \/ AskToEdit(e) \/ SaveEdit(e) \/ Leave(e)
      PROVE  Kept
  BY <1>1, AskToPostStep, DrawNumberStep, DrawForGrnStep, SavePostStep, AskToEditStep, SaveEditStep, LeaveStep
<1>2. ASSUME NEW d \in Docs, FlushThenCheck(d) \/ EditUnchecked(d) \/ TakeAway(d) \/ GiveBack(d)
      PROVE  Kept
  BY <1>2, FlushStep, UncheckedStep, TakeAwayStep, GiveBackStep
<1>3. CASE UNCHANGED numberVars
  BY <1>3 DEF numberVars, Kept, NumbersInv, DocsTyped, PagesTyped, OneDraws, DrawnAhead, CheckHolds,
              AutoGivenOnce, TwinsExplained, Twins, MayShare, Standing, Docs, Drawn, Active, Lonely, OwnAlready
<1> QED BY <1>1, <1>2, <1>3 DEF NumbersNext

LEMMA NumbersStart == NumbersInit => NumbersInv
<1> SUFFICES ASSUME NumbersInit PROVE NumbersInv
  OBVIOUS
<1>1. /\ IsFiniteSet(Docs) /\ Docs \subseteq Nat \ {0} /\ doc \in [Docs -> OldForm]
  BY OldDocumentsAssumption DEF NumbersInit, Docs
<1>2. doc \in [Docs -> Form]
  BY <1>1 DEF OldForm, Form
<1>3. nextId \in Nat \ {0} /\ \A d \in Docs : d < nextId
  <2> DEFINE S == Docs \cup {0}
             f == [x \in S |-> x]
  <2>1. S \in SUBSET Nat /\ IsFiniteSet(S) /\ S # {}
    BY <1>1, FS_AddElement
  <2>2. f \in [S -> Nat] /\ \A x \in S : f[x] = x
    BY <2>1
  <2> HIDE DEF S, f
  <2>3. \E m \in S : \A x \in S : x <= m
    <3>1. PICK m \in S : \A x \in S : f[x] <= f[m]
      BY <2>1, <2>2, Greatest
    <3> QED BY <2>2, <3>1
  <2>4. Max(S) \in S /\ \A x \in S : x <= Max(S)
    BY <2>1, <2>3, MaxIs
  <2>5. nextId = Max(S) + 1
    BY DEF NumbersInit, S
  <2>6. \A d \in Docs : d \in S
    BY DEF S
  <2> DEFINE top == Max(S)
  <2>7. top \in Nat /\ nextId = top + 1 /\ \A d \in Docs : d <= top /\ d \in Nat
    BY <1>1, <2>1, <2>4, <2>5, <2>6
  <2> HIDE DEF top
  <2> QED BY <2>7
<1>4. DocsTyped
  BY <1>1, <1>2, <1>3 DEF DocsTyped
<1>5. PagesTyped
  BY DEF NumbersInit, PagesTyped
<1>6. \A e \in Editors : page[e] = NoPage /\ ~Drawn(e) /\ ~Active(e)
  BY DEF NumbersInit, NoPage, Drawn, Active
<1>7. AutoGivenOnce
  BY <1>1 DEF AutoGivenOnce, OldForm
<1> QED BY <1>4, <1>5, <1>6, <1>7 DEF NumbersInv, OneDraws, DrawnAhead, CheckHolds

LEMMA SearchSees ==
    ASSUME DocsTyped
    PROVE  SearchHidesTwinsOnly
<1>1. SUFFICES ASSUME NEW d \in Standing, doc[d].kind \in ToSet(LookedUp), doc[d].manual # Blank,
                      d \notin Offered(doc[d].manual)
               PROVE  \E e \in Offered(doc[d].manual) :
                         (doc[e].kind = doc[d].kind /\ e > d) \/ doc[d].kind = "pending"
  BY DEF SearchHidesTwinsOnly
<1> DEFINE n == doc[d].manual
           S == Carriers(doc, doc[d].kind, {n}, {})
           primary == {x \in Found(n) : doc[x].kind # "pending"}
<1>2. d \in S /\ S \subseteq Docs
  BY <1>1 DEF Carriers, Standing, Docs
<1>3. S \in SUBSET Nat /\ IsFiniteSet(S)
  BY <1>2, FS_Subset DEF DocsTyped
<1>4. Max(S) \in S /\ \A x \in S : x <= Max(S)
  <2> DEFINE f == [x \in S |-> x]
  <2>1. f \in [S -> Nat] /\ \A x \in S : f[x] = x
    BY <1>3
  <2> HIDE DEF S, f
  <2>2. \E m \in S : \A x \in S : x <= m
    <3>1. PICK m \in S : \A x \in S : f[x] <= f[m]
      BY <1>2, <1>3, <2>1, Greatest
    <3> QED BY <2>1, <3>1
  <2> QED BY <1>3, <2>2, MaxIs
<1> DEFINE m == Max(S)
<1>5. m \in Found(n)
  <2>1. m \in Newest(doc[d].kind, n)
    BY <1>2 DEF Newest
  <2> HIDE DEF m
  <2> QED BY <1>1, <2>1 DEF Found
<1>6. doc[m].kind = doc[d].kind
  BY <1>4 DEF Carriers
<1>7. Offered(n) = IF primary # {} THEN primary ELSE Found(n)
  BY DEF Offered
<1> HIDE DEF m, S, primary
<1>8. CASE primary # {} /\ doc[d].kind = "pending"
  BY <1>7, <1>8
<1>9. CASE primary = {} \/ doc[d].kind # "pending"
  <2>1. m \in Offered(n)
    BY <1>5, <1>6, <1>7, <1>9 DEF primary
  <2>2. m # d
    BY <1>1, <2>1
  <2>3. d <= m /\ m \in Nat /\ d \in Nat
    BY <1>2, <1>3, <1>4 DEF m
  <2>4. m > d
    BY <2>2, <2>3
  <2> QED BY <1>6, <2>1, <2>4
<1> QED BY <1>8, <1>9

\* An automatic number is given once, however many pages draw numbers, and a
\* search by number hides an active document only behind a newer one of its table
\* or, for a bill, behind a document (billing.py:196-294, 684-829).
THEOREM NumbersGivenOnce == NumbersSpec => [](AutoGivenOnce /\ SearchHidesTwinsOnly)
<1>1. NumbersInv /\ [NumbersNext]_numberVars => NumbersInv'
  BY NumbersStep DEF Kept
<1>2. NumbersInv => AutoGivenOnce /\ SearchHidesTwinsOnly
  BY SearchSees DEF NumbersInv
<1> QED BY <1>1, <1>2, NumbersStart, PTL DEF NumbersSpec

\* From a database whose twins are explained, numbers tell documents apart: two
\* active documents share a manual number only in the ways that the pages leave
\* open (billing.py:390-552).
THEOREM NumbersTellApart == NumbersSpec /\ TwinsExplained => []NumbersIdentify
<1>1. NumbersInv /\ TwinsExplained /\ [NumbersNext]_numberVars => NumbersInv' /\ TwinsExplained'
  BY NumbersStep DEF Kept
<1>2. NumbersInv /\ TwinsExplained => NumbersIdentify
  BY SearchSees DEF NumbersInv, NumbersIdentify
<1> QED BY <1>1, <1>2, NumbersStart, PTL DEF NumbersSpec

-----------------------------------------------------------------------------
(* Import jobs.                                                            *)

Uploads == {"none", "uploaded", "importing", "imported", "failed", "deleted"}
JobStates == {"none", "processing", "completed", "failed", "cancelled"}
WorkerAt == {"idle", "starting", "started", "engine", "finished", "broken", "written", "checked"}

Workers == [pc : WorkerAt, had : BOOLEAN, row : 1..(LastRow + 1),
            seen : Uploads \cup {"expired"}, bad : BOOLEAN, skips : BOOLEAN,
            pend : SUBSET SheetRows]
JobRows == [st : JobStates, rejects : BOOLEAN, skips : BOOLEAN]

WorkersTyped == worker \in [Importers -> Workers]
RowsTyped ==
    /\ file \in BOOLEAN /\ upload \in Uploads
    /\ job \in JobRows /\ skipped \in SUBSET SheetRows
    /\ landed \in SUBSET SheetRows /\ past \in SUBSET Events
JobsTypeOK == WorkersTyped /\ RowsTyped

Crossed == past \cap {"overstart", "cancelLive"} # {}

\* While no start or cancellation crossed another, an engine at work is the only one,
\* and its job and upload say so; what it has loaded of the upload says so too.
EngineKnown ==
    /\ \A i, j \in LiveImports : i = j
    /\ LiveImports # {} => job.st = "processing" /\ upload = "importing"
    /\ \A i \in LiveImports : worker[i].pc # "started" => worker[i].seen \in {"importing", "expired"}
    /\ upload = "importing" => job.st = "processing"

\* The rows before the k-th are accounted for by those that are in and those skipped;
\* by those that are in alone, if no skip was counted.
Whole(k, in, gone, skips) ==
    /\ 1..(k - 1) \subseteq in \cup gone \cup BlankRows
    /\ ~skips => 1..(k - 1) \subseteq in \cup BlankRows

\* All rows are accounted for.
AllIn == landed \cup skipped \cup BlankRows = SheetRows

\* An engine that has reported no error has committed, or is about to commit, every row
\* it has passed and not skipped.
RowsLanded ==
    \A i \in Importers :
        /\ worker[i].pc \in {"starting", "started"} => worker[i].row = 1
        /\ worker[i].pc = "engine" /\ ~worker[i].bad =>
              Whole(worker[i].row, landed \cup worker[i].pend, skipped, worker[i].skips)
        /\ worker[i].pc = "finished" /\ ~worker[i].bad /\ "blind" \notin past =>
              Whole(LastRow + 1, landed, skipped, worker[i].skips)

\* A request works on an upload that exists, and so does a job.
UploadThere ==
    /\ \A i \in Importers : worker[i].pc # "idle" => upload # "none"
    /\ job.st # "none" => upload # "none"

CompletedIsWhole ==
    job.st = "completed" /\ ~job.rejects /\ "blind" \notin past =>
        Whole(LastRow + 1, landed, skipped, job.skips)
GoneIsWhole ==
    ~file /\ upload # "none" /\ past \cap {"deleted", "purged"} = {} => AllIn

RowsSaid ==
    /\ RowsLanded /\ UploadThere /\ CompletedIsWhole /\ GoneIsWhole
    /\ "blind" \in past /\ past \cap {"deleted", "purged"} = {} => AllIn

JobsInv == JobsTypeOK /\ RowsSaid /\ (~Crossed => EngineKnown)

\* With all rows behind it, that is every row.
LEMMA WholeIs ==
    ASSUME JobsTypeOK, NEW skips \in BOOLEAN
    PROVE  Whole(LastRow + 1, landed, skipped, skips) <=>
               AllIn /\ (~skips => landed \cup BlankRows = SheetRows)
<1>1. (LastRow + 1) - 1 = LastRow /\ landed \subseteq SheetRows /\ skipped \subseteq SheetRows
  BY LastRowAssumption DEF JobsTypeOK, RowsTyped
<1>2. BlankRows \subseteq SheetRows
  BY DEF BlankRows
<1> QED BY <1>1, <1>2 DEF Whole, AllIn, SheetRows

\* Rows that are in stay in.
LEMMA WholeStays ==
    ASSUME NEW k, NEW in, NEW gone, NEW skips, Whole(k, in, gone, skips),
           NEW in2, NEW gone2, in \subseteq in2, gone \subseteq gone2
    PROVE  Whole(k, in2, gone2, skips)
  BY DEF Whole

LEMMA JobsInitInv == JobsInit => JobsInv
<1> SUFFICES ASSUME JobsInit PROVE JobsInv
  OBVIOUS
<1> USE DEF JobsInit, NoJob, IdleWorker
<1>1. WorkersTyped
  BY LastRowAssumption DEF WorkersTyped, Workers, Uploads, WorkerAt
<1>2. RowsTyped
  BY DEF RowsTyped, JobRows, JobStates, Uploads, Events
<1>3. RowsLanded /\ UploadThere /\ CompletedIsWhole /\ GoneIsWhole /\ "blind" \notin past
  BY DEF RowsLanded, UploadThere, CompletedIsWhole, GoneIsWhole
<1>4. EngineKnown
  BY DEF EngineKnown, LiveImports
<1> QED
  BY <1>1, <1>2, <1>3, <1>4 DEF JobsInv, JobsTypeOK, RowsSaid

\* What reading a row changes.
LEMMA RowTaken ==
    ASSUME NEW i \in Importers, EngineRow(i)
    PROVE  \E bad \in BOOLEAN, skips \in BOOLEAN, kept \in SUBSET SheetRows :
              /\ worker' = [worker EXCEPT ![i].row = @ + 1, ![i].bad = @ \/ bad, ![i].skips = @ \/ skips,
                                         ![i].pend = @ \cup kept]
              /\ ~bad => worker[i].row \in landed' \cup kept \cup skipped' \cup BlankRows
              /\ ~bad /\ ~skips => worker[i].row \in landed' \cup kept \cup BlankRows
              /\ landed \subseteq landed' /\ landed' \subseteq landed \cup SheetRows
              /\ skipped \subseteq skipped' /\ skipped' \subseteq skipped \cup SheetRows
<1> DEFINE at == worker[i].row
           held == Kind[at] = "plain" \/ worker[i].pend # {}
           keeps(f) == IF f \in {"lands", "flagged"} THEN {at} ELSE {}
<1>0. /\ at \in SheetRows
      /\ \E f \in Fates(Kind[at]) :
           /\ landed' = landed \cup IF held THEN {} ELSE keeps(f)
           /\ skipped' = skipped \cup IF f = "skipped" THEN {at} ELSE {}
           /\ worker' = [worker EXCEPT ![i].row = @ + 1,
                                      ![i].bad = @ \/ f \in {"rejected", "flagged"},
                                      ![i].skips = @ \/ f = "skipped",
                                      ![i].pend = @ \cup IF held THEN keeps(f) ELSE {}]
  BY Zenon DEF EngineRow
<1>1. PICK row, waits : /\ row = at /\ row \in SheetRows /\ waits = held
  BY ONLY <1>0
<1> HIDE DEF at, held
<1>2. PICK fate, kept :
           /\ fate \in Fates(Kind[row])
           /\ kept = IF fate \in {"lands", "flagged"} THEN {row} ELSE {}
           /\ landed' = landed \cup IF waits THEN {} ELSE kept
           /\ skipped' = skipped \cup IF fate = "skipped" THEN {row} ELSE {}
           /\ worker' = [worker EXCEPT ![i].row = @ + 1,
                                      ![i].bad = @ \/ fate \in {"rejected", "flagged"},
                                      ![i].skips = @ \/ fate = "skipped",
                                      ![i].pend = @ \cup IF waits THEN kept ELSE {}]
  BY <1>0, <1>1, Zenon
<1>3. fate \in {"lands", "flagged", "rejected", "skipped", "blank"} /\ (fate = "blank" => row \in BlankRows)
  <2>1. Kind[row] \in {"row", "plain", "blank"}
    BY <1>1, LastRowAssumption DEF SheetRows
  <2>2. CASE Kind[row] = "blank"
    BY <1>1, <1>2, <2>2 DEF Fates, BlankRows
  <2>3. CASE Kind[row] # "blank"
    <3>1. fate \in {"lands", "flagged", "rejected", "skipped"}
      BY <1>2, <2>1, <2>3 DEF Fates
    <3> QED BY <3>1
  <2> QED BY <2>2, <2>3
<1>4. PICK bad, skips, late : /\ bad = (fate \in {"rejected", "flagged"}) /\ skips = (fate = "skipped")
                              /\ late = IF waits THEN kept ELSE {}
  OBVIOUS
<1>5. bad \in BOOLEAN /\ skips \in BOOLEAN /\ late \in SUBSET SheetRows
  BY <1>1, <1>2, <1>4
<1>6. worker' = [worker EXCEPT ![i].row = @ + 1, ![i].bad = @ \/ bad, ![i].skips = @ \/ skips,
                               ![i].pend = @ \cup late]
  BY <1>2, <1>4
<1>7. /\ ~bad => row \in landed' \cup late \cup skipped' \cup BlankRows
      /\ ~bad /\ ~skips => row \in landed' \cup late \cup BlankRows
  BY <1>2, <1>3, <1>4
<1>8. /\ landed \subseteq landed' /\ landed' \subseteq landed \cup SheetRows
      /\ skipped \subseteq skipped' /\ skipped' \subseteq skipped \cup SheetRows
  BY <1>1, <1>2
<1> QED BY <1>1, <1>5, <1>6, <1>7, <1>8 DEF at

LEMMA JobsTypeStep == JobsTypeOK /\ [JobsNext]_jobsVars => JobsTypeOK'
<1> SUFFICES ASSUME JobsTypeOK, [JobsNext]_jobsVars PROVE WorkersTyped' /\ RowsTyped'
  BY DEF JobsTypeOK
<1> USE LastRowAssumption DEF JobsTypeOK
<1>0. CASE UNCHANGED jobsVars
  BY <1>0 DEF jobsVars, WorkersTyped, RowsTyped
<1>1. CASE UploadFile \/ Purge \/ DeleteUpload \/ Cancel
  <2>1. worker' = worker
    BY <1>1 DEF UploadFile, Purge, DeleteUpload, Cancel
  <2>2. job' \in JobRows
    BY <1>1 DEF UploadFile, Purge, DeleteUpload, Cancel, RowsTyped, JobRows, JobStates
  <2>3. file' \in BOOLEAN /\ upload' \in Uploads /\ landed' = landed /\ skipped' = skipped
    BY <1>1 DEF UploadFile, Purge, DeleteUpload, Cancel, RowsTyped, Uploads
  <2>4. past' \in SUBSET Events
    BY <1>1 DEF UploadFile, Purge, DeleteUpload, Cancel, RowsTyped, Events
  <2> QED
    BY <2>1, <2>2, <2>3, <2>4 DEF WorkersTyped, RowsTyped
<1> SUFFICES ASSUME NEW i \in Importers, StartRead(i) \/ ImportStep(i) \/ ImporterDies(i)
             PROVE  WorkersTyped' /\ RowsTyped'
  BY <1>0, <1>1 DEF JobsNext
<1>2. worker[i] \in Workers /\ worker[i].row \in Nat /\ IdleWorker \in Workers
  BY DEF WorkersTyped, Workers, WorkerAt, Uploads, IdleWorker
<1>3. WorkersTyped'
  <2> SUFFICES \E w \in Workers : worker' = [worker EXCEPT ![i] = w]
    BY DEF WorkersTyped
  <2> USE <1>2 DEF Workers, IdleWorker, Goto, Answer
  <2>1. CASE StartRead(i)
    BY <2>1 DEF StartRead, WorkerAt, Uploads
  <2>2. CASE StartWrite(i) \/ EngineFail(i)
    BY <2>2 DEF StartWrite, EngineFail, WorkerAt, WorkersTyped
  <2>3. CASE EngineOpen(i)
    BY <2>3 DEF EngineOpen, WorkerAt, WorkersTyped, RowsTyped
  <2>4. CASE EngineRow(i)
    <3>1. PICK bad \in BOOLEAN, skips \in BOOLEAN, kept \in SUBSET SheetRows :
             worker' = [worker EXCEPT ![i].row = @ + 1, ![i].bad = @ \/ bad, ![i].skips = @ \/ skips,
                                      ![i].pend = @ \cup kept]
      BY <2>4, RowTaken
    <3>2. worker[i].row + 1 \in 1..(LastRow + 1)
      BY <2>4 DEF EngineRow, SheetRows
    <3> DEFINE after == [worker[i] EXCEPT !.row = @ + 1, !.bad = @ \/ bad, !.skips = @ \/ skips,
                                          !.pend = @ \cup kept]
    <3>3. after \in Workers
      BY <3>2
    <3>4. DOMAIN worker = Importers
      BY DEF WorkersTyped
    <3>5. worker' = [worker EXCEPT ![i] = after]
      BY ONLY <3>1, <3>4, i \in Importers
    <3> HIDE DEF after
    <3> QED
      BY ONLY <3>3, <3>5
  <2>5. CASE EngineCommit(i)
    BY <2>5 DEF EngineCommit, WorkerAt, WorkersTyped
  <2>6. CASE Finish(i) \/ FinishFailed(i)
    BY <2>6 DEF Finish, FinishFailed, WorkerAt, Uploads
  <2>7. CASE CleanRead(i)
    BY <2>7 DEF CleanRead, WorkerAt, RowsTyped
  <2>8. CASE Clean(i) \/ ImporterDies(i)
    BY <2>8 DEF Clean, ImporterDies
  <2> QED
    BY <2>1, <2>2, <2>3, <2>4, <2>5, <2>6, <2>7, <2>8 DEF ImportStep
<1>4. RowsTyped'
  <2> USE DEF RowsTyped
  <2>1. job' \in JobRows
    <3>1. CASE Finish(i)
      BY <1>2, <3>1 DEF Finish, JobRows, JobStates, Workers
    <3>2. CASE FinishFailed(i)
      <4>1. job' = [job EXCEPT !.st = "failed"] /\ "failed" \in JobStates
        BY <3>2 DEF FinishFailed, JobStates
      <4> QED
        BY <4>1 DEF JobRows
    <3>3. CASE StartWrite(i)
      <4>1. job' = job \/ job' = [NoJob EXCEPT !.st = "processing"]
        BY <3>3 DEF StartWrite
      <4>2. [NoJob EXCEPT !.st = "processing"] \in JobRows
        BY DEF JobRows, JobStates, NoJob
      <4> QED
        BY <4>1, <4>2
    <3> QED
      BY <3>1, <3>2, <3>3 DEF StartRead, ImportStep, ImporterDies, EngineOpen, EngineRow, EngineCommit,
         EngineFail, CleanRead, Clean
  <2>2. upload' \in Uploads
    BY DEF StartRead, ImportStep, ImporterDies, StartWrite, EngineOpen, EngineRow, EngineCommit,
           EngineFail, Finish, FinishFailed, CleanRead, Clean, UploadAfter, Uploads
  <2>3. file' \in BOOLEAN /\ past' \in SUBSET Events
    BY DEF StartRead, ImportStep, ImporterDies, StartWrite, EngineOpen, EngineRow, EngineCommit,
           EngineFail, Finish, FinishFailed, CleanRead, Clean, Events
  <2>4. landed' \in SUBSET SheetRows /\ skipped' \in SUBSET SheetRows
    <3>1. CASE EngineRow(i)
      BY <3>1, RowTaken
    <3>2. worker[i].pend \subseteq SheetRows
      BY DEF WorkersTyped, Workers
    <3>3. CASE EngineCommit(i) \/ FinishFailed(i)
      BY <3>2, <3>3 DEF EngineCommit, FinishFailed
    <3> QED
      BY <3>1, <3>3 DEF StartRead, ImportStep, ImporterDies, StartWrite, EngineOpen, EngineFail, Finish,
         CleanRead, Clean
  <2> QED
    BY <2>1, <2>2, <2>3, <2>4
<1> QED
  BY <1>3, <1>4

\* Every step keeps what is said of the rows.
LEMMA RowsStep == JobsInv /\ JobsTypeOK' /\ [JobsNext]_jobsVars => RowsSaid'
<1> SUFFICES ASSUME JobsInv, JobsTypeOK', [JobsNext]_jobsVars PROVE RowsSaid'
  OBVIOUS
<1>t. JobsTypeOK
  BY DEF JobsInv
<1>w. /\ Whole(LastRow + 1, landed, skipped, TRUE) <=> AllIn
      /\ \A skips \in BOOLEAN : Whole(LastRow + 1, landed, skipped, skips) => AllIn
  BY <1>t, WholeIs
<1>a. ASSUME landed \subseteq landed', skipped \subseteq skipped', AllIn PROVE AllIn'
  BY <1>a DEF AllIn, JobsTypeOK, RowsTyped, BlankRows
<1>e. ASSUME landed \subseteq landed', skipped \subseteq skipped', NEW skips,
             Whole(LastRow + 1, landed, skipped, skips)
      PROVE  Whole(LastRow + 1, landed', skipped', skips)
  BY <1>e, WholeStays
<1>l. ASSUME landed \subseteq landed', skipped \subseteq skipped',
             NEW j \in Importers, worker[j].pc = "engine", ~worker[j].bad
      PROVE  Whole(worker[j].row, landed' \cup worker[j].pend, skipped', worker[j].skips)
  <2>1. Whole(worker[j].row, landed \cup worker[j].pend, skipped, worker[j].skips)
    BY <1>l DEF JobsInv, RowsSaid, RowsLanded
  <2>2. landed \cup worker[j].pend \subseteq landed' \cup worker[j].pend
    BY <1>l
  <2> QED
    BY ONLY <1>l, <2>1, <2>2, WholeStays
<1> USE LastRowAssumption
    DEF JobsInv, RowsSaid, JobsTypeOK, WorkersTyped, RowsTyped, Workers, RowsLanded, UploadThere,
        CompletedIsWhole, GoneIsWhole, IdleWorker
<1>0. CASE UNCHANGED jobsVars
  BY <1>0 DEF jobsVars, AllIn
<1>1. CASE UploadFile \/ Purge \/ DeleteUpload \/ Cancel
  <2>0. AllIn' = AllIn
    BY <1>1 DEF UploadFile, Purge, DeleteUpload, Cancel, AllIn
  <2>1. CASE UploadFile
    BY <2>0, <2>1 DEF UploadFile
  <2>2. CASE Purge \/ DeleteUpload
    BY <2>0, <2>2 DEF Purge, DeleteUpload
  <2>3. CASE Cancel
    <3>1. /\ UNCHANGED <<file, landed, skipped, worker>> /\ upload' = "failed" /\ upload # "none"
          /\ past \subseteq past' /\ past' \cap {"blind", "deleted", "purged"} = past \cap {"blind", "deleted", "purged"}
          /\ job' = [job EXCEPT !.st = "cancelled"] /\ job'.st = "cancelled"
      BY <2>3 DEF Cancel, JobRows
    <3>2. RowsLanded'
      BY <3>1
    <3>3. CompletedIsWhole' /\ UploadThere'
      BY <3>1
    <3> QED
      BY <2>0, <3>1, <3>2, <3>3
  <2> QED
    BY <1>1, <2>1, <2>2, <2>3
<1> SUFFICES ASSUME NEW i \in Importers, StartRead(i) \/ ImportStep(i) \/ ImporterDies(i)
             PROVE  RowsSaid'
  BY <1>0, <1>1 DEF JobsNext
<1>2. CASE StartRead(i)
  BY <1>2 DEF StartRead, AllIn
<1>3. CASE StartWrite(i)
  <2>1. AllIn' = AllIn
    BY <1>3 DEF StartWrite, AllIn
  <2>2. /\ UNCHANGED <<file, landed, skipped>> /\ worker[i].pc = "starting" /\ upload # "none"
        /\ past' \cap {"blind", "deleted", "purged"} = past \cap {"blind", "deleted", "purged"}
        /\ \/ worker' = [worker EXCEPT ![i] = IdleWorker] /\ UNCHANGED <<upload, job>>
           \/ /\ worker' = [worker EXCEPT ![i].pc = "started"] /\ upload' = "importing"
              /\ job' = [NoJob EXCEPT !.st = "processing"]
    BY <1>3 DEF StartWrite, Answer, Goto
  <2>3. \A j \in Importers \ {i} : worker'[j] = worker[j]
    BY <2>2
  <2>b. "blind" \in past' <=> "blind" \in past
    BY <2>2
  <2>r. worker[i].row = 1
    BY <2>2
  <2>4. worker'[i].pc \in {"idle", "started"} /\ (worker'[i].pc = "started" => worker'[i].row = 1)
    <3>1. CASE worker' = [worker EXCEPT ![i] = IdleWorker]
      BY <3>1
    <3>2. CASE worker' = [worker EXCEPT ![i].pc = "started"]
      BY <3>2, <2>r
    <3> QED
      BY <2>2, <3>1, <3>2
  <2>5. RowsLanded'
    <3>1. /\ worker'[i].pc \notin {"engine", "finished"}
          /\ worker'[i].pc \in {"starting", "started"} => worker'[i].row = 1
      BY <2>4
    <3> QED
      BY <2>2, <2>3, <2>b, <3>1
  <2>6. upload' # "none" /\ (job' = job \/ job'.st = "processing")
    BY <2>2 DEF NoJob
  <2>7. CompletedIsWhole' /\ UploadThere'
    BY <2>2, <2>6
  <2> QED
    BY <2>1, <2>2, <2>5, <2>6, <2>7
<1>4. CASE EngineOpen(i)
  <2>1. AllIn' = AllIn
    BY <1>4 DEF EngineOpen, AllIn
  <2>2. \A in, gone, skips : Whole(1, in, gone, skips)
    BY DEF Whole
  <2> QED
    BY <1>4, <2>1, <2>2 DEF EngineOpen
<1>5. CASE EngineRow(i)
  <2>1. PICK bad \in BOOLEAN, skips \in BOOLEAN, kept \in SUBSET SheetRows :
              /\ worker' = [worker EXCEPT ![i].row = @ + 1, ![i].bad = @ \/ bad, ![i].skips = @ \/ skips,
                                         ![i].pend = @ \cup kept]
              /\ ~bad => worker[i].row \in landed' \cup kept \cup skipped' \cup BlankRows
              /\ ~bad /\ ~skips => worker[i].row \in landed' \cup kept \cup BlankRows
              /\ landed \subseteq landed' /\ landed' \subseteq landed \cup SheetRows
              /\ skipped \subseteq skipped' /\ skipped' \subseteq skipped \cup SheetRows
    BY <1>5, RowTaken
  <2>2. UNCHANGED <<file, upload, job, past>> /\ worker[i].pc = "engine" /\ worker[i].row \in SheetRows
    BY <1>5 DEF EngineRow
  <2>3. PICK w, v : w = worker[i] /\ v = worker'[i]
    OBVIOUS
  <2>4. /\ v.pc = "engine" /\ v.row = w.row + 1 /\ v.bad = (w.bad \/ bad) /\ v.skips = (w.skips \/ skips)
        /\ v.pend = w.pend \cup kept /\ w.row \in Nat
    BY <2>1, <2>2, <2>3 DEF SheetRows
  <2>5. \A j \in Importers \ {i} : worker'[j] = worker[j]
    BY <2>1
  <2>6. ~v.bad => Whole(v.row, landed' \cup v.pend, skipped', v.skips)
    <3> SUFFICES ASSUME ~v.bad PROVE Whole(v.row, landed' \cup v.pend, skipped', v.skips)
      OBVIOUS
    <3>1. Whole(w.row, landed \cup w.pend, skipped, w.skips)
      BY <2>2, <2>3, <2>4
    <3>2. 1..(v.row - 1) = (1..(w.row - 1)) \cup {w.row}
      BY <2>2, <2>3, <2>4 DEF SheetRows
    <3>3. ~bad /\ ~w.bad /\ v.skips = (w.skips \/ skips) /\ v.pend = w.pend \cup kept
      BY <2>1, <2>4
    <3>4. /\ w.row \in landed' \cup v.pend \cup skipped' \cup BlankRows
          /\ ~skips => w.row \in landed' \cup v.pend \cup BlankRows
      BY <2>1, <2>3, <3>3
    <3>5. landed \cup w.pend \subseteq landed' \cup v.pend /\ skipped \subseteq skipped'
      BY <2>1, <3>3
    <3> QED
      BY ONLY <3>1, <3>2, <3>3, <3>4, <3>5 DEF Whole
  <2>7. ASSUME NEW j \in Importers \ {i}, worker[j].pc = "engine", ~worker[j].bad
        PROVE  Whole(worker[j].row, landed' \cup worker[j].pend, skipped', worker[j].skips)
    BY <1>l, <2>1, <2>7
  <2>8. ASSUME NEW j \in Importers \ {i}, worker[j].pc = "finished", ~worker[j].bad, "blind" \notin past
        PROVE  Whole(LastRow + 1, landed', skipped', worker[j].skips)
    BY <1>e, <2>1, <2>8
  <2>9. RowsLanded'
    BY <2>2, <2>3, <2>4, <2>5, <2>6, <2>7, <2>8
  <2>10. CompletedIsWhole'
    BY <1>e, <2>1, <2>2
  <2>11. (AllIn => AllIn') /\ UploadThere'
    BY <1>a, <2>1, <2>2, <2>3, <2>4, <2>5
  <2> QED
    BY <2>2, <2>9, <2>10, <2>11
<1>6. CASE EngineCommit(i)
  <2>1. /\ worker[i].pc = "engine" /\ worker[i].row = LastRow + 1 /\ UNCHANGED <<file, upload, job, skipped, past>>
        /\ landed' = landed \cup worker[i].pend
        /\ worker' = [worker EXCEPT ![i].pc = "finished", ![i].seen = "expired", ![i].pend = {}]
    BY <1>6 DEF EngineCommit
  <2>2. ~worker[i].bad => Whole(LastRow + 1, landed', skipped', worker[i].skips)
    BY <2>1
  <2>3. landed \subseteq landed' /\ skipped \subseteq skipped'
    BY <2>1
  <2>4. RowsLanded'
    BY <1>e, <1>l, <2>1, <2>2, <2>3
  <2> QED
    BY <1>a, <1>e, <2>1, <2>3, <2>4
<1>7. CASE EngineFail(i) \/ ImporterDies(i)
  <2>1. UNCHANGED <<file, upload, job, landed, skipped, past>> /\ worker[i].pc # "idle"
    BY <1>7 DEF EngineFail, ImporterDies
  <2>2. \/ worker' = [worker EXCEPT ![i] = IdleWorker]
        \/ worker' = [worker EXCEPT ![i].pc = "broken"]
    BY <1>7 DEF EngineFail, ImporterDies, Answer, Goto
  <2>3. worker'[i].pc \in {"idle", "broken"} /\ \A j \in Importers \ {i} : worker'[j] = worker[j]
    BY <2>2
  <2>4. RowsLanded' /\ UploadThere'
    BY <2>1, <2>3
  <2>5. CompletedIsWhole' /\ AllIn' = AllIn
    BY <2>1 DEF AllIn
  <2> QED
    BY <2>1, <2>4, <2>5
<1>8. CASE Finish(i)
  <2>1. upload' # "none" /\ AllIn' = AllIn
    BY <1>8 DEF Finish, UploadAfter, AllIn
  <2> QED
    BY <1>8, <2>1 DEF Finish
<1>9. CASE FinishFailed(i)
  <2>1. upload' # "none"
    BY <1>9 DEF FinishFailed, UploadAfter
  <2>2. /\ landed \subseteq landed' /\ skipped \subseteq skipped'
        /\ UNCHANGED <<file, past>> /\ job' = [job EXCEPT !.st = "failed"]
        /\ worker' = [worker EXCEPT ![i] = [IdleWorker EXCEPT !.pc = "written"]]
    BY <1>9 DEF FinishFailed
  <2>3. RowsLanded'
    BY <1>e, <1>l, <2>2
  <2>4. worker[i].pc # "idle" /\ upload # "none"
    BY <1>9 DEF FinishFailed
  <2>5. job'.st = "failed"
    BY <2>2 DEF JobRows
  <2>6. CompletedIsWhole' /\ UploadThere'
    BY <2>1, <2>5
  <2>7. GoneIsWhole' /\ ("blind" \in past' /\ past' \cap {"deleted", "purged"} = {} => AllIn')
    BY <1>a, <2>2, <2>4
  <2> QED
    BY <2>3, <2>6, <2>7
<1>10. CASE CleanRead(i)
  BY <1>10 DEF CleanRead, AllIn
<1>11. CASE Clean(i)
  <2>1. AllIn' = AllIn
    BY <1>11 DEF Clean, AllIn
  <2>2. UNCHANGED <<upload, job, landed, skipped, past>> /\ worker' = [worker EXCEPT ![i] = IdleWorker]
    BY <1>11 DEF Clean, Answer
  <2>3. worker'[i].pc = "idle" /\ \A j \in Importers \ {i} : worker'[j] = worker[j]
    BY <2>2
  <2>4. RowsLanded' /\ UploadThere' /\ CompletedIsWhole'
    BY <2>2, <2>3
  <2>5. file' = file \/ (job.st = "completed" /\ ~job.rejects)
    BY <1>11 DEF Clean
  <2>6. job.skips \in BOOLEAN
    BY DEF JobRows
  <2>7. GoneIsWhole'
    BY <1>w, <2>1, <2>2, <2>5, <2>6
  <2> QED
    BY <2>1, <2>2, <2>4, <2>7
<1> QED
  BY <1>2, <1>3, <1>4, <1>5, <1>6, <1>7, <1>8, <1>9, <1>10, <1>11 DEF ImportStep

\* Every step that crosses no other keeps the engine the only one.
LEMMA EngineStep == JobsInv /\ JobsTypeOK' /\ [JobsNext]_jobsVars /\ ~Crossed' => EngineKnown'
<1> SUFFICES ASSUME JobsInv, JobsTypeOK', [JobsNext]_jobsVars, ~Crossed' PROVE EngineKnown'
  OBVIOUS
<1>p. past \subseteq past'
  BY DEF JobsNext, jobsVars, UploadFile, Purge, DeleteUpload, Cancel, StartRead, ImportStep,
         ImporterDies, StartWrite, EngineOpen, EngineRow, EngineCommit, EngineFail, Finish,
         FinishFailed, CleanRead, Clean
<1>k. EngineKnown
  BY <1>p DEF JobsInv, Crossed
<1> USE <1>k DEF EngineKnown, LiveImports, JobsInv, JobsTypeOK, WorkersTyped, RowsTyped, Workers, IdleWorker
<1>0. CASE UNCHANGED jobsVars
  BY <1>0 DEF jobsVars
<1>1. CASE UploadFile \/ Purge \/ DeleteUpload
  BY <1>1 DEF UploadFile, Purge, DeleteUpload
<1>2. CASE Cancel
  <2>1. LiveImports = {}
    BY <1>2 DEF Cancel, Crossed
  <2> QED
    BY <1>2, <2>1 DEF Cancel
<1> SUFFICES ASSUME NEW i \in Importers, StartRead(i) \/ ImportStep(i) \/ ImporterDies(i)
             PROVE  EngineKnown'
  BY <1>0, <1>1, <1>2 DEF JobsNext
<1>3. CASE StartRead(i)
  BY <1>3 DEF StartRead
<1>4. CASE StartWrite(i)
  <2>1. CASE job.st # "none" /\ ~worker[i].had
    <3>1. UNCHANGED <<upload, job>> /\ worker' = [worker EXCEPT ![i] = IdleWorker]
      BY <1>4, <2>1 DEF StartWrite, Answer
    <3>2. worker'[i].pc = "idle" /\ \A j \in Importers \ {i} : worker'[j] = worker[j]
      BY <3>1
    <3> QED
      BY <3>1, <3>2
  <2>2. CASE ~(job.st # "none" /\ ~worker[i].had)
    <3>1. job.st # "processing"
      BY <1>4, <2>2 DEF StartWrite, Crossed
    <3>2. LiveImports = {}
      BY <3>1
    <3>3. /\ upload' = "importing" /\ job' = [NoJob EXCEPT !.st = "processing"]
          /\ worker' = [worker EXCEPT ![i].pc = "started"]
      BY <1>4, <2>2 DEF StartWrite, Goto
    <3>4. LiveImports' = {i} /\ worker'[i].pc = "started" /\ job'.st = "processing"
      BY <3>2, <3>3 DEF NoJob
    <3>5. \A j, k \in LiveImports' : j = k
      BY ONLY <3>4
    <3>6. \A j \in LiveImports' : worker'[j].pc = "started"
      BY ONLY <3>4
    <3> QED
      BY ONLY <3>3, <3>4, <3>5, <3>6 DEF EngineKnown
  <2> QED
    BY <2>1, <2>2
<1>5. CASE EngineOpen(i)
  BY <1>5 DEF EngineOpen
<1>6. CASE EngineRow(i)
  <2>1. UNCHANGED <<upload, job>> /\ worker[i].pc = "engine"
    BY <1>6 DEF EngineRow
  <2>2. \A j \in Importers : worker'[j].pc = worker[j].pc /\ worker'[j].seen = worker[j].seen
    <3>1. PICK bad \in BOOLEAN, skips \in BOOLEAN, kept \in SUBSET SheetRows :
             worker' = [worker EXCEPT ![i].row = @ + 1, ![i].bad = @ \/ bad, ![i].skips = @ \/ skips,
                                      ![i].pend = @ \cup kept]
      BY ONLY <1>6, RowTaken
    <3> QED
      BY <3>1
  <2> QED
    BY <2>1, <2>2
<1>7. CASE EngineCommit(i) \/ EngineFail(i) \/ ImporterDies(i)
  BY <1>7 DEF EngineCommit, EngineFail, ImporterDies, Answer, Goto
<1>8. CASE Finish(i) \/ FinishFailed(i)
  <2>0. worker[i].pc \in {"finished", "broken"} /\ worker'[i].pc = "written"
    BY <1>8 DEF Finish, FinishFailed, IdleWorker
  <2>1. LiveImports = {i} /\ LiveImports' = {}
    BY <1>8, <2>0 DEF Finish, FinishFailed
  <2>2. worker[i].seen \in {"importing", "expired"}
    BY <1>8, <2>1 DEF Finish, FinishFailed
  <2>3. upload' # "importing"
    BY <1>8, <2>2 DEF Finish, FinishFailed, UploadAfter
  <2> QED
    BY <2>1, <2>3
<1>9. CASE CleanRead(i)
  BY <1>9 DEF CleanRead
<1>10. CASE Clean(i)
  BY <1>10 DEF Clean, Answer
<1> QED
  BY <1>3, <1>4, <1>5, <1>6, <1>7, <1>8, <1>9, <1>10 DEF ImportStep

LEMMA JobsStepInv == JobsInv /\ [JobsNext]_jobsVars => JobsInv'
  BY JobsTypeStep, RowsStep, EngineStep DEF JobsInv

\* Two engines at once, a completed job with rows missing that are neither blank nor
\* skipped, a workbook gone before its rows were dealt with and an upload that can neither
\* be started nor deleted: each only after what ImportsSettle names, whatever the number of rows, requests, retries and deaths.
THEOREM JobsSettle == JobsSpec => []ImportsSettle
<1>1. JobsInv => ImportsSettle
  <2> SUFFICES ASSUME JobsInv PROVE ImportsSettle
    OBVIOUS
  <2>1. ~Crossed => ~(Cardinality(LiveImports) >= 2)
    <3> SUFFICES ASSUME ~Crossed PROVE ~(Cardinality(LiveImports) >= 2)
      OBVIOUS
    <3>1. CASE LiveImports = {}
      BY <3>1, FS_EmptySet
    <3>2. CASE LiveImports # {}
      <4>1. PICK i : i \in LiveImports
        BY <3>2
      <4>2. LiveImports = {i}
        BY <4>1 DEF JobsInv, EngineKnown
      <4> QED
        BY <4>2, FS_Singleton
    <3> QED
      BY <3>1, <3>2
  <2> QED
    <3>1. job.skips \in BOOLEAN /\ JobsTypeOK
      BY DEF JobsInv, JobsTypeOK, RowsTyped, JobRows
    <3>2. job.st = "completed" /\ ~job.rejects /\ "blind" \notin past =>
              AllIn /\ (~job.skips => landed \cup BlankRows = SheetRows)
      BY <3>1, WholeIs DEF JobsInv, RowsSaid, CompletedIsWhole
    <3> QED
      BY <2>1, <3>2 DEF ImportsSettle, JobsInv, RowsSaid, GoneIsWhole, AllIn, EngineKnown, Crossed
<1> QED
  BY <1>1, JobsInitInv, JobsStepInv, PTL DEF JobsSpec
=============================================================================
