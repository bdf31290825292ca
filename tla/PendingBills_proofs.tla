------------------------- MODULE PendingBills_proofs -------------------------
(***************************************************************************)
(* Proofs about the pending bills of a client, for any sales, bookings,    *)
(* payments and rows, and any history of edits, cancellations, restores,   *)
(* repairs and pages that rewrite single rows:                             *)
(*   - sources, rows and payments stay sound (BillsInv);                   *)
(*   - a rebuild settles the oldest bill first (OldestSettledFirst);       *)
(*   - a rebuild gives each source one row and the exact debt, and a       *)
(*     second one changes nothing (RebuildExact).                          *)
(*                                                                         *)
(* A rebuild is two folds.  The first synchronises the sources one by one: *)
(* each touches the rows of its own source only and leaves it one posted   *)
(* row.  The second replays the payments: each lowers the open rows, the   *)
(* oldest first, by what it is worth and no more.                          *)
(***************************************************************************)
EXTENDS PendingBills, SumTheorems, SequenceTheorems, TLAPS

BillRows == [src : Sources \cup {Manual}, bill : Bills, amount : Nat, paid : BOOLEAN,
             void : BOOLEAN, loose : BOOLEAN]
Documents == [st : {"none", "active", "void"}, due : Nat, billed : BOOLEAN, bill : Bills, cut : BOOLEAN]
Receipts == [st : {"none", "active", "void"}, amount : Int]

SourcesTyped(SRC) ==
    /\ SRC \in [Sources -> Documents]
    /\ \A s \in Sources : /\ SRC[s].st = "none" => SRC[s] = NoSource
                          /\ SRC[s].billed => s \in Sales /\ SRC[s].due = 0

\* Only a row that a revert added is loose
RowsTyped(R) == R \in Seq(BillRows) /\ \A i \in DOMAIN R : R[i].loose => R[i].src \in Bookings

\* A row is entered by hand, or has its source, or has lost its booking
RowOwned(r, SRC) == r.src = Manual \/ SRC[r.src].st # "none" \/ (r.loose /\ r.bill # "auto")
RowsOwned(R, SRC) == RowsTyped(R) /\ \A i \in DOMAIN R : RowOwned(R[i], SRC)

BillsInv == SourcesTyped(src) /\ RowsOwned(rows, src) /\ pay \in [Payments -> Receipts]

\* "T" is "R" after sources of "done" were synchronised
OnlyOf(R, T, done) ==
    /\ Len(R) <= Len(T)
    /\ \A i \in 1..Len(R) : /\ T[i].src = R[i].src /\ T[i].bill = R[i].bill /\ (T[i].loose => R[i].loose)
                            /\ R[i].src \notin done => T[i] = R[i]
    /\ \A i \in (Len(R) + 1)..Len(T) : T[i].src \in done /\ ~T[i].loose

\* A source that is due or billed has one row, and it says what is due.
Wanted(S) == S.st = "active" /\ (S.due > 0 \/ S.billed)
Posted(r, s, S) ==
    /\ r.src = s /\ ~r.void /\ ~r.loose
    /\ r.amount = S.due /\ r.paid = (S.due = 0)
    /\ r.bill \notin RefsOf(S) \ {S.bill} /\ (s \in Bookings => r.bill = S.bill)
Single(T, s, S) ==
    /\ \A i \in DOMAIN T : T[i].src = s /\ T[i].loose => T[i].bill \notin RefsOf(S)
    /\ Wanted(S) => \E m \in DOMAIN T : /\ Posted(T[m], s, S)
                                        /\ \A i \in DOMAIN T \ {m} : T[i].src = s => T[i].void \/ T[i].loose
    /\ ~Wanted(S) => \A i \in DOMAIN T : T[i].src = s => T[i].void \/ T[i].loose

\* Rows are made void.
MadeVoid(R, I, V) ==
    /\ V \in Seq(BillRows) /\ Len(V) = Len(R)
    /\ \A i \in 1..Len(R) :
          /\ i \in I => V[i] = [R[i] EXCEPT !.void = TRUE]
          /\ i \notin I => V[i] = R[i]
          /\ V[i].src = R[i].src /\ V[i].bill = R[i].bill
          /\ V[i].loose = R[i].loose /\ V[i].amount = R[i].amount
          /\ V[i].paid = R[i].paid
          /\ (V[i].void <=> R[i].void \/ i \in I)

\* Void makes the given rows void and changes nothing else.
LEMMA VoidRows ==
    ASSUME NEW R \in Seq(BillRows), NEW I
    PROVE  MadeVoid(R, I, Void(R, I))
<1>1. Void(R, I) = [i \in 1..Len(R) |-> IF i \in I THEN [R[i] EXCEPT !.void = TRUE] ELSE R[i]]
  BY DEF Void
<1>2. \A i \in 1..Len(R) : R[i] \in BillRows
  OBVIOUS
<1>3. ASSUME NEW i \in 1..Len(R)
      PROVE  /\ Void(R, I)[i] \in BillRows
             /\ i \in I => Void(R, I)[i] = [R[i] EXCEPT !.void = TRUE]
             /\ i \notin I => Void(R, I)[i] = R[i]
             /\ Void(R, I)[i].src = R[i].src /\ Void(R, I)[i].bill = R[i].bill
             /\ Void(R, I)[i].loose = R[i].loose /\ Void(R, I)[i].amount = R[i].amount
             /\ Void(R, I)[i].paid = R[i].paid
             /\ (Void(R, I)[i].void <=> R[i].void \/ i \in I)
  <2>1. R[i] \in BillRows
    BY <1>2
  <2>2. Void(R, I)[i] = IF i \in I THEN [R[i] EXCEPT !.void = TRUE] ELSE R[i]
    BY <1>1
  <2> QED
    BY <2>1, <2>2 DEF BillRows
<1>4. Len(R) \in Nat
  OBVIOUS
<1>5. Void(R, I) \in [1..Len(R) -> BillRows]
  BY <1>1, <1>3
<1>6. Void(R, I) \in Seq(BillRows) /\ Len(Void(R, I)) = Len(R)
  <2> HIDE DEF BillRows
  <2>1. Void(R, I) \in Seq(BillRows)
    BY <1>4, <1>5
  <2>2. DOMAIN Void(R, I) = 1..Len(R)
    BY <1>5
  <2> QED
    BY <1>4, <2>1, <2>2
<1> QED
  BY <1>3, <1>6 DEF MadeVoid

\* One row is rewritten with what is due.
Rewritten(r, n) == [r EXCEPT !.amount = n, !.paid = n = 0]

\* It stays a row of the same source, number and state.
LEMMA RewrittenIsRow ==
    ASSUME NEW r \in BillRows, NEW n \in Nat
    PROVE  /\ Rewritten(r, n) \in BillRows
           /\ Rewritten(r, n).src = r.src /\ Rewritten(r, n).bill = r.bill /\ Rewritten(r, n).loose = r.loose
           /\ Rewritten(r, n).void = r.void /\ Rewritten(r, n).amount = n /\ Rewritten(r, n).paid = (n = 0)
  BY DEF Rewritten, BillRows

\* What a row added for a source says.
LEMMA NewRowIsRow ==
    ASSUME NEW s \in Sources \cup {Manual}, NEW bill \in Bills, NEW n \in Nat
    PROVE  /\ NewRow(s, bill, n) \in BillRows
           /\ NewRow(s, bill, n).src = s /\ NewRow(s, bill, n).bill = bill
           /\ NewRow(s, bill, n).amount = n /\ NewRow(s, bill, n).paid = (n = 0)
           /\ ~NewRow(s, bill, n).void /\ ~NewRow(s, bill, n).loose
  BY DEF NewRow, BillRows

\* What a sequence of rows becomes when one of them is rewritten, or one is added.
LEMMA OneRowWritten ==
    ASSUME NEW R \in Seq(BillRows), NEW m \in 1..Len(R), NEW r \in BillRows
    PROVE  /\ [R EXCEPT ![m] = r] \in Seq(BillRows) /\ Len([R EXCEPT ![m] = r]) = Len(R)
           /\ [R EXCEPT ![m] = r][m] = r
           /\ \A i \in 1..Len(R) \ {m} : [R EXCEPT ![m] = r][i] = R[i]
<1>1. Len(R) \in Nat
  OBVIOUS
<1>2. [R EXCEPT ![m] = r] \in [1..Len(R) -> BillRows]
  OBVIOUS
<1>3. [R EXCEPT ![m] = r] \in Seq(BillRows)
  BY <1>1, <1>2
<1>4. DOMAIN [R EXCEPT ![m] = r] = 1..Len(R)
  OBVIOUS
<1>5. Len([R EXCEPT ![m] = r]) = Len(R)
  <2> DEFINE T == [R EXCEPT ![m] = r]
  <2>1. T \in Seq(BillRows) /\ DOMAIN T = 1..Len(R)
    BY <1>3, <1>4
  <2> HIDE DEF T
  <2>2. Len(T) = Len(R)
    BY <1>1, <2>1
  <2> QED
    BY <2>2 DEF T
<1> QED
  BY <1>3, <1>5

\* A row is added behind the others.
LEMMA OneRowAdded ==
    ASSUME NEW R \in Seq(BillRows), NEW r \in BillRows
    PROVE  /\ Append(R, r) \in Seq(BillRows) /\ Len(Append(R, r)) = Len(R) + 1
           /\ Append(R, r)[Len(R) + 1] = r
           /\ \A i \in 1..Len(R) : Append(R, r)[i] = R[i]
  OBVIOUS

\* The newest row of some.
LEMMA NewestIsOne ==
    ASSUME NEW n \in Nat, NEW live \in SUBSET (1..n), live # {}
    PROVE  Max(live) \in live
<1>1. IsFiniteSet(1..n)
  BY FS_Interval
<1>2. live \in SUBSET Nat
  OBVIOUS
<1>3. IsFiniteSet(live)
  BY <1>1, FS_Subset
<1> QED
  BY <1>2, <1>3, GreatestAndLeast

\* One of some rows is written, and the others are void.
OneIsLeft(T, live, n, U, m) ==
    /\ m \in live /\ U \in Seq(BillRows) /\ Len(U) = Len(T)
    /\ U[m] = Rewritten(T[m], n)
    /\ \A i \in live \ {m} : U[i] = [T[i] EXCEPT !.void = TRUE]
    /\ \A i \in (1..Len(T)) \ live : U[i] = T[i]

\* Making the others void and rewriting one of them (void_rebuild.py:883, 946) does that.
LEMMA OthersVoid ==
    ASSUME NEW T \in Seq(BillRows), NEW live \in SUBSET (1..Len(T)), NEW n \in Nat,
           NEW m \in live, NEW V, V = Void(T, live \ {m})
    PROVE  OneIsLeft(T, live, n, [V EXCEPT ![m] = Rewritten(V[m], n)], m)
<1> DEFINE U == [V EXCEPT ![m] = Rewritten(V[m], n)]
<1>1. m \in live
  OBVIOUS
<1>2. MadeVoid(T, live \ {m}, V)
  BY VoidRows
<1>3. /\ V \in Seq(BillRows) /\ Len(V) = Len(T) /\ V[m] = T[m]
      /\ \A i \in live \ {m} : V[i] = [T[i] EXCEPT !.void = TRUE]
      /\ \A i \in (1..Len(T)) \ live : V[i] = T[i]
  <2> HIDE DEF BillRows
  <2> QED
    BY <1>1, <1>2 DEF MadeVoid
<1>4. Rewritten(V[m], n) \in BillRows
  <2>1. V[m] \in BillRows
    <3> HIDE DEF BillRows
    <3> QED
      BY <1>1, <1>3
  <2> QED
    BY <2>1, RewrittenIsRow
<1>5. /\ U \in Seq(BillRows) /\ Len(U) = Len(V) /\ U[m] = Rewritten(V[m], n)
      /\ \A i \in 1..Len(V) \ {m} : U[i] = V[i]
  <2> HIDE DEF BillRows
  <2>1. m \in 1..Len(V)
    BY <1>1, <1>3
  <2> QED
    BY <1>3, <1>4, <2>1, OneRowWritten
<1> HIDE DEF U
<1>6. OneIsLeft(T, live, n, U, m)
  BY <1>1, <1>3, <1>5 DEF OneIsLeft
<1> QED
  BY <1>6 DEF U

\* A sale is synchronised.
LEMMA SaleIsSynced ==
    ASSUME NEW R, RowsTyped(R), NEW s \in Sales, NEW S \in Documents, NEW refs,
           NEW U, U = SyncSale(R, s, S, refs)
    PROVE  RowsTyped(U) /\ OnlyOf(R, U, {s}) /\ (RefsOf(S) \subseteq refs => Single(U, s, S))
<1> DEFINE old == {i \in Of(R, s) : R[i].bill \in refs \ {S.bill}}
           T == Void(R, old)
           live == Active(T, s)
           m == Max(live)
<1> HIDE DEF old
<1>1. R \in Seq(BillRows) /\ \A i \in 1..Len(R) : R[i].loose => R[i].src \in Bookings
  BY DEF RowsTyped
<1>2. s \in Sources /\ s \notin Bookings /\ s # Manual
  BY SourcesAssumption DEF Sources
<1>3. /\ T \in Seq(BillRows) /\ Len(T) = Len(R)
      /\ \A i \in 1..Len(R) :
            /\ i \notin old => T[i] = R[i]
            /\ T[i].src = R[i].src /\ T[i].bill = R[i].bill /\ T[i].loose = R[i].loose
            /\ (T[i].void <=> R[i].void \/ i \in old)
  <2>1. MadeVoid(R, old, T)
    BY <1>1, VoidRows
  <2> HIDE DEF T, BillRows
  <2> QED
    BY <2>1 DEF MadeVoid
<1>4. old = {i \in 1..Len(R) : R[i].src = s /\ R[i].bill \in refs \ {S.bill}}
  BY <1>1 DEF old, Of
<1> HIDE DEF T
<1>5. live = {i \in 1..Len(R) : R[i].src = s /\ ~T[i].void}
  BY <1>3 DEF Active, Of
<1> HIDE DEF live, m
<1>6. S.due \in Nat /\ S.bill \in Bills /\ Wanted(S) \in BOOLEAN
  BY DEF Documents, Wanted
<1>7. \A i \in live : R[i].src = s /\ T[i].src = s /\ ~T[i].loose /\ T[i].bill \notin refs \ {S.bill}
  <2> TAKE i \in live
  <2>1. i \in 1..Len(R) /\ R[i].src = s /\ ~T[i].void
    BY <1>5
  <2>2. T[i].src = R[i].src /\ T[i].bill = R[i].bill /\ T[i].loose = R[i].loose /\ i \notin old
    BY <1>3, <2>1
  <2>3. ~R[i].loose
    BY <1>1, <1>2, <2>1
  <2> QED
    BY <1>4, <2>1, <2>2, <2>3
<1>8. CASE ~Wanted(S)
  <2>1. U = Void(T, Of(T, s))
    BY <1>8, Zenon DEF SyncSale, T, old, Wanted
  <2>2. /\ U \in Seq(BillRows) /\ Len(U) = Len(T)
        /\ \A i \in 1..Len(T) :
              /\ i \notin Of(T, s) => U[i] = T[i]
              /\ U[i].src = T[i].src /\ U[i].bill = T[i].bill /\ U[i].loose = T[i].loose
              /\ (U[i].void <=> T[i].void \/ i \in Of(T, s))
    <3>1. MadeVoid(T, Of(T, s), U)
      BY <1>3, <2>1, VoidRows
    <3> HIDE DEF BillRows
    <3> QED
      BY <3>1 DEF MadeVoid
  <2>3. Of(T, s) = {i \in 1..Len(R) : R[i].src = s}
    BY <1>3 DEF Of
  <2>4. \A i \in 1..Len(R) :
            /\ U[i].src = R[i].src /\ U[i].bill = R[i].bill /\ U[i].loose = R[i].loose
            /\ R[i].src # s => U[i] = R[i]
            /\ U[i].src = s => U[i].void
    <3> TAKE i \in 1..Len(R)
    <3>1. i \in 1..Len(T) /\ (i \in Of(T, s) <=> R[i].src = s)
      BY <1>3, <2>3
    <3>2. R[i].src # s => i \notin old
      BY <1>4
    <3> QED
      BY <1>3, <2>2, <3>1, <3>2
  <2>5. DOMAIN U = 1..Len(R) /\ Len(U) = Len(R) /\ Len(R) \in Nat
    BY <1>1, <1>3, <2>2
  <2>6. RowsTyped(U)
    BY <1>1, <2>2, <2>4, <2>5 DEF RowsTyped
  <2>7. OnlyOf(R, U, {s})
    BY <2>4, <2>5 DEF OnlyOf
  <2>8. Single(U, s, S)
    <3>1. \A i \in DOMAIN U : U[i].src = s => U[i].void /\ ~U[i].loose
      <4> TAKE i \in DOMAIN U
      <4>1. /\ U[i].src = R[i].src /\ U[i].loose = R[i].loose /\ (U[i].src = s => U[i].void)
            /\ (R[i].loose => R[i].src \in Bookings)
        BY <1>1, <2>4, <2>5
      <4> QED
        BY <1>2, <4>1
    <3> QED
      BY <1>8, <3>1 DEF Single
  <2> QED
    BY <2>6, <2>7, <2>8, Zenon
<1>9. CASE Wanted(S) /\ live = {}
  <2>1. U = Append(T, NewRow(s, S.bill, S.due))
    BY <1>9, Zenon DEF SyncSale, T, old, Wanted, live
  <2>2. /\ NewRow(s, S.bill, S.due) \in BillRows
        /\ Posted(NewRow(s, S.bill, S.due), s, S)
    BY <1>2, <1>6, NewRowIsRow DEF Posted
  <2>3. /\ U \in Seq(BillRows) /\ Len(U) = Len(R) + 1 /\ U[Len(R) + 1] = NewRow(s, S.bill, S.due)
        /\ \A i \in 1..Len(R) : U[i] = T[i]
    <3> HIDE DEF BillRows
    <3> QED
      BY <1>3, <2>1, <2>2, OneRowAdded
  <2>4. DOMAIN U = 1..(Len(R) + 1) /\ Len(R) \in Nat
    BY <1>1, <2>3
  <2>5. \A i \in 1..Len(R) :
            /\ U[i].src = R[i].src /\ U[i].bill = R[i].bill /\ U[i].loose = R[i].loose
            /\ R[i].src # s => U[i] = R[i]
            /\ U[i].src = s => U[i].void
    <3> TAKE i \in 1..Len(R)
    <3>1. R[i].src # s => i \notin old
      BY <1>4
    <3>2. R[i].src = s => T[i].void
      BY <1>5, <1>9
    <3> QED
      BY <1>3, <2>3, <3>1, <3>2
  <2> DEFINE new == Len(R) + 1
  <2>6. Posted(U[new], s, S)
    BY <2>2, <2>3
  <2>7. U[new].src = s /\ ~U[new].loose
    BY <2>6 DEF Posted
  <2>8. RowsTyped(U)
    <3>1. \A i \in DOMAIN U : i \in 1..Len(R) \/ i = new
      BY <2>4
    <3> QED
      BY <1>1, <2>3, <2>5, <2>7, <3>1 DEF RowsTyped
  <2>9. OnlyOf(R, U, {s})
    <3>1. \A i \in (Len(R) + 1)..Len(U) : i = new
      BY <2>3, <2>4
    <3> QED
      BY <2>3, <2>4, <2>5, <2>7, <3>1 DEF OnlyOf
  <2>10. Single(U, s, S)
    <3>1. \A i \in DOMAIN U \ {new} : i \in 1..Len(R)
      BY <2>4
    <3>2. new \in DOMAIN U
      BY <2>4
    <3>3. \A i \in DOMAIN U : U[i].src = s => ~U[i].loose
      <4> TAKE i \in DOMAIN U
      <4>1. CASE i = new
        BY <2>7, <4>1
      <4>2. CASE i \in 1..Len(R)
        <5>1. U[i].src = R[i].src /\ U[i].loose = R[i].loose /\ (R[i].loose => R[i].src \in Bookings)
          BY <1>1, <2>5, <4>2
        <5> QED
          BY <1>2, <5>1
      <4> QED
        BY <3>1, <4>1, <4>2
    <3> QED
      BY <1>9, <2>5, <2>6, <3>1, <3>2, <3>3 DEF Single
  <2> QED
    BY <2>8, <2>9, <2>10
<1>10. CASE Wanted(S) /\ live # {}
  <2>0. PICK V : V = Void(T, live \ {m})
    OBVIOUS
  <2>1. U = [V EXCEPT ![m].amount = S.due, ![m].paid = S.due = 0]
    BY <1>10, <2>0, Zenon DEF SyncSale, T, old, Wanted, live, m
  <2>2. U = [V EXCEPT ![m] = Rewritten(V[m], S.due)]
    BY <2>1 DEF Rewritten
  <2>3. /\ m \in live /\ U \in Seq(BillRows) /\ Len(U) = Len(T)
        /\ U[m] = Rewritten(T[m], S.due)
        /\ \A i \in live \ {m} : U[i] = [T[i] EXCEPT !.void = TRUE]
        /\ \A i \in (1..Len(T)) \ live : U[i] = T[i]
    <3>1. live \in SUBSET (1..Len(T))
      BY <1>3, <1>5
    <3>2. m \in live
      <4>1. Len(T) \in Nat
        BY <1>1, <1>3
      <4> QED
        BY <1>10, <3>1, <4>1, NewestIsOne DEF m
    <3> HIDE DEF BillRows
    <3>3. OneIsLeft(T, live, S.due, [V EXCEPT ![m] = Rewritten(V[m], S.due)], m)
      BY <1>3, <1>6, <1>10, <2>0, <3>1, <3>2, OthersVoid
    <3>4. OneIsLeft(T, live, S.due, U, m)
      BY <2>2, <3>3
    <3> QED
      BY <3>4 DEF OneIsLeft
  <2>4. m \in 1..Len(R) /\ T[m] \in BillRows
    BY <1>3, <1>5, <2>3
  <2>5. Posted(U[m], s, S) \/ ~(RefsOf(S) \subseteq refs)
    <3>1. U[m].src = s /\ ~U[m].void /\ ~U[m].loose /\ U[m].amount = S.due /\ U[m].paid = (S.due = 0) /\ U[m].bill = T[m].bill
      BY <1>5, <1>6, <1>7, <2>3, <2>4, RewrittenIsRow
    <3> QED
      BY <1>2, <1>7, <2>3, <3>1 DEF Posted
  <2>6. \A i \in 1..Len(R) :
            /\ U[i].src = R[i].src /\ U[i].bill = R[i].bill /\ U[i].loose = R[i].loose
            /\ R[i].src # s => U[i] = R[i]
            /\ i # m /\ U[i].src = s => U[i].void
    <3> TAKE i \in 1..Len(R)
    <3>1. T[i] \in BillRows
      BY <1>3
    <3>2. CASE i = m
      <4>1. U[i].src = T[i].src /\ U[i].bill = T[i].bill /\ U[i].loose = T[i].loose
        BY <1>6, <2>3, <3>1, <3>2, RewrittenIsRow
      <4> QED
        BY <1>3, <1>7, <2>3, <3>2, <4>1
    <3>3. CASE i \in live /\ i # m
      <4>1. U[i] = [T[i] EXCEPT !.void = TRUE]
        BY <2>3, <3>3
      <4>2. U[i].src = T[i].src /\ U[i].bill = T[i].bill /\ U[i].loose = T[i].loose /\ U[i].void
        BY <3>1, <4>1 DEF BillRows
      <4> QED
        BY <1>3, <1>7, <3>3, <4>2
    <3>4. CASE i \notin live
      <4>1. U[i] = T[i]
        BY <1>3, <2>3, <3>4
      <4>2. R[i].src # s => i \notin old
        BY <1>4
      <4>3. R[i].src = s => T[i].void
        BY <1>5, <3>4
      <4> QED
        BY <1>3, <2>3, <3>4, <4>1, <4>2, <4>3
    <3> QED
      BY <3>2, <3>3, <3>4
  <2>7. DOMAIN U = 1..Len(R) /\ Len(U) = Len(R) /\ Len(R) \in Nat
    BY <1>1, <1>3, <2>3
  <2>8. RowsTyped(U)
    BY <1>1, <2>3, <2>6, <2>7 DEF RowsTyped
  <2>9. OnlyOf(R, U, {s})
    BY <2>6, <2>7 DEF OnlyOf
  <2>10. ASSUME RefsOf(S) \subseteq refs PROVE Single(U, s, S)
    <3>1. \A i \in DOMAIN U : U[i].src = s => ~U[i].loose
      BY <1>1, <1>2, <2>6, <2>7
    <3>2. m \in DOMAIN U /\ Posted(U[m], s, S)
      BY <2>4, <2>5, <2>7, <2>10
    <3> QED
      BY <1>10, <2>6, <2>7, <3>1, <3>2 DEF Single
  <2> QED
    BY <2>8, <2>9, <2>10
<1> QED
  BY <1>6, <1>8, <1>9, <1>10

\* A booking is synchronised.
LEMMA BookingIsSynced ==
    ASSUME NEW R, RowsTyped(R), NEW b \in Bookings, NEW B \in Documents, NEW refs,
           B.billed => b \in Sales, NEW U, U = SyncBooking(R, b, B, refs)
    PROVE  RowsTyped(U) /\ OnlyOf(R, U, {b}) /\ Single(U, b, B)
<1> DEFINE due == B.st = "active" /\ B.due > 0
           found == Tracked(R, b, refs \cup RefsOf(B))
           usable == {i \in found : due /\ ~R[i].void /\ R[i].bill = B.bill}
           T == [i \in DOMAIN R |-> IF i \in found THEN [R[i] EXCEPT !.loose = FALSE] ELSE R[i]]
           m == Max(usable)
<1>1. R \in Seq(BillRows) /\ DOMAIN R = 1..Len(R) /\ Len(R) \in Nat
      /\ \A i \in 1..Len(R) : R[i].loose => R[i].src \in Bookings
  BY DEF RowsTyped
<1>2. b \in Sources /\ b \notin Sales
  BY SourcesAssumption DEF Sources
<1>3. due <=> Wanted(B)
  BY <1>2 DEF Wanted
<1>4. found = {i \in 1..Len(R) : R[i].src = b /\ (R[i].loose => R[i].bill \in refs \cup RefsOf(B))}
  BY <1>1 DEF Tracked, Of
<1>5. U = CASE usable # {} -> [Void(T, found \ {m}) EXCEPT ![m].amount = B.due, ![m].paid = FALSE]
            [] usable = {} /\ due -> Append(Void(T, found), NewRow(b, B.bill, B.due))
            [] OTHER -> Void(T, found)
  BY DEF SyncBooking
<1>6. usable = {i \in found : due /\ ~R[i].void /\ R[i].bill = B.bill}
  OBVIOUS
<1>7. T = [i \in 1..Len(R) |-> IF i \in found THEN [R[i] EXCEPT !.loose = FALSE] ELSE R[i]]
  BY <1>1
<1>8. B.due \in Nat /\ B.bill \in Bills /\ Wanted(B) \in BOOLEAN
  BY DEF Documents, Wanted
<1> HIDE DEF found, usable, m, T, due
<1>9. ASSUME NEW i \in 1..Len(R)
      PROVE  /\ T[i] \in BillRows
             /\ i \notin found => T[i] = R[i]
             /\ T[i].src = R[i].src /\ T[i].bill = R[i].bill /\ (T[i].loose <=> R[i].loose /\ i \notin found)
             /\ (T[i].void <=> R[i].void)
  <2>1. R[i] \in BillRows
    BY <1>1
  <2>2. T[i] = IF i \in found THEN [R[i] EXCEPT !.loose = FALSE] ELSE R[i]
    BY <1>7
  <2> QED
    BY <2>1, <2>2 DEF BillRows
<1>10. T \in Seq(BillRows) /\ Len(T) = Len(R) /\ found \in SUBSET (1..Len(T))
  <2>1. T \in [1..Len(R) -> BillRows]
    BY <1>7, <1>9
  <2> HIDE DEF BillRows
  <2>2. T \in Seq(BillRows)
    BY <1>1, <2>1
  <2>3. DOMAIN T = 1..Len(R)
    BY <2>1
  <2>4. Len(T) = Len(R)
    BY <1>1, <2>2, <2>3
  <2> QED
    BY <1>4, <2>2, <2>4
<1>11. \A i \in 1..Len(R) : T[i].src = b /\ T[i].loose => T[i].bill \notin RefsOf(B)
  BY <1>4, <1>9
<1>12. CASE usable # {}
  <2>0. PICK V : V = Void(T, found \ {m})
    OBVIOUS
  <2>1. m \in usable
    <3>1. usable \in SUBSET (1..Len(R))
      BY <1>4, <1>6
    <3> QED
      BY <1>1, <1>12, <3>1, NewestIsOne DEF m
  <2>2. m \in found /\ due /\ R[m].bill = B.bill /\ ~R[m].void /\ m \in 1..Len(R) /\ R[m].src = b
    BY <1>4, <1>6, <2>1
  <2>3. U = [V EXCEPT ![m].amount = B.due, ![m].paid = FALSE]
    BY <1>5, <1>12, <2>0
  <2>4. (B.due = 0) = FALSE
    BY <1>8, <2>2 DEF due
  <2>5. U = [V EXCEPT ![m] = Rewritten(V[m], B.due)]
    BY <2>3, <2>4 DEF Rewritten
  <2>6. OneIsLeft(T, found, B.due, U, m)
    <3>1. OneIsLeft(T, found, B.due, [V EXCEPT ![m] = Rewritten(V[m], B.due)], m)
      BY <1>8, <1>10, <2>0, <2>2, OthersVoid
    <3> QED
      BY <2>5, <3>1
  <2>7. /\ U \in Seq(BillRows) /\ Len(U) = Len(R) /\ U[m] = Rewritten(T[m], B.due)
        /\ \A i \in found \ {m} : U[i] = [T[i] EXCEPT !.void = TRUE]
        /\ \A i \in (1..Len(R)) \ found : U[i] = T[i]
    BY <1>10, <2>6 DEF OneIsLeft
  <2>8. /\ U[m].src = b /\ ~U[m].void /\ ~U[m].loose /\ U[m].amount = B.due
        /\ U[m].paid = (B.due = 0) /\ U[m].bill = B.bill
    <3>1. T[m] \in BillRows
      BY <1>9, <2>2
    <3>2. /\ U[m].src = T[m].src /\ U[m].void = T[m].void /\ U[m].loose = T[m].loose
          /\ U[m].amount = B.due /\ U[m].paid = (B.due = 0) /\ U[m].bill = T[m].bill
      BY <1>8, <2>7, <3>1, RewrittenIsRow
    <3>3. T[m].src = b /\ T[m].bill = B.bill /\ ~T[m].loose /\ ~T[m].void
      BY <1>9, <2>2
    <3> QED
      BY <3>2, <3>3
  <2>9. Posted(U[m], b, B)
    BY <2>8 DEF Posted
  <2>10. \A i \in 1..Len(R) :
            /\ U[i].src = R[i].src /\ U[i].bill = R[i].bill /\ (U[i].loose => R[i].loose)
            /\ R[i].src # b => U[i] = R[i]
            /\ i # m /\ U[i].src = b => U[i].void \/ U[i].loose
            /\ U[i].src = b /\ U[i].loose => U[i].bill \notin RefsOf(B)
    <3> TAKE i \in 1..Len(R)
    <3>1. T[i] \in BillRows
      BY <1>9
    <3>2. CASE i = m
      BY <2>2, <2>8, <3>2
    <3>3. CASE i \in found /\ i # m
      <4>1. U[i] = [T[i] EXCEPT !.void = TRUE]
        BY <2>7, <3>3
      <4>2. U[i].src = T[i].src /\ U[i].bill = T[i].bill /\ U[i].loose = T[i].loose /\ U[i].void
        BY <3>1, <4>1 DEF BillRows
      <4>3. R[i].src = b
        BY <1>4, <3>3
      <4> QED
        BY <1>9, <1>11, <3>3, <4>2, <4>3
    <3>4. CASE i \notin found
      <4>1. U[i] = R[i] /\ T[i] = R[i]
        BY <1>9, <2>7, <3>4
      <4>2. R[i].src = b => R[i].loose
        BY <1>4, <3>4
      <4> QED
        BY <1>11, <2>2, <3>4, <4>1, <4>2
    <3> QED
      BY <3>2, <3>3, <3>4
  <2>11. DOMAIN U = 1..Len(R)
    BY <1>1, <2>7
  <2>12. RowsTyped(U)
    BY <1>1, <2>7, <2>10, <2>11 DEF RowsTyped
  <2>13. OnlyOf(R, U, {b})
    BY <1>1, <2>7, <2>10 DEF OnlyOf
  <2>14. Wanted(B)
    BY <1>3, <2>2
  <2>15. Single(U, b, B)
    BY <2>2, <2>9, <2>10, <2>11, <2>14 DEF Single
  <2> QED
    BY <2>12, <2>13, <2>15
<1>13. CASE usable = {}
  <2> DEFINE V == Void(T, found)
  <2>1. MadeVoid(T, found, V)
    BY <1>10, VoidRows
  <2>2. U = IF due THEN Append(V, NewRow(b, B.bill, B.due)) ELSE V
    BY <1>5, <1>13
  <2> HIDE DEF V
  <2>3. V \in Seq(BillRows) /\ Len(V) = Len(R)
    BY <1>10, <2>1 DEF MadeVoid
  <2>4. \A i \in 1..Len(R) :
            /\ V[i].src = R[i].src /\ V[i].bill = R[i].bill /\ (V[i].loose => R[i].loose)
            /\ R[i].src # b => V[i] = R[i]
            /\ V[i].src = b => V[i].void \/ V[i].loose
            /\ V[i].src = b /\ V[i].loose => V[i].bill \notin RefsOf(B)
    <3> TAKE i \in 1..Len(R)
    <3>1. /\ i \notin found => V[i] = T[i]
          /\ V[i].src = T[i].src /\ V[i].bill = T[i].bill /\ V[i].loose = T[i].loose
          /\ (V[i].void <=> T[i].void \/ i \in found)
      BY <1>10, <2>1 DEF MadeVoid
    <3>2. i \notin found /\ R[i].src = b => R[i].loose
      BY <1>4
    <3>3. i \in found => R[i].src = b
      BY <1>4
    <3> QED
      BY <1>9, <1>11, <3>1, <3>2, <3>3
  <2>5. CASE ~due
    <3>1. U = V /\ ~Wanted(B) /\ DOMAIN U = 1..Len(R)
      BY <1>1, <1>3, <2>2, <2>3, <2>5
    <3>2. RowsTyped(U)
      BY <1>1, <2>3, <2>4, <3>1 DEF RowsTyped
    <3>3. OnlyOf(R, U, {b})
      BY <1>1, <2>3, <2>4, <3>1 DEF OnlyOf
    <3>4. Single(U, b, B)
      BY <2>4, <3>1 DEF Single
    <3> QED
      BY <3>2, <3>3, <3>4
  <2>6. CASE due
    <3> DEFINE new == Len(R) + 1
    <3>1. U = Append(V, NewRow(b, B.bill, B.due)) /\ Wanted(B)
      BY <1>3, <2>2, <2>6
    <3>2. NewRow(b, B.bill, B.due) \in BillRows /\ Posted(NewRow(b, B.bill, B.due), b, B)
      BY <1>2, <1>8, NewRowIsRow DEF Posted
    <3>3. /\ U \in Seq(BillRows) /\ Len(U) = Len(R) + 1 /\ U[new] = NewRow(b, B.bill, B.due)
          /\ \A i \in 1..Len(R) : U[i] = V[i]
      <4> HIDE DEF BillRows
      <4> QED
        BY <2>3, <3>1, <3>2, OneRowAdded
    <3>4. DOMAIN U = 1..(Len(R) + 1) /\ new \in DOMAIN U /\ \A i \in DOMAIN U \ {new} : i \in 1..Len(R)
      BY <1>1, <3>3
    <3>5. Posted(U[new], b, B)
      BY <3>2, <3>3
    <3>6. U[new].src = b /\ ~U[new].loose
      BY <3>5 DEF Posted
    <3>7. RowsTyped(U)
      BY <1>1, <2>4, <3>3, <3>4, <3>6 DEF RowsTyped
    <3>8. OnlyOf(R, U, {b})
      <4>1. \A i \in (Len(R) + 1)..Len(U) : i = new
        BY <1>1, <3>3
      <4> QED
        BY <1>1, <2>4, <3>3, <3>6, <4>1 DEF OnlyOf
    <3>9. Single(U, b, B)
      <4>1. \A i \in DOMAIN U : U[i].src = b /\ U[i].loose => U[i].bill \notin RefsOf(B)
        BY <2>4, <3>3, <3>4, <3>6
      <4> QED
        BY <2>4, <3>1, <3>3, <3>4, <3>5, <4>1 DEF Single
    <3> QED
      BY <3>7, <3>8, <3>9
  <2> QED
    BY <2>5, <2>6
<1> QED
  BY <1>12, <1>13

\* A source is synchronised.
LEMMA SourceIsSynced ==
    ASSUME NEW R, RowsTyped(R), NEW s \in Sources, NEW S \in Documents, NEW refs,
           S.billed => s \in Sales, NEW U, U = Sync(R, s, S, refs)
    PROVE  RowsTyped(U) /\ OnlyOf(R, U, {s}) /\ (RefsOf(S) \subseteq refs => Single(U, s, S))
<1>1. CASE s \in Sales
  <2>1. U = SyncSale(R, s, S, refs)
    BY <1>1 DEF Sync
  <2> QED
    BY <1>1, <2>1, SaleIsSynced
<1>2. CASE s \notin Sales
  <2>1. U = SyncBooking(R, s, S, refs) /\ s \in Bookings
    BY <1>2 DEF Sync, Sources
  <2> QED
    BY <2>1, BookingIsSynced
<1> QED
  BY <1>1, <1>2

\* The sources are synchronised one after another.
Derives(f, R, SRC, todo, refs) ==
    f = [n \in 0..Len(todo) |->
            IF n = 0 THEN R ELSE Sync(f[n - 1], todo[n], SRC[todo[n]], refs[todo[n]])]

\* There is such a function, so Derived is the last of its steps.
LEMMA SourcesOneByOne ==
    ASSUME NEW R, RowsTyped(R), NEW SRC, SourcesTyped(SRC), NEW todo \in Seq(Sources), NEW refs
    PROVE  \E f : Derives(f, R, SRC, todo, refs)
<1> DEFINE V == {T \in Seq(BillRows) : RowsTyped(T)}
           k == Len(todo)
           step == [e \in (1..k) \X V |-> Sync(e[2], todo[e[1]], SRC[todo[e[1]]], refs[todo[e[1]]])]
<1>1. k \in Nat /\ R \in V
  BY DEF RowsTyped
<1>2. ASSUME NEW n \in 1..k, NEW T \in V
      PROVE  /\ step[<<n, T>>] = Sync(T, todo[n], SRC[todo[n]], refs[todo[n]])
             /\ step[<<n, T>>] \in V
  <2>1. todo[n] \in Sources /\ RowsTyped(T)
    OBVIOUS
  <2>2. SRC[todo[n]] \in Documents /\ (SRC[todo[n]].billed => todo[n] \in Sales)
    BY <2>1 DEF SourcesTyped
  <2>3. PICK U : U = Sync(T, todo[n], SRC[todo[n]], refs[todo[n]])
    OBVIOUS
  <2>4. RowsTyped(U)
    BY <2>1, <2>2, <2>3, SourceIsSynced
  <2>5. U \in V
    BY <2>4 DEF RowsTyped
  <2>6. step[<<n, T>>] = U
    BY <2>3
  <2> QED
    BY <2>3, <2>5, <2>6
<1> HIDE DEF V, step
<1>3. PICK f : /\ f = [n \in 0..k |-> IF n = 0 THEN R ELSE step[<<n, f[n - 1]>>]]
               /\ \A n \in 0..k : f[n] \in V
  <2> HIDE DEF k
  <2>1. PICK r, W, st, l : r = R /\ W = V /\ st = step /\ l = k
    OBVIOUS
  <2>2. r \in W /\ l \in Nat /\ \A n \in 1..l : \A x \in W : st[<<n, x>>] \in W
    BY <1>1, <1>2, <2>1
  <2>3. \E f : Walks(f, W, r, l, st)
    BY ONLY <2>2, StepByStep
  <2> QED
    BY <2>1, <2>3 DEF Walks
<1>4. \A n \in 0..k : f[n] = IF n = 0 THEN R ELSE Sync(f[n - 1], todo[n], SRC[todo[n]], refs[todo[n]])
  <2> TAKE n \in 0..k
  <2>1. f[n] = IF n = 0 THEN R ELSE step[<<n, f[n - 1]>>]
    BY <1>3
  <2>2. CASE n = 0
    BY <2>1, <2>2
  <2>3. CASE n # 0
    <3>1. n \in 1..k /\ n - 1 \in 0..k
      BY <1>1, <2>3
    <3> QED
      BY <1>2, <1>3, <2>1, <2>3, <3>1
  <2> QED
    BY <2>2, <2>3
<1>5. f = [n \in 0..k |-> f[n]]
  BY <1>3
<1>6. Derives(f, R, SRC, todo, refs)
  BY <1>4, <1>5 DEF Derives
<1> QED
  BY <1>6

\* Rows that were synchronised are synchronised once more.
LEMMA OnlyOfMore ==
    ASSUME NEW R, NEW T, NEW U, RowsTyped(R), RowsTyped(T), RowsTyped(U), NEW A, NEW s, OnlyOf(R, T, A), OnlyOf(T, U, {s})
    PROVE  OnlyOf(R, U, A \cup {s})
<1>1. Len(R) \in Nat /\ Len(T) \in Nat /\ Len(U) \in Nat
  BY DEF RowsTyped
<1>2. Len(R) <= Len(U)
  BY <1>1 DEF OnlyOf
<1>3. ASSUME NEW i \in 1..Len(R)
      PROVE  /\ U[i].src = R[i].src /\ U[i].bill = R[i].bill /\ (U[i].loose => R[i].loose)
             /\ R[i].src \notin A \cup {s} => U[i] = R[i]
  <2>1. i \in 1..Len(T)
    BY <1>1 DEF OnlyOf
  <2>2. T[i].src = R[i].src /\ T[i].bill = R[i].bill /\ (T[i].loose => R[i].loose) /\ (R[i].src \notin A => T[i] = R[i])
    BY DEF OnlyOf
  <2>3. U[i].src = T[i].src /\ U[i].bill = T[i].bill /\ (U[i].loose => T[i].loose) /\ (T[i].src # s => U[i] = T[i])
    BY <2>1 DEF OnlyOf
  <2> QED
    BY <2>2, <2>3
<1>4. ASSUME NEW i \in (Len(R) + 1)..Len(U) PROVE U[i].src \in A \cup {s} /\ ~U[i].loose
  <2>1. CASE i \in 1..Len(T)
    <3>1. i \in (Len(R) + 1)..Len(T)
      BY <1>1, <2>1
    <3>2. T[i].src \in A /\ ~T[i].loose
      BY <3>1 DEF OnlyOf
    <3>3. U[i].src = T[i].src /\ (U[i].loose => T[i].loose)
      BY <2>1 DEF OnlyOf
    <3> QED
      BY <3>2, <3>3
  <2>2. CASE i \notin 1..Len(T)
    <3>1. i \in (Len(T) + 1)..Len(U)
      BY <1>1, <2>2
    <3> QED
      BY <3>1 DEF OnlyOf
  <2> QED
    BY <2>1, <2>2
<1> QED
  BY <1>2, <1>3, <1>4 DEF OnlyOf

\* Synchronising one source leaves the rows of the others as they are.
LEMMA SingleStays ==
    ASSUME NEW T, NEW U, RowsTyped(T), RowsTyped(U), NEW s, OnlyOf(T, U, {s}), NEW q, q # s, NEW S, Single(T, q, S)
    PROVE  Single(U, q, S)
<1>1. Len(T) \in Nat /\ Len(U) \in Nat /\ DOMAIN T = 1..Len(T) /\ DOMAIN U = 1..Len(U) /\ Len(T) <= Len(U)
  BY DEF RowsTyped, OnlyOf
<1>2. \A i \in DOMAIN U : U[i].src = q => i \in DOMAIN T /\ U[i] = T[i]
  <2> TAKE i \in DOMAIN U
  <2> HAVE U[i].src = q
  <2>1. CASE i \in 1..Len(T)
    BY <1>1, <2>1 DEF OnlyOf
  <2>2. CASE i \notin 1..Len(T)
    <3>1. i \in (Len(T) + 1)..Len(U)
      BY <1>1, <2>2
    <3> QED
      BY <3>1 DEF OnlyOf
  <2> QED
    BY <2>1, <2>2
<1>3. \A i \in DOMAIN T : T[i].src = q => i \in DOMAIN U /\ U[i] = T[i]
  BY <1>1 DEF OnlyOf
<1>4. ASSUME Wanted(S)
      PROVE  \E m \in DOMAIN U : /\ Posted(U[m], q, S)
                                 /\ \A i \in DOMAIN U \ {m} : U[i].src = q => U[i].void \/ U[i].loose
  <2>1. PICK m \in DOMAIN T : /\ Posted(T[m], q, S)
                              /\ \A i \in DOMAIN T \ {m} : T[i].src = q => T[i].void \/ T[i].loose
    BY <1>4 DEF Single
  <2>2. T[m].src = q
    BY <2>1 DEF Posted
  <2>3. m \in DOMAIN U /\ U[m] = T[m]
    BY <1>3, <2>2
  <2> QED
    BY <1>2, <2>1, <2>3
<1>5. ASSUME ~Wanted(S) PROVE \A i \in DOMAIN U : U[i].src = q => U[i].void \/ U[i].loose
  BY <1>2, <1>5 DEF Single
<1>6. \A i \in DOMAIN U : U[i].src = q /\ U[i].loose => U[i].bill \notin RefsOf(S)
  BY <1>2 DEF Single
<1> QED
  BY <1>4, <1>5, <1>6 DEF Single

\* After all of them, each has its one row.
LEMMA SourcesAreSynced ==
    ASSUME NEW R, RowsTyped(R), NEW SRC, SourcesTyped(SRC), NEW todo \in Seq(Sources), NEW refs,
           NEW U, U = Derived(R, SRC, todo, refs)
    PROVE  /\ RowsTyped(U) /\ OnlyOf(R, U, {todo[k] : k \in 1..Len(todo)})
           /\ (\A s \in Sources : RefsOf(SRC[s]) \subseteq refs[s]) =>
                 \A k \in 1..Len(todo) : Single(U, todo[k], SRC[todo[k]])
<1> DEFINE after == CHOOSE f : f = [n \in 0..Len(todo) |->
                        IF n = 0 THEN R ELSE Sync(f[n - 1], todo[n], SRC[todo[n]], refs[todo[n]])]
           whole == \A s \in Sources : RefsOf(SRC[s]) \subseteq refs[s]
           done(n) == {todo[k] : k \in 1..n}
           Right(T, n) == /\ RowsTyped(T) /\ OnlyOf(R, T, done(n))
                          /\ whole => \A k \in 1..n : Single(T, todo[k], SRC[todo[k]])
<1>1. U = after[Len(todo)]
  BY DEF Derived
<1>2. after = [n \in 0..Len(todo) |->
                  IF n = 0 THEN R ELSE Sync(after[n - 1], todo[n], SRC[todo[n]], refs[todo[n]])]
  <2>1. \E f : Derives(f, R, SRC, todo, refs)
    BY SourcesOneByOne
  <2> QED
    BY <2>1 DEF Derives
<1> HIDE DEF after, whole
<1>3. Right(after[0], 0)
  <2>1. after[0] = R
    BY <1>2
  <2>2. OnlyOf(R, R, {})
    <3>1. Len(R) \in Nat
      BY DEF RowsTyped
    <3> QED
      BY <3>1 DEF OnlyOf
  <2>3. 1..0 = {} /\ done(0) = {}
    OBVIOUS
  <2> QED
    BY <2>1, <2>2, <2>3
<1>4. ASSUME NEW n \in 1..Len(todo), Right(after[n - 1], n - 1) PROVE Right(after[n], n)
  <2>1. PICK T, W, s : T = after[n - 1] /\ W = after[n] /\ s = todo[n]
    OBVIOUS
  <2>2. n \in 0..Len(todo) /\ n # 0 /\ s \in Sources
    BY <2>1
  <2>3. W = Sync(T, s, SRC[s], refs[s])
    BY <1>2, <2>1, <2>2
  <2>4. RowsTyped(T) /\ OnlyOf(R, T, done(n - 1))
    BY <1>4, <2>1
  <2>5. SRC[s] \in Documents /\ (SRC[s].billed => s \in Sales)
    BY <2>2 DEF SourcesTyped
  <2>6. RowsTyped(W) /\ OnlyOf(T, W, {s}) /\ (RefsOf(SRC[s]) \subseteq refs[s] => Single(W, s, SRC[s]))
    BY <2>2, <2>3, <2>4, <2>5, SourceIsSynced
  <2>7. done(n) = done(n - 1) \cup {s}
    <3>1. 1..n = 1..(n - 1) \cup {n}
      OBVIOUS
    <3> QED
      BY <2>1, <3>1
  <2>8. OnlyOf(R, W, done(n))
    <3>1. PICK A : A = done(n - 1)
      OBVIOUS
    <3>2. OnlyOf(R, T, A)
      BY <2>4, <3>1
    <3>3. OnlyOf(R, W, A \cup {s})
      BY <2>4, <2>6, <3>2, OnlyOfMore
    <3> QED
      BY <2>7, <3>1, <3>3
  <2>9. ASSUME whole, NEW k \in 1..n PROVE Single(W, todo[k], SRC[todo[k]])
    <3>1. CASE todo[k] = s
      BY <2>2, <2>6, <2>9, <3>1 DEF whole
    <3>2. CASE todo[k] # s
      <4>1. k \in 1..(n - 1)
        BY <2>1, <3>2
      <4>2. Single(T, todo[k], SRC[todo[k]])
        BY <1>4, <2>1, <2>9, <4>1
      <4> QED
        BY <2>4, <2>6, <3>2, <4>2, SingleStays
    <3> QED
      BY <3>1, <3>2
  <2> QED
    BY <2>1, <2>6, <2>8, <2>9
<1> HIDE DEF Right
<1>5. \A n \in 0..Len(todo) : n \in {k \in 0..Len(todo) : Right(after[k], k)}
  <2> DEFINE A == {k \in 0..Len(todo) : Right(after[k], k)}
  <2>1. Len(todo) \in Nat
    OBVIOUS
  <2>2. 0 \in A
    BY <1>3, <2>1
  <2>3. \A n \in 1..Len(todo) : n - 1 \in A => n \in A
    BY <1>4, <2>1
  <2> HIDE DEF A
  <2>4. \A n \in 0..Len(todo) : n \in A
    BY <2>1, <2>2, <2>3, UpTo
  <2> QED
    BY <2>4 DEF A
<1>6. Right(U, Len(todo))
  <2>1. Len(todo) \in 0..Len(todo)
    OBVIOUS
  <2> QED
    BY <1>1, <1>5, <2>1
<1> QED
  BY <1>6 DEF Right, whole

------------------------------------------------------------------------------
\* Sources and rows are listed in the order of their ids.
LEMMA AscendingListsAll ==
    ASSUME NEW S \in SUBSET Nat, IsFiniteSet(S)
    PROVE  /\ Ascending(S) \in Seq(S) /\ Len(Ascending(S)) = Cardinality(S)
           /\ \A x \in S : \E n \in 1..Cardinality(S) : Ascending(S)[n] = x
<1> DEFINE many == Cardinality(S)
           lt == {e \in S \X S : e[1] < e[2]}
<1>1. many \in Nat
  BY FS_CardinalityType
<1>2. \A x \in S : {y \in S : y < x} = {y \in S : <<y, x>> \in lt}
  OBVIOUS
<1>3. StrictOrder(S, lt)
  BY DEF StrictOrder
<1>4. /\ \A n \in 1..many : \E x \in S : Cardinality({y \in S : y < x}) = n - 1
      /\ \A x \in S : Cardinality({y \in S : y < x}) + 1 \in 1..many
      /\ \A x, z \in S : Cardinality({y \in S : y < x}) = Cardinality({y \in S : y < z}) => x = z
  <2> HIDE DEF lt
  <2>1. HaveTurns(S, lt)
    BY <1>3, EachHasItsTurn
  <2>2. /\ \A n \in 1..Cardinality(S) : \E x \in S : Cardinality({y \in S : <<y, x>> \in lt}) = n - 1
        /\ \A x \in S : Cardinality({y \in S : <<y, x>> \in lt}) + 1 \in 1..Cardinality(S)
    BY <2>1 DEF HaveTurns
  <2>3. \A x, z \in S : Cardinality({y \in S : <<y, x>> \in lt}) = Cardinality({y \in S : <<y, z>> \in lt}) => x = z
    BY <2>1 DEF HaveTurns
  <2> HIDE DEF many
  <2>4. \A x, z \in S : Cardinality({y \in S : y < x}) = Cardinality({y \in S : y < z}) => x = z
    BY <1>2, <2>3
  <2> QED
    BY <1>2, <2>2, <2>4 DEF many
<1>5. Ascending(S) = [n \in 1..many |-> CHOOSE x \in S : Cardinality({y \in S : y < x}) = n - 1]
  BY DEF Ascending
<1> HIDE DEF many, lt
<1>6. \A n \in 1..many : Ascending(S)[n] \in S /\ Cardinality({y \in S : y < Ascending(S)[n]}) = n - 1
  BY <1>4, <1>5
<1>7. Ascending(S) \in [1..many -> S]
  BY <1>5, <1>6
<1>8. Ascending(S) \in Seq(S)
  BY <1>1, <1>7
<1>9. Len(Ascending(S)) = many
  BY <1>1, <1>7, <1>8
<1>10. ASSUME NEW x \in S PROVE \E n \in 1..many : Ascending(S)[n] = x
  <2>1. PICK n : n = Cardinality({y \in S : y < x}) + 1
    OBVIOUS
  <2>2. n \in 1..many /\ Cardinality({y \in S : y < x}) = n - 1
    <3>1. {y \in S : y < x} \subseteq S
      OBVIOUS
    <3>2. Cardinality({y \in S : y < x}) \in Nat
      BY <3>1, FS_Subset, FS_CardinalityType
    <3> QED
      BY <1>4, <2>1, <3>2
  <2> QED
    BY <1>4, <1>6, <2>2
<1> QED
  BY <1>8, <1>9, <1>10 DEF many

\* Kept lists rows that are not deleted, and no other.
LEMMA KeptAreRows ==
    ASSUME NEW R \in Seq(BillRows), NEW I \in SUBSET (1..Len(R))
    PROVE  /\ Kept(R, I) \in Seq(BillRows)
           /\ \A n \in DOMAIN Kept(R, I) : \E i \in I : Kept(R, I)[n] = R[i]
<1>1. IsFiniteSet(I) /\ I \in SUBSET Nat
  <2>1. IsFiniteSet(1..Len(R))
    BY FS_Interval
  <2>2. IsFiniteSet(I)
    BY <2>1, FS_Subset
  <2> QED
    BY <2>2
<1>2. Ascending(I) \in Seq(I) /\ Len(Ascending(I)) = Cardinality(I) /\ Cardinality(I) \in Nat
  BY <1>1, AscendingListsAll, FS_CardinalityType
<1>3. \A n \in 1..Cardinality(I) : Ascending(I)[n] \in I
  BY <1>2
<1>4. Kept(R, I) = [n \in 1..Cardinality(I) |-> R[Ascending(I)[n]]]
  BY DEF Kept
<1> HIDE DEF BillRows
<1>5. \A n \in 1..Cardinality(I) : Kept(R, I)[n] = R[Ascending(I)[n]] /\ Kept(R, I)[n] \in BillRows
  <2> TAKE n \in 1..Cardinality(I)
  <2>1. PICK i \in I : i = Ascending(I)[n]
    BY <1>3
  <2>2. R[i] \in BillRows
    OBVIOUS
  <2> QED
    BY <1>4, <2>1, <2>2
<1>6. Kept(R, I) \in [1..Cardinality(I) -> BillRows]
  BY <1>4, <1>5
<1>7. Kept(R, I) \in Seq(BillRows)
  BY <1>2, <1>6
<1> QED
  BY <1>3, <1>4, <1>5, <1>7

\* What is owed on rows is a number.
LEMMA OwedIsNumber ==
    ASSUME NEW R, RowsTyped(R), NEW I \in SUBSET (1..Len(R))
    PROVE  IsFiniteSet(I) /\ Owed(R, I) \in Nat
<1>1. DOMAIN R = 1..Len(R) /\ \A i \in 1..Len(R) : R[i] \in BillRows /\ R[i].amount \in Nat
  <2>1. R \in Seq(BillRows)
    BY DEF RowsTyped
  <2>2. DOMAIN R = 1..Len(R) /\ \A i \in 1..Len(R) : R[i] \in BillRows
    BY <2>1
  <2> QED
    BY <2>2 DEF BillRows
<1>2. IsFiniteSet(I)
  <2>1. IsFiniteSet(1..Len(R))
    <3>1. Len(R) \in Nat
      BY DEF RowsTyped
    <3> QED
      BY <3>1, FS_Interval
  <2> QED
    BY <2>1, FS_Subset
<1> DEFINE f == [i \in DOMAIN R |-> R[i].amount]
<1>3. \A i \in I : f[i] \in Nat
  BY <1>1
<1>4. Owed(R, I) = SumFunctionOnSet(f, I)
  BY DEF Owed
<1> HIDE DEF f
<1> QED
  BY <1>2, <1>3, <1>4, SumType

\* A settlement takes from each open row what the older ones leave.
Left(R, credit, i) == credit - Owed(R, {j \in Open(R) : Before(R, j, i)})
TakenFrom(R, credit, i) ==
    IF i \notin Open(R) \/ Left(R, credit, i) <= 0 THEN 0
    ELSE IF Left(R, credit, i) < R[i].amount THEN Left(R, credit, i) ELSE R[i].amount
Settles(R, credit, U) ==
    /\ RowsTyped(U) /\ Len(U) = Len(R) /\ Open(U) \subseteq Open(R)
    /\ \A i \in 1..Len(R) :
          /\ U[i].src = R[i].src /\ U[i].bill = R[i].bill /\ U[i].loose = R[i].loose
          /\ U[i].void = R[i].void
          /\ i \notin Open(R) => U[i] = R[i]
          /\ i \in Open(R) => U[i] = [R[i] EXCEPT !.amount = U[i].amount, !.paid = U[i].paid]
          /\ U[i].amount = R[i].amount - TakenFrom(R, credit, i)
          /\ i \in Open(R) => (i \in Open(U) <=> U[i].amount # 0)

\* The operator Settle does that to typed rows, for any credit.
LEMMA SettleSettles ==
    ASSUME NEW R, RowsTyped(R), NEW credit \in Nat
    PROVE  Settles(R, credit, Settle(R, credit)) /\ \A i \in 1..Len(R) : Left(R, credit, i) \in Int
<1>1. R \in Seq(BillRows) /\ DOMAIN R = 1..Len(R) /\ Len(R) \in Nat
      /\ \A i \in 1..Len(R) : R[i].loose => R[i].src \in Bookings
  BY DEF RowsTyped
<1>2. Open(R) = {i \in 1..Len(R) : ~R[i].void /\ ~R[i].paid /\ R[i].amount > 0}
  BY <1>1 DEF Open
<1>3. ASSUME NEW i \in 1..Len(R) PROVE Left(R, credit, i) \in Int
  <2>1. {j \in Open(R) : Before(R, j, i)} \in SUBSET (1..Len(R))
    BY <1>2
  <2>2. Owed(R, {j \in Open(R) : Before(R, j, i)}) \in Nat
    BY <2>1, OwedIsNumber
  <2> QED
    BY <2>2 DEF Left
<1>4. PICK U : U = Settle(R, credit)
  OBVIOUS
<1>5. U = [i \in 1..Len(R) |->
            IF i \in Open(R) /\ Left(R, credit, i) > 0
            THEN [R[i] EXCEPT !.amount = @ - (IF Left(R, credit, i) < R[i].amount THEN Left(R, credit, i) ELSE R[i].amount),
                              !.paid = (IF Left(R, credit, i) < R[i].amount THEN Left(R, credit, i) ELSE R[i].amount) = R[i].amount]
            ELSE R[i]]
  BY <1>1, <1>4 DEF Settle, Left
<1>6. ASSUME NEW i \in 1..Len(R)
      PROVE  /\ U[i] \in BillRows
             /\ U[i].src = R[i].src /\ U[i].bill = R[i].bill /\ U[i].loose = R[i].loose
             /\ U[i].void = R[i].void
             /\ i \notin Open(R) => U[i] = R[i]
             /\ i \in Open(R) => U[i] = [R[i] EXCEPT !.amount = U[i].amount, !.paid = U[i].paid]
             /\ U[i].amount = R[i].amount - TakenFrom(R, credit, i)
             /\ i \in Open(R) => (U[i].paid <=> U[i].amount = 0)
  <2>1. R[i] \in BillRows
    BY <1>1
  <2>2. PICK left : left = Left(R, credit, i) /\ left \in Int
    BY <1>3
  <2>3. R[i].amount \in Nat /\ R[i].paid \in BOOLEAN /\ R[i].void \in BOOLEAN
    BY <2>1 DEF BillRows
  <2>4. i \in Open(R) => ~R[i].paid /\ R[i].amount > 0
    BY <1>2
  <2>5. CASE i \in Open(R) /\ left > 0
    <3> DEFINE got == IF left < R[i].amount THEN left ELSE R[i].amount
    <3>1. U[i] = [R[i] EXCEPT !.amount = R[i].amount - got, !.paid = got = R[i].amount]
      BY <1>5, <2>1, <2>2, <2>5 DEF BillRows
    <3>2. got \in Nat /\ got <= R[i].amount /\ got = TakenFrom(R, credit, i)
      BY <2>2, <2>3, <2>5 DEF TakenFrom
    <3> HIDE DEF got
    <3>3. R[i].amount - got \in Nat /\ (got = R[i].amount) \in BOOLEAN /\ (got = R[i].amount <=> R[i].amount - got = 0)
      BY <2>3, <3>2
    <3>4. /\ U[i] \in BillRows
          /\ U[i].src = R[i].src /\ U[i].bill = R[i].bill /\ U[i].loose = R[i].loose
          /\ U[i].void = R[i].void /\ U[i].amount = R[i].amount - got /\ U[i].paid = (got = R[i].amount)
      BY <2>1, <3>1, <3>3 DEF BillRows
    <3>5. U[i] = [R[i] EXCEPT !.amount = U[i].amount, !.paid = U[i].paid]
      BY <3>1, <3>4
    <3> QED
      BY <2>5, <3>2, <3>3, <3>4, <3>5
  <2>6. CASE ~(i \in Open(R) /\ left > 0)
    <3>1. U[i] = R[i]
      BY <1>5, <2>2, <2>6
    <3>2. TakenFrom(R, credit, i) = 0
      BY <2>2, <2>6 DEF TakenFrom
    <3>3. R[i] = [R[i] EXCEPT !.amount = R[i].amount, !.paid = R[i].paid]
      BY <2>1, Zenon DEF BillRows
    <3> QED
      BY <2>1, <2>3, <2>4, <3>1, <3>2, <3>3
  <2> QED
    BY <2>5, <2>6
<1>7. U \in [1..Len(R) -> BillRows]
  BY <1>5, <1>6, Zenon
<1>8. U \in Seq(BillRows) /\ Len(U) = Len(R) /\ DOMAIN U = 1..Len(R)
  <2> HIDE DEF BillRows
  <2>1. U \in Seq(BillRows) /\ DOMAIN U = 1..Len(R)
    BY <1>1, <1>7
  <2> QED
    BY <1>1, <2>1
<1>9. RowsTyped(U)
  BY <1>1, <1>6, <1>8 DEF RowsTyped
<1>10. ASSUME NEW i \in 1..Len(R)
       PROVE  /\ i \in Open(U) => i \in Open(R)
              /\ i \in Open(R) => (i \in Open(U) <=> U[i].amount # 0)
  <2>1. U[i] \in BillRows /\ U[i].amount \in Nat
    BY <1>6 DEF BillRows
  <2>2. i \in Open(U) <=> ~U[i].void /\ ~U[i].paid /\ U[i].amount > 0
    BY <1>8 DEF Open
  <2>3. i \notin Open(R) => U[i] = R[i]
    BY <1>6, ZenonT(40)
  <2>4. i \in Open(R) => ~U[i].void /\ (U[i].paid <=> U[i].amount = 0)
    BY <1>2, <1>6
  <2> QED
    BY <1>2, <2>1, <2>2, <2>3, <2>4
<1>11. Open(U) \subseteq Open(R)
  BY <1>8, <1>10 DEF Open
<1>12. Settles(R, credit, U)
  BY <1>6, <1>8, <1>9, <1>10, <1>11 DEF Settles
<1> QED
  BY <1>3, <1>4, <1>12

\* The order in which open rows are settled.
Turn(R, i) == IF R[i].src \in Backdated THEN i ELSE Len(R) + i

\* By its turn one open row comes before another as Before says.
LEMMA TurnsOrder ==
    ASSUME NEW R, Len(R) \in Nat
    PROVE  \A i, j \in 1..Len(R) : /\ Turn(R, i) \in Nat /\ (Before(R, i, j) <=> Turn(R, i) < Turn(R, j))
                                   /\ (Turn(R, i) = Turn(R, j) => i = j)
  BY DEF Turn, Before

\* Of any rows one comes before all others, and one after all others.
LEMMA FirstAndLastTurn ==
    ASSUME NEW R, RowsTyped(R), NEW S \in SUBSET (1..Len(R)), S # {}
    PROVE  /\ \E i \in S : \A k \in S \ {i} : Before(R, i, k)
           /\ \E i \in S : \A k \in S \ {i} : Before(R, k, i)
<1>1. Len(R) \in Nat
  BY DEF RowsTyped
<1> DEFINE K == {Turn(R, i) : i \in S}
<1>2. \A i, j \in 1..Len(R) : /\ Turn(R, i) \in Nat /\ (Before(R, i, j) <=> Turn(R, i) < Turn(R, j))
                              /\ (Turn(R, i) = Turn(R, j) => i = j)
  BY <1>1, TurnsOrder
<1>3. K \in SUBSET Nat /\ K # {}
  <2>1. \A i \in S : Turn(R, i) \in Nat
    BY <1>2
  <2>2. \E i \in S : TRUE
    OBVIOUS
  <2> QED
    BY <2>1, <2>2
<1>4. IsFiniteSet(K)
  <2>1. \A i \in S : Turn(R, i) \in 0..(Len(R) + Len(R))
    BY <1>1 DEF Turn
  <2>2. K \in SUBSET (0..(Len(R) + Len(R)))
    BY <2>1
  <2>3. IsFiniteSet(0..(Len(R) + Len(R)))
    <3>1. 0 \in Int /\ Len(R) + Len(R) \in Int
      BY <1>1
    <3> QED
      BY <3>1, FS_Interval
  <2> HIDE DEF K
  <2> QED
    BY <2>2, <2>3, FS_Subset
<1>5. /\ \E m \in K : \A x \in K : m <= x
      /\ \E m \in K : \A x \in K : x <= m
  <2> HIDE DEF K
  <2> QED
    BY <1>3, <1>4, GreatestAndLeast
<1>6. \E i \in S : \A k \in S : Turn(R, i) <= Turn(R, k)
  BY <1>5
<1>7. \E i \in S : \A k \in S : Turn(R, k) <= Turn(R, i)
  BY <1>5
<1>8. \A i, k \in S : Turn(R, i) <= Turn(R, k) /\ k # i => Before(R, i, k)
  BY <1>2
<1> QED
  BY <1>6, <1>7, <1>8

\* What is owed on some rows, and on one more.
LEMMA OwedOnOneMore ==
    ASSUME NEW R, RowsTyped(R), NEW I \in SUBSET (1..Len(R)), NEW i \in 1..Len(R), i \notin I
    PROVE  Owed(R, I \cup {i}) = Owed(R, I) + R[i].amount
<1> DEFINE f == [j \in DOMAIN R |-> R[j].amount]
<1>1. \A j \in 1..Len(R) : f[j] \in Nat /\ f[j] = R[j].amount
  <2>1. R \in Seq(BillRows)
    BY DEF RowsTyped
  <2>2. DOMAIN R = 1..Len(R) /\ \A j \in 1..Len(R) : R[j] \in BillRows
    BY <2>1
  <2> QED
    BY <2>2 DEF BillRows
<1>2. Owed(R, I \cup {i}) = SumFunctionOnSet(f, I \cup {i}) /\ Owed(R, I) = SumFunctionOnSet(f, I)
  BY DEF Owed
<1>3. I \cup {i} \in SUBSET (1..Len(R)) /\ (I \cup {i}) \ {i} = I
  OBVIOUS
<1>4. IsFiniteSet(I \cup {i})
  BY <1>3, OwedIsNumber
<1>5. Owed(R, I) \in Nat
  BY OwedIsNumber
<1> HIDE DEF f
<1>6. PICK J : J = I \cup {i}
  OBVIOUS
<1>7. \A x \in J : f[x] \in Int
  BY <1>1, <1>3, <1>6
<1>8. SumFunctionOnSet(f, J) = f[i] + SumFunctionOnSet(f, J \ {i})
  BY <1>4, <1>6, <1>7, SumRemove, ZenonT(40)
<1>9. Owed(R, I \cup {i}) = f[i] + Owed(R, I)
  BY <1>2, <1>3, <1>6, <1>8
<1>10. f[i] = R[i].amount /\ f[i] \in Nat
  BY <1>1
<1> QED
  BY <1>5, <1>9, <1>10

\* What is owed on two parts of the rows adds up.
LEMMA OwedInParts ==
    ASSUME NEW R, RowsTyped(R), NEW J \in SUBSET (1..Len(R)), NEW I \in SUBSET J
    PROVE  /\ Owed(R, J) = Owed(R, I) + Owed(R, J \ I)
           /\ Owed(R, I) \in Nat /\ Owed(R, J) \in Nat /\ Owed(R, J \ I) \in Nat
<1> DEFINE f == [j \in DOMAIN R |-> R[j].amount]
<1>1. \A j \in 1..Len(R) : f[j] \in Nat
  <2>1. R \in Seq(BillRows)
    BY DEF RowsTyped
  <2>2. DOMAIN R = 1..Len(R) /\ \A j \in 1..Len(R) : R[j] \in BillRows
    BY <2>1
  <2> QED
    BY <2>2 DEF BillRows
<1>2. /\ Owed(R, J) = SumFunctionOnSet(f, J) /\ Owed(R, I) = SumFunctionOnSet(f, I)
      /\ Owed(R, J \ I) = SumFunctionOnSet(f, J \ I)
  BY DEF Owed
<1>3. I \in SUBSET (1..Len(R)) /\ J \ I \in SUBSET (1..Len(R))
  OBVIOUS
<1>4. IsFiniteSet(J) /\ Owed(R, J) \in Nat
  BY OwedIsNumber
<1>5. Owed(R, I) \in Nat /\ Owed(R, J \ I) \in Nat
  BY <1>3, OwedIsNumber
<1> HIDE DEF f
<1>6. \A x \in J : f[x] \in Int
  BY <1>1
<1>7. SumFunctionOnSet(f, J) = SumFunctionOnSet(f, I) + SumFunctionOnSet(f, J \ I)
  BY <1>4, <1>6, SumSplit
<1> QED
  BY <1>2, <1>4, <1>5, <1>7

\* What is older than an open row.
Older(R, i) == {j \in Open(R) : Before(R, j, i)}

\* What is older than an open row does not include it, so all of it is owed besides.
LEMMA OlderIsLess ==
    ASSUME NEW R, RowsTyped(R), NEW i \in Open(R)
    PROVE  /\ Open(R) \in SUBSET (1..Len(R)) /\ i \in 1..Len(R)
           /\ Older(R, i) \in SUBSET Open(R) /\ i \notin Older(R, i)
           /\ Owed(R, Older(R, i)) \in Nat /\ R[i].amount \in Nat /\ R[i].amount > 0
           /\ Owed(R, Older(R, i) \cup {i}) = Owed(R, Older(R, i)) + R[i].amount
           /\ Left(R, 0, i) = 0 - Owed(R, Older(R, i))
           /\ \A J \in SUBSET (1..Len(R)) : Older(R, i) \cup {i} \subseteq J =>
                 Owed(R, J) >= Owed(R, Older(R, i)) + R[i].amount
<1>1. Len(R) \in Nat /\ R \in Seq(BillRows) /\ DOMAIN R = 1..Len(R)
  BY DEF RowsTyped
<1>2. Open(R) \in SUBSET (1..Len(R)) /\ i \in 1..Len(R)
  BY <1>1 DEF Open
<1>3. R[i].amount \in Nat /\ R[i].amount > 0
  <2>1. R[i] \in BillRows
    BY <1>1, <1>2
  <2> QED
    BY <2>1 DEF BillRows, Open
<1>4. Older(R, i) \in SUBSET Open(R) /\ i \notin Older(R, i)
  <2>1. ~Before(R, i, i)
    BY <1>1, <1>2, TurnsOrder
  <2> QED
    BY <2>1 DEF Older
<1>5. Older(R, i) \in SUBSET (1..Len(R))
  BY <1>2, <1>4
<1>6. Owed(R, Older(R, i)) \in Nat
  BY <1>5, OwedIsNumber
<1>7. Owed(R, Older(R, i) \cup {i}) = Owed(R, Older(R, i)) + R[i].amount
  BY <1>2, <1>4, <1>5, OwedOnOneMore
<1>8. ASSUME NEW J \in SUBSET (1..Len(R)), Older(R, i) \cup {i} \subseteq J
      PROVE  Owed(R, J) >= Owed(R, Older(R, i)) + R[i].amount
  <2>1. PICK I : I = Older(R, i) \cup {i}
    OBVIOUS
  <2>2. I \in SUBSET J
    BY <1>8, <2>1
  <2>3. Owed(R, J) = Owed(R, I) + Owed(R, J \ I) /\ Owed(R, I) \in Nat /\ Owed(R, J) \in Nat /\ Owed(R, J \ I) \in Nat
    BY <2>2, OwedInParts
  <2> QED
    BY <1>3, <1>6, <1>7, <2>1, <2>3
<1>9. Left(R, 0, i) = 0 - Owed(R, Older(R, i))
  BY DEF Left, Older
<1> QED
  BY <1>2, <1>3, <1>4, <1>6, <1>7, <1>8, <1>9

\* An older open row leaves less for the newer one.
LEMMA NewerHasLess ==
    ASSUME NEW R, RowsTyped(R), NEW i \in Open(R), NEW j \in Open(R), Before(R, i, j)
    PROVE  Owed(R, Older(R, j)) >= Owed(R, Older(R, i)) + R[i].amount
<1>1. Open(R) \in SUBSET (1..Len(R)) /\ Older(R, j) \in SUBSET Open(R) /\ Len(R) \in Nat
  <2>1. Open(R) \in SUBSET (1..Len(R))
    BY OlderIsLess
  <2>2. Older(R, j) \in SUBSET Open(R)
    BY OlderIsLess
  <2>3. Len(R) \in Nat
    BY DEF RowsTyped
  <2> QED
    BY <2>1, <2>2, <2>3
<1>2. \A k \in 1..Len(R) : Before(R, k, i) => Before(R, k, j)
  BY <1>1, TurnsOrder
<1>3. Older(R, i) \cup {i} \subseteq Older(R, j)
  BY <1>1, <1>2 DEF Older
<1> QED
  BY <1>1, <1>3, OlderIsLess

\* A settlement lowers what is owed on the open rows by its amount, down to nothing.
LEMMA SettlementTakes ==
    ASSUME NEW R, RowsTyped(R), NEW credit \in Nat, NEW U, Settles(R, credit, U)
    PROVE  Owed(U, Open(U)) = IF Owed(R, Open(R)) > credit THEN Owed(R, Open(R)) - credit ELSE 0
<1> DEFINE P(i) == Owed(R, Older(R, i))
           all == Owed(R, Open(R))
<1>1. /\ Len(R) \in Nat /\ Len(U) = Len(R) /\ DOMAIN R = 1..Len(R) /\ DOMAIN U = 1..Len(R)
      /\ Open(U) \subseteq Open(R) /\ RowsTyped(U)
  <2>1. R \in Seq(BillRows) /\ U \in Seq(BillRows) /\ Len(U) = Len(R)
    BY DEF Settles, RowsTyped
  <2>2. RowsTyped(U) /\ Open(U) \subseteq Open(R)
    BY DEF Settles
  <2>3. Len(R) \in Nat /\ Len(U) = Len(R) /\ DOMAIN R = 1..Len(R) /\ DOMAIN U = 1..Len(U)
    BY <2>1
  <2> QED
    BY <2>2, <2>3
<1>2. Open(R) \in SUBSET (1..Len(R)) /\ all \in Nat /\ IsFiniteSet(Open(R))
  <2>1. Open(R) \in SUBSET (1..Len(R))
    BY <1>1 DEF Open
  <2> QED
    BY <2>1, OwedIsNumber
<1>3. ASSUME NEW i \in Open(R)
      PROVE  /\ i \in 1..Len(R) /\ Older(R, i) \in SUBSET Open(R) /\ i \notin Older(R, i)
             /\ P(i) \in Nat /\ R[i].amount \in Nat /\ R[i].amount > 0
             /\ Owed(R, Older(R, i) \cup {i}) = P(i) + R[i].amount
             /\ P(i) + R[i].amount <= all
             /\ Left(R, credit, i) = credit - P(i)
  <2>1. /\ i \in 1..Len(R) /\ Older(R, i) \in SUBSET Open(R) /\ i \notin Older(R, i)
        /\ P(i) \in Nat /\ R[i].amount \in Nat /\ R[i].amount > 0
        /\ Owed(R, Older(R, i) \cup {i}) = P(i) + R[i].amount
    BY OlderIsLess
  <2>2. all >= P(i) + R[i].amount
    <3>1. Older(R, i) \cup {i} \subseteq Open(R)
      BY <2>1
    <3> QED
      BY <1>2, <3>1, OlderIsLess
  <2>3. Left(R, credit, i) = credit - P(i)
    BY DEF Left, Older
  <2> QED
    BY <1>2, <2>1, <2>2, <2>3
<1>4. ASSUME NEW i \in Open(R)
      PROVE  /\ U[i].amount = R[i].amount - TakenFrom(R, credit, i)
             /\ i \in Open(U) <=> U[i].amount # 0
             /\ credit >= P(i) + R[i].amount => i \notin Open(U)
             /\ credit <= P(i) => i \in Open(U) /\ U[i].amount = R[i].amount
             /\ credit >= P(i) /\ credit < P(i) + R[i].amount =>
                   i \in Open(U) /\ U[i].amount = P(i) + R[i].amount - credit
  <2>1. i \in 1..Len(R)
    BY <1>3
  <2>2. U[i].amount = R[i].amount - TakenFrom(R, credit, i) /\ (i \in Open(U) <=> U[i].amount # 0)
    BY <2>1 DEF Settles
  <2>3. TakenFrom(R, credit, i) = IF credit - P(i) <= 0 THEN 0
                                  ELSE IF credit - P(i) < R[i].amount THEN credit - P(i) ELSE R[i].amount
    BY <1>3 DEF TakenFrom
  <2>4. PICK p : p = P(i) /\ p \in Nat
    BY <1>3
  <2>5. PICK a : a = R[i].amount /\ a \in Nat /\ a > 0
    BY <1>3
  <2> HIDE DEF P
  <2> QED
    BY <2>2, <2>3, <2>4, <2>5
<1> HIDE DEF P, all
<1>5. CASE ~(all > credit)
  <2>1. ASSUME NEW i \in Open(R) PROVE i \notin Open(U)
    <3>1. P(i) + R[i].amount <= all /\ P(i) \in Nat /\ R[i].amount \in Nat
      BY <1>3
    <3>2. credit >= P(i) + R[i].amount
      BY <1>2, <1>5, <3>1
    <3> QED
      BY <1>4, <3>2
  <2>2. Open(U) = {}
    BY <1>1, <2>1
  <2>3. Owed(U, {}) = 0
    <3> DEFINE f == [i \in DOMAIN U |-> U[i].amount]
    <3>1. IsFiniteSet({})
      BY FS_EmptySet
    <3>2. Owed(U, {}) = SumFunctionOnSet(f, {})
      BY DEF Owed
    <3> HIDE DEF f
    <3> QED
      BY <3>1, <3>2, SumZero
  <2> QED
    BY <1>5, <2>2, <2>3 DEF all
<1>6. CASE all > credit
  <2> DEFINE K == {k \in Open(R) : P(k) + R[k].amount > credit}
  <2>1. K # {}
    <3>1. Open(R) # {}
      <4>1. Owed(R, {}) = 0
        <5> DEFINE f == [i \in DOMAIN R |-> R[i].amount]
        <5>1. IsFiniteSet({})
          BY FS_EmptySet
        <5>2. Owed(R, {}) = SumFunctionOnSet(f, {})
          BY DEF Owed
        <5> HIDE DEF f
        <5> QED
          BY <5>1, <5>2, SumZero
      <4> QED
        BY <1>6, <4>1 DEF all
    <3>2. PICK j \in Open(R) : \A k \in Open(R) \ {j} : Before(R, k, j)
      BY <1>2, <3>1, FirstAndLastTurn
    <3>3. Open(R) = Older(R, j) \cup {j}
      BY <1>3, <3>2 DEF Older
    <3>4. all = P(j) + R[j].amount
      BY <1>3, <3>3 DEF all
    <3> QED
      BY <1>6, <3>4
  <2>2. PICK i \in K : \A k \in K \ {i} : Before(R, i, k)
    <3>1. K \in SUBSET (1..Len(R))
      BY <1>2
    <3> HIDE DEF K
    <3> QED
      BY <2>1, <3>1, FirstAndLastTurn
  <2>3. i \in Open(R) /\ P(i) + R[i].amount > credit /\ i \in 1..Len(R)
    BY <1>2
  <2>4. \A k, l \in 1..Len(R) : /\ Before(R, k, l) => ~Before(R, l, k) /\ k # l
                                /\ k # l => Before(R, k, l) \/ Before(R, l, k)
    <3>1. \A k, l \in 1..Len(R) : /\ Turn(R, k) \in Nat /\ (Before(R, k, l) <=> Turn(R, k) < Turn(R, l))
                                  /\ (Turn(R, k) = Turn(R, l) => k = l)
      BY <1>1, TurnsOrder
    <3> QED
      BY <3>1
  <2>5. \A k \in Older(R, i) : k \in Open(R) /\ k \in 1..Len(R) /\ P(k) + R[k].amount <= credit
    <3> TAKE k \in Older(R, i)
    <3>1. k \in Open(R) /\ k \in 1..Len(R) /\ Before(R, k, i)
      BY <1>2 DEF Older
    <3>2. k \notin K
      BY <2>2, <2>3, <2>4, <3>1
    <3>3. P(k) \in Nat /\ R[k].amount \in Nat
      BY <1>3, <3>1
    <3>4. ~(P(k) + R[k].amount > credit)
      BY <3>1, <3>2
    <3> QED
      BY <3>1, <3>3, <3>4
  <2>6. P(i) <= credit
    <3>1. CASE Older(R, i) = {}
      <4>1. Owed(R, {}) = 0
        <5> DEFINE f == [j \in DOMAIN R |-> R[j].amount]
        <5>1. IsFiniteSet({})
          BY FS_EmptySet
        <5>2. Owed(R, {}) = SumFunctionOnSet(f, {})
          BY DEF Owed
        <5> HIDE DEF f
        <5> QED
          BY <5>1, <5>2, SumZero
      <4> QED
        BY <3>1, <4>1 DEF P
    <3>2. CASE Older(R, i) # {}
      <4>1. Older(R, i) \in SUBSET (1..Len(R))
        BY <2>5
      <4>2. PICK j \in Older(R, i) : \A k \in Older(R, i) \ {j} : Before(R, k, j)
        BY <3>2, <4>1, FirstAndLastTurn
      <4>3. j \in Open(R) /\ Before(R, j, i)
        BY DEF Older
      <4>4. Older(R, i) = Older(R, j) \cup {j}
        <5>1. Older(R, i) \subseteq Older(R, j) \cup {j}
          BY <2>5, <4>2 DEF Older
        <5>2. \A k \in 1..Len(R) : Before(R, k, j) => Before(R, k, i)
          <6>1. \A k, l \in 1..Len(R) : Turn(R, k) \in Nat /\ (Before(R, k, l) <=> Turn(R, k) < Turn(R, l))
            BY <1>1, TurnsOrder
          <6>2. j \in 1..Len(R)
            BY <1>2, <4>3
          <6> QED
            BY <2>3, <4>3, <6>1, <6>2
        <5> QED
          BY <1>2, <4>3, <5>1, <5>2 DEF Older
      <4>5. P(i) = P(j) + R[j].amount
        BY <1>3, <4>3, <4>4 DEF P
      <4> QED
        BY <2>5, <4>5
    <3> QED
      BY <3>1, <3>2
  <2> DEFINE newer == {k \in Open(R) : Before(R, i, k)}
  <2>7. newer \in SUBSET (1..Len(R)) /\ i \notin newer
    BY <1>2, <2>3, <2>4
  <2>8. Open(R) = Older(R, i) \cup (newer \cup {i}) /\ Older(R, i) \cap (newer \cup {i}) = {}
    BY <1>2, <2>3, <2>4 DEF Older
  <2>9. \A k \in newer : k \in Open(U) /\ U[k].amount = R[k].amount
    <3> TAKE k \in newer
    <3>1. P(k) >= P(i) + R[i].amount
      BY <2>3, NewerHasLess DEF P
    <3>2. P(k) \in Nat /\ P(i) \in Nat /\ R[i].amount \in Nat
      BY <1>3, <2>3
    <3>3. credit <= P(k)
      BY <2>3, <3>1, <3>2
    <3> QED
      BY <1>4, <3>3
  <2>10. i \in Open(U) /\ U[i].amount = P(i) + R[i].amount - credit
    BY <1>4, <2>3, <2>6
  <2>11. \A k \in Older(R, i) : k \notin Open(U)
    BY <1>4, <2>5
  <2>12. Open(U) = newer \cup {i}
    BY <1>1, <2>8, <2>9, <2>10, <2>11
  <2> HIDE DEF newer
  <2>13. Owed(U, newer) = Owed(R, newer) /\ Owed(R, newer) \in Nat
    <3> DEFINE f == [j \in DOMAIN R |-> R[j].amount]
               g == [j \in DOMAIN U |-> U[j].amount]
    <3>1. IsFiniteSet(newer) /\ Owed(R, newer) \in Nat
      BY <2>7, OwedIsNumber
    <3>2. \A k \in newer : f[k] = R[k].amount /\ g[k] = U[k].amount
      BY <1>1, <2>7
    <3>3. \A k \in newer : f[k] \in Int /\ g[k] = f[k]
      <4> TAKE k \in newer
      <4>1. k \in Open(R)
        BY <2>8
      <4>2. R[k].amount \in Nat /\ U[k].amount = R[k].amount
        BY <1>3, <2>9, <4>1
      <4>3. f[k] = R[k].amount /\ g[k] = U[k].amount
        BY <3>2
      <4> QED
        BY <4>2, <4>3
    <3>4. Owed(R, newer) = SumFunctionOnSet(f, newer) /\ Owed(U, newer) = SumFunctionOnSet(g, newer)
      BY DEF Owed
    <3> HIDE DEF f, g
    <3> QED
      BY <3>1, <3>3, <3>4, SumSame
  <2>14. Owed(U, newer \cup {i}) = Owed(U, newer) + U[i].amount
    <3>1. newer \in SUBSET (1..Len(U)) /\ i \in 1..Len(U)
      BY <1>1, <2>3, <2>7
    <3> QED
      BY <1>1, <2>7, <3>1, OwedOnOneMore
  <2>15. all = P(i) + Owed(R, newer) + R[i].amount
    <3>1. Open(R) \ Older(R, i) = newer \cup {i}
      BY <2>8
    <3>2. Older(R, i) \in SUBSET Open(R)
      BY <1>3, <2>3
    <3>3. all = P(i) + Owed(R, newer \cup {i})
      <4>1. PICK I, J : I = Older(R, i) /\ J = newer \cup {i}
        OBVIOUS
      <4>2. I \in SUBSET Open(R) /\ Open(R) \ I = J
        BY <3>1, <3>2, <4>1
      <4>3. Owed(R, Open(R)) = Owed(R, I) + Owed(R, Open(R) \ I)
        BY <1>2, <4>2, OwedInParts
      <4> QED
        BY <4>1, <4>2, <4>3 DEF all, P
    <3>4. Owed(R, newer \cup {i}) = Owed(R, newer) + R[i].amount
      BY <2>3, <2>7, OwedOnOneMore
    <3>5. P(i) \in Nat /\ R[i].amount \in Nat /\ Owed(R, newer) \in Nat
      BY <1>3, <2>3, <2>13
    <3>6. all = P(i) + (Owed(R, newer) + R[i].amount)
      BY <3>3, <3>4
    <3> QED
      BY ONLY <3>5, <3>6
  <2>16. P(i) \in Nat /\ R[i].amount \in Nat
    BY <1>3, <2>3
  <2>17. Owed(U, Open(U)) = all - credit
    <3>1. Owed(U, Open(U)) = Owed(R, newer) + (P(i) + R[i].amount - credit)
      BY <2>10, <2>12, <2>13, <2>14
    <3>2. PICK n, p, a : n = Owed(R, newer) /\ p = P(i) /\ a = R[i].amount /\ n \in Nat /\ p \in Nat /\ a \in Nat
      BY <2>13, <2>16
    <3>3. all = p + n + a /\ Owed(U, Open(U)) = n + (p + a - credit)
      BY <2>15, <3>1, <3>2
    <3> QED
      BY <3>2, <3>3
  <2> QED
    BY <1>6, <2>17 DEF all
<1> QED
  BY <1>5, <1>6

\* A row that stays open after a settlement leaves the newer ones untouched.
LEMMA NewerUntouched ==
    ASSUME NEW R, RowsTyped(R), NEW credit \in Nat, NEW U, Settles(R, credit, U),
           NEW i \in Open(U), NEW j \in 1..Len(R), Before(R, i, j)
    PROVE  U[j] = R[j] \/ (U[j].amount = R[j].amount /\ j \in Open(R))
<1>1. i \in Open(R) /\ Open(R) \in SUBSET (1..Len(R))
  <2>1. DOMAIN R = 1..Len(R)
    BY DEF RowsTyped
  <2> QED
    BY <2>1 DEF Settles, Open
<1>2. CASE j \notin Open(R)
  BY <1>2 DEF Settles
<1>3. CASE j \in Open(R)
  <2>1. Owed(R, Older(R, j)) >= Owed(R, Older(R, i)) + R[i].amount
    BY <1>1, <1>3, NewerHasLess
  <2>2. PICK p, q, a, b : /\ p = Owed(R, Older(R, i)) /\ q = Owed(R, Older(R, j))
                          /\ a = R[i].amount /\ b = R[j].amount
                          /\ p \in Nat /\ q \in Nat /\ a \in Nat /\ b \in Nat /\ a > 0
    BY <1>1, <1>3, OlderIsLess
  <2>3. /\ TakenFrom(R, credit, i) = IF credit - p <= 0 THEN 0 ELSE IF credit - p < a THEN credit - p ELSE a
        /\ TakenFrom(R, credit, j) = IF credit - q <= 0 THEN 0 ELSE IF credit - q < b THEN credit - q ELSE b
    BY <1>1, <1>3, <2>2 DEF TakenFrom, Left, Older
  <2>4. /\ U[i].amount = a - TakenFrom(R, credit, i) /\ U[i].amount # 0
        /\ U[j].amount = b - TakenFrom(R, credit, j)
    BY <1>1, <2>2 DEF Settles
  <2>5. TakenFrom(R, credit, j) = 0
    <3>1. q >= p + a
      BY <2>1, <2>2
    <3>2. credit - p < a
      <4>1. PICK t : t = TakenFrom(R, credit, i)
        OBVIOUS
      <4>2. a - t # 0 /\ t = IF credit - p <= 0 THEN 0 ELSE IF credit - p < a THEN credit - p ELSE a
        BY <2>3, <2>4, <4>1
      <4>3. credit \in Nat /\ p \in Nat /\ a \in Nat /\ a > 0
        BY <2>2
      <4> QED
        BY ONLY <4>2, <4>3
    <3> QED
      BY <2>2, <2>3, <3>1, <3>2
  <2>6. U[j].amount = R[j].amount
    BY <2>2, <2>4, <2>5
  <2> QED
    BY <1>3, <2>6
<1> QED
  BY <1>2, <1>3, ZenonT(40)

------------------------------------------------------------------------------
\* The payments are replayed one after another.
Replays(f, R, PAY) ==
    f = [p \in 0..LastPayment |-> IF p = 0 THEN R ELSE Settle(f[p - 1], Credit(PAY[p]))]

\* A void or negative receipt settles nothing.
LEMMA CreditIsNumber ==
    ASSUME NEW PAY \in [Payments -> Receipts], NEW p \in 1..LastPayment
    PROVE  Credit(PAY[p]) \in Nat
<1>1. PAY[p] \in Receipts
  BY DEF Payments
<1> QED
  BY <1>1 DEF Receipts, Credit

\* There is such a function, so Replayed is the last of its steps.
LEMMA PaymentsOneByOne ==
    ASSUME NEW R, RowsTyped(R), NEW PAY \in [Payments -> Receipts]
    PROVE  \E f : Replays(f, R, PAY)
<1> DEFINE V == {T \in Seq(BillRows) : RowsTyped(T)}
           k == LastPayment
           step == [e \in (1..k) \X V |-> Settle(e[2], Credit(PAY[e[1]]))]
<1>1. k \in Nat /\ R \in V
  BY AmountsAssumption DEF RowsTyped
<1>2. ASSUME NEW n \in 1..k, NEW T \in V
      PROVE  /\ step[<<n, T>>] = Settle(T, Credit(PAY[n]))
             /\ step[<<n, T>>] \in V
  <2>1. RowsTyped(T) /\ Credit(PAY[n]) \in Nat
    BY CreditIsNumber
  <2>2. PICK c, U : c = Credit(PAY[n]) /\ U = Settle(T, c)
    OBVIOUS
  <2>3. Settles(T, c, U)
    BY <2>1, <2>2, SettleSettles
  <2>4. U \in V
    BY <2>3 DEF Settles, RowsTyped
  <2>5. step[<<n, T>>] = U
    BY <2>2
  <2> QED
    BY <2>2, <2>4, <2>5
<1> HIDE DEF V, step
<1>3. PICK f : /\ f = [n \in 0..k |-> IF n = 0 THEN R ELSE step[<<n, f[n - 1]>>]]
               /\ \A n \in 0..k : f[n] \in V
  <2> HIDE DEF k
  <2>1. PICK r, W, st, l : r = R /\ W = V /\ st = step /\ l = k
    OBVIOUS
  <2>2. r \in W /\ l \in Nat /\ \A n \in 1..l : \A x \in W : st[<<n, x>>] \in W
    BY <1>1, <1>2, <2>1
  <2>3. \E f : Walks(f, W, r, l, st)
    BY ONLY <2>2, StepByStep
  <2> QED
    BY <2>1, <2>3 DEF Walks
<1>4. \A n \in 0..k : f[n] = IF n = 0 THEN R ELSE Settle(f[n - 1], Credit(PAY[n]))
  <2> TAKE n \in 0..k
  <2>1. f[n] = IF n = 0 THEN R ELSE step[<<n, f[n - 1]>>]
    BY <1>3
  <2>2. CASE n = 0
    BY <2>1, <2>2
  <2>3. CASE n # 0
    <3>1. n \in 1..k /\ n - 1 \in 0..k
      BY <1>1, <2>3
    <3> QED
      BY <1>2, <1>3, <2>1, <2>3, <3>1
  <2> QED
    BY <2>2, <2>3
<1>5. f = [n \in 0..k |-> f[n]]
  BY <1>3
<1>6. Replays(f, R, PAY)
  BY <1>4, <1>5 DEF Replays
<1> QED
  BY <1>6

\* Rows after some payments are the rows before them with less due on the open ones,
\* and whatever is newer than a row still open is as it was.
AfterPayments(R, T) ==
    /\ RowsTyped(T) /\ Len(T) = Len(R) /\ Open(T) \subseteq Open(R)
    /\ \A i \in 1..Len(R) :
          /\ T[i].src = R[i].src /\ T[i].bill = R[i].bill /\ T[i].loose = R[i].loose /\ T[i].void = R[i].void
          /\ i \notin Open(R) => T[i] = R[i]
          /\ i \in Open(R) => T[i] = [R[i] EXCEPT !.amount = T[i].amount, !.paid = T[i].paid]
    /\ \A i \in Open(T), j \in 1..Len(R) : Before(R, i, j) => T[j].amount = R[j].amount

\* Before the first payment nothing is changed.
LEMMA NoPaymentYet ==
    ASSUME NEW R, RowsTyped(R)
    PROVE  AfterPayments(R, R)
<1>1. Len(R) \in Nat /\ \A i \in 1..Len(R) : R[i] \in BillRows
  BY DEF RowsTyped
<1>2. \A i \in 1..Len(R) : R[i] = [R[i] EXCEPT !.amount = R[i].amount, !.paid = R[i].paid]
  BY <1>1 DEF BillRows
<1> QED
  BY <1>2 DEF AfterPayments

\* One more payment keeps that: it lowers open rows, the oldest first.
LEMMA OnePaymentMore ==
    ASSUME NEW R, RowsTyped(R), NEW T, AfterPayments(R, T), NEW credit \in Nat, NEW U, Settles(T, credit, U)
    PROVE  AfterPayments(R, U)
<1>1. /\ RowsTyped(T) /\ RowsTyped(U) /\ Len(T) = Len(R) /\ Len(U) = Len(R)
      /\ Open(T) \subseteq Open(R) /\ Open(U) \subseteq Open(T)
  BY DEF AfterPayments, Settles
<1>2. Len(R) \in Nat /\ DOMAIN U = 1..Len(R) /\ DOMAIN T = 1..Len(R)
  BY <1>1 DEF RowsTyped
<1>3. \A i \in 1..Len(R) :
          /\ T[i].src = R[i].src /\ T[i].bill = R[i].bill /\ T[i].loose = R[i].loose /\ T[i].void = R[i].void
          /\ i \notin Open(R) => T[i] = R[i]
          /\ i \in Open(R) => T[i] = [R[i] EXCEPT !.amount = T[i].amount, !.paid = T[i].paid]
  BY DEF AfterPayments
<1>4. \A i \in 1..Len(R) :
          /\ U[i].src = T[i].src /\ U[i].bill = T[i].bill /\ U[i].loose = T[i].loose /\ U[i].void = T[i].void
          /\ i \notin Open(T) => U[i] = T[i]
          /\ i \in Open(T) => U[i] = [T[i] EXCEPT !.amount = U[i].amount, !.paid = U[i].paid]
  BY <1>1, Zenon DEF Settles
<1>5. ASSUME NEW i \in 1..Len(R)
      PROVE  /\ U[i].src = R[i].src /\ U[i].bill = R[i].bill /\ U[i].loose = R[i].loose /\ U[i].void = R[i].void
             /\ i \notin Open(R) => U[i] = R[i]
             /\ i \in Open(R) => U[i] = [R[i] EXCEPT !.amount = U[i].amount, !.paid = U[i].paid]
  <2>1. R[i] \in BillRows /\ T[i] \in BillRows
    BY <1>1 DEF RowsTyped
  <2>2. ASSUME i \in Open(R) PROVE U[i] = [R[i] EXCEPT !.amount = U[i].amount, !.paid = U[i].paid]
    <3>1. PICK r, t, u, a, p, b, q :
              /\ r = R[i] /\ t = T[i] /\ u = U[i]
              /\ a = T[i].amount /\ p = T[i].paid /\ b = U[i].amount /\ q = U[i].paid
      OBVIOUS
    <3>2. r \in BillRows /\ t = [r EXCEPT !.amount = a, !.paid = p]
      BY <1>3, <2>1, <2>2, <3>1
    <3>3. (u = t /\ b = a /\ q = p) \/ u = [t EXCEPT !.amount = b, !.paid = q]
      BY <1>4, <3>1
    <3>4. u = [r EXCEPT !.amount = b, !.paid = q]
      BY <3>2, <3>3 DEF BillRows
    <3> QED
      BY <3>1, <3>4
  <2> QED
    BY <1>1, <1>3, <1>4, <2>2, ZenonT(40)
<1>6. ASSUME NEW i \in Open(U), NEW j \in 1..Len(R), Before(R, i, j) PROVE U[j].amount = R[j].amount
  <2>1. i \in Open(T) /\ i \in 1..Len(R)
    BY <1>1, <1>2 DEF Open
  <2>2. T[j].amount = R[j].amount
    BY <1>6, <2>1 DEF AfterPayments
  <2>3. Before(T, i, j)
    BY <1>3, <1>6, <2>1 DEF Before
  <2>4. U[j] = T[j] \/ (U[j].amount = T[j].amount /\ j \in Open(T))
    BY <1>1, <2>3, NewerUntouched
  <2> QED
    BY <2>2, <2>4
<1> QED
  BY <1>1, <1>5, <1>6 DEF AfterPayments

\* All payments together.
LEMMA PaymentsAreReplayed ==
    ASSUME NEW R, RowsTyped(R), NEW PAY \in [Payments -> Receipts], NEW U, U = Replayed(R, PAY),
           NEW c, c = [p \in Payments |-> Credit(PAY[p])]
    PROVE  /\ AfterPayments(R, U) /\ SumFunctionOnSet(c, Payments) \in Nat
           /\ Owed(U, Open(U)) = IF Owed(R, Open(R)) > SumFunctionOnSet(c, Payments)
                                 THEN Owed(R, Open(R)) - SumFunctionOnSet(c, Payments) ELSE 0
<1> DEFINE after == CHOOSE f : f = [p \in 0..LastPayment |->
                        IF p = 0 THEN R ELSE Settle(f[p - 1], Credit(PAY[p]))]
           all == Owed(R, Open(R))
           paid(n) == SumFunctionOnSet(c, 1..n)
           Right(T, n) == /\ AfterPayments(R, T)
                          /\ Owed(T, Open(T)) = IF all > paid(n) THEN all - paid(n) ELSE 0
<1>1. U = after[LastPayment] /\ LastPayment \in Nat
  BY AmountsAssumption DEF Replayed
<1>2. after = [p \in 0..LastPayment |-> IF p = 0 THEN R ELSE Settle(after[p - 1], Credit(PAY[p]))]
  <2>1. \E f : Replays(f, R, PAY)
    BY PaymentsOneByOne
  <2> QED
    BY <2>1 DEF Replays
<1> HIDE DEF after
<1>3. \A p \in 1..LastPayment : c[p] = Credit(PAY[p]) /\ c[p] \in Nat
  <2> TAKE p \in 1..LastPayment
  <2>1. c[p] = Credit(PAY[p])
    BY DEF Payments
  <2> QED
    BY <2>1, CreditIsNumber
<1>4. \A n \in 0..LastPayment : paid(n) \in Nat
  <2> TAKE n \in 0..LastPayment
  <2>1. IsFiniteSet(1..n)
    <3>1. 1 \in Int /\ n \in Int
      BY <1>1
    <3> QED
      BY <3>1, FS_Interval
  <2>2. \A p \in 1..n : c[p] \in Nat
    BY <1>1, <1>3
  <2> QED
    BY <2>1, <2>2, SumType
<1>5. \A n \in 1..LastPayment : paid(n) = c[n] + paid(n - 1)
  <2> TAKE n \in 1..LastPayment
  <2>1. IsFiniteSet(1..n)
    <3>1. 1 \in Int /\ n \in Int
      BY <1>1
    <3> QED
      BY <3>1, FS_Interval
  <2>2. \A p \in 1..n : c[p] \in Int
    BY <1>1, <1>3
  <2>3. n \in 1..n /\ (1..n) \ {n} = 1..(n - 1)
    BY <1>1
  <2>4. SumFunctionOnSet(c, 1..n) = c[n] + SumFunctionOnSet(c, (1..n) \ {n})
    <3>1. PICK S : S = 1..n
      OBVIOUS
    <3>2. IsFiniteSet(S) /\ (\A p \in S : c[p] \in Int) /\ n \in S
      BY <2>1, <2>2, <2>3, <3>1
    <3>3. SumFunctionOnSet(c, S) = c[n] + SumFunctionOnSet(c, S \ {n})
      BY ONLY <3>2, SumRemove
    <3> QED
      BY <3>1, <3>3
  <2> QED
    BY <2>3, <2>4
<1>6. all \in Nat
  <2>1. Open(R) \in SUBSET (1..Len(R))
    BY DEF Open, RowsTyped
  <2> QED
    BY <2>1, OwedIsNumber
<1> HIDE DEF all
<1>7. Right(after[0], 0)
  <2>1. after[0] = R
    BY <1>1, <1>2
  <2>2. paid(0) = 0
    <3>1. 1..0 = {} /\ IsFiniteSet({})
      BY FS_EmptySet
    <3> QED
      BY <3>1, SumZero
  <2>3. Owed(R, Open(R)) = IF all > 0 THEN all - 0 ELSE 0
    BY <1>6 DEF all
  <2> QED
    BY <2>1, <2>2, <2>3, NoPaymentYet
<1>8. ASSUME NEW n \in 1..LastPayment, Right(after[n - 1], n - 1) PROVE Right(after[n], n)
  <2>1. PICK T, W, k : T = after[n - 1] /\ W = after[n] /\ k = c[n]
    OBVIOUS
  <2>2. n \in 0..LastPayment /\ n # 0 /\ n - 1 \in 0..LastPayment /\ k \in Nat
    BY <1>1, <1>3, <2>1
  <2>3. W = Settle(T, k)
    BY <1>2, <1>3, <2>1, <2>2
  <2>4. AfterPayments(R, T) /\ RowsTyped(T)
    BY <1>8, <2>1 DEF AfterPayments
  <2>5. Settles(T, k, W)
    BY <2>2, <2>3, <2>4, SettleSettles
  <2>6. AfterPayments(R, W)
    BY <2>2, <2>4, <2>5, OnePaymentMore
  <2>7. Owed(W, Open(W)) = IF Owed(T, Open(T)) > k THEN Owed(T, Open(T)) - k ELSE 0
    BY <2>2, <2>4, <2>5, SettlementTakes
  <2>8. PICK a, b : a = paid(n - 1) /\ b = paid(n)
    OBVIOUS
  <2>9. a \in Nat /\ b = k + a /\ Owed(T, Open(T)) = IF all > a THEN all - a ELSE 0
    BY <1>4, <1>5, <1>8, <2>1, <2>2, <2>8
  <2>10. Owed(W, Open(W)) = IF all > b THEN all - b ELSE 0
    BY <1>6, <2>2, <2>7, <2>9
  <2> QED
    BY <2>1, <2>6, <2>8, <2>10
<1>9. \A n \in 0..LastPayment : Right(after[n], n)
  <2> DEFINE A == {n \in 0..LastPayment : Right(after[n], n)}
  <2>1. 0 \in A
    BY <1>1, <1>7
  <2>2. \A n \in 1..LastPayment : n - 1 \in A => n \in A
    BY <1>1, <1>8
  <2> HIDE DEF A
  <2>3. \A n \in 0..LastPayment : n \in A
    BY <1>1, <2>1, <2>2, UpTo
  <2> QED
    BY <2>3 DEF A
<1>10. LastPayment \in 0..LastPayment /\ Payments = 1..LastPayment
  BY <1>1 DEF Payments
<1> HIDE DEF paid
<1>11. Right(U, LastPayment) /\ paid(LastPayment) \in Nat
  BY <1>1, <1>4, <1>9, <1>10
<1> QED
  BY <1>10, <1>11 DEF paid, all

\* Every row keeps its owner while sources that are there are synchronised.
LEMMA OwnersStay ==
    ASSUME NEW R, NEW SRC, RowsOwned(R, SRC), NEW U, RowsTyped(U), NEW done, OnlyOf(R, U, done),
           \A s \in done : SRC[s].st # "none"
    PROVE  RowsOwned(U, SRC)
<1>1. RowsTyped(R) /\ Len(R) \in Nat /\ Len(U) \in Nat /\ DOMAIN U = 1..Len(U) /\ DOMAIN R = 1..Len(R)
  BY DEF RowsOwned, RowsTyped
<1>2. ASSUME NEW i \in 1..Len(U) PROVE RowOwned(U[i], SRC)
  <2>1. CASE i \in 1..Len(R)
    <3>1. RowOwned(R[i], SRC) /\ U[i].src = R[i].src /\ U[i].bill = R[i].bill /\ (R[i].src \notin done => U[i] = R[i])
      BY <1>1, <2>1 DEF RowsOwned, OnlyOf
    <3> QED
      BY <3>1 DEF RowOwned
  <2>2. CASE i \notin 1..Len(R)
    <3>1. i \in (Len(R) + 1)..Len(U)
      BY <1>1, <2>2
    <3>2. U[i].src \in done
      BY <3>1 DEF OnlyOf
    <3> QED
      BY <3>2 DEF RowOwned
  <2> QED
    BY <2>1, <2>2
<1> QED
  BY <1>1, <1>2 DEF RowsOwned

\* A rebuild visits every source that is there, and no other.
Visits(todo, S) == todo \in Seq(Sources) /\ {todo[k] : k \in 1..Len(todo)} = S
There(SRC) == {s \in Sources : SRC[s].st # "none"}

\* The sales that are there and then the bookings that are there are all of them.
LEMMA AllExisting ==
    ASSUME NEW SRC, NEW todo, todo = Existing(SRC, Sales) \o Existing(SRC, Bookings)
    PROVE  Visits(todo, There(SRC))
<1> DEFINE A == {s \in Sales : SRC[s].st # "none"}
           B == {s \in Bookings : SRC[s].st # "none"}
           p == Ascending(A)
           q == Ascending(B)
<1>1. A \in SUBSET Sources /\ B \in SUBSET Sources /\ A \cup B = There(SRC) /\ Sources \in SUBSET Nat /\ IsFiniteSet(Sources)
  BY SourcesAssumption DEF Sources, There
<1>2. todo = p \o q
  BY DEF Existing
<1> HIDE DEF A, B
<1>3. A \in SUBSET Nat /\ B \in SUBSET Nat /\ IsFiniteSet(A) /\ IsFiniteSet(B)
  BY <1>1, FS_Subset
<1>4. /\ p \in Seq(A) /\ Len(p) = Cardinality(A) /\ \A x \in A : \E n \in 1..Cardinality(A) : p[n] = x
      /\ q \in Seq(B) /\ Len(q) = Cardinality(B) /\ \A x \in B : \E n \in 1..Cardinality(B) : q[n] = x
  BY <1>3, AscendingListsAll
<1> HIDE DEF p, q
<1>5. /\ Len(p) \in Nat /\ Len(q) \in Nat /\ \A n \in 1..Len(p) : p[n] \in A
      /\ \A n \in 1..Len(q) : q[n] \in B
  BY <1>4
<1>6. p \in Seq(Sources) /\ q \in Seq(Sources)
  <2>1. p \in [1..Len(p) -> A] /\ q \in [1..Len(q) -> B]
    BY <1>4
  <2>2. p \in [1..Len(p) -> Sources] /\ q \in [1..Len(q) -> Sources]
    BY <1>1, <2>1
  <2>3. /\ [1..Len(p) -> Sources] \in {[1..n -> Sources] : n \in Nat}
        /\ [1..Len(q) -> Sources] \in {[1..n -> Sources] : n \in Nat}
    BY <1>5
  <2>4. Seq(Sources) = UNION {[1..n -> Sources] : n \in Nat}
    BY SeqDef
  <2> QED
    BY ONLY <2>2, <2>3, <2>4
<1>7. /\ todo \in Seq(Sources) /\ Len(todo) = Len(p) + Len(q)
      /\ \A n \in 1..(Len(p) + Len(q)) : todo[n] = IF n <= Len(p) THEN p[n] ELSE q[n - Len(p)]
  BY <1>2, <1>6, ConcatProperties
<1>8. ASSUME NEW k \in 1..Len(todo) PROVE todo[k] \in There(SRC)
  <2>1. CASE k <= Len(p)
    <3>1. k \in 1..Len(p) /\ k \in 1..(Len(p) + Len(q))
      BY <1>5, <1>7, <2>1
    <3>2. todo[k] = p[k] /\ p[k] \in A
      BY <1>5, <1>7, <2>1, <3>1
    <3> QED
      BY <1>1, <3>2
  <2>2. CASE ~(k <= Len(p))
    <3>1. k - Len(p) \in 1..Len(q)
      BY <1>5, <1>7, <2>2
    <3> QED
      BY <1>1, <1>5, <1>7, <2>2, <3>1
  <2> QED
    BY <2>1, <2>2
<1>9. ASSUME NEW s \in There(SRC) PROVE \E k \in 1..Len(todo) : todo[k] = s
  <2>1. CASE s \in A
    <3>1. PICK n \in 1..Len(p) : p[n] = s
      BY <1>4, <2>1
    <3>2. n \in 1..Len(todo) /\ n \in 1..(Len(p) + Len(q)) /\ n <= Len(p)
      BY <1>5, <1>7
    <3> QED
      BY <1>7, <3>1, <3>2
  <2>2. CASE s \in B
    <3>1. PICK n \in 1..Len(q) : q[n] = s
      BY <1>4, <2>2
    <3>2. /\ Len(p) + n \in 1..Len(todo) /\ Len(p) + n \in 1..(Len(p) + Len(q))
          /\ ~(Len(p) + n <= Len(p)) /\ (Len(p) + n) - Len(p) = n
      BY <1>5, <1>7
    <3>3. todo[Len(p) + n] = s
      BY <1>7, <3>1, <3>2
    <3> QED
      BY <3>2, <3>3
  <2> QED
    BY <1>1, <2>1, <2>2
<1> QED
  <2>1. {todo[k] : k \in 1..Len(todo)} = There(SRC)
    BY <1>8, <1>9, ZenonT(40)
  <2> QED
    BY <1>7, <2>1 DEF Visits

\* What a rebuild makes: first the derived rows, then the payments taken from them.
Rebuilds(R, SRC, PAY, D, now) ==
    /\ RowsTyped(D) /\ RowsOwned(D, SRC) /\ RowsOwned(now, SRC)
    /\ OnlyOf(R, D, There(SRC)) /\ (\A s \in There(SRC) : Single(D, s, SRC[s]))
    /\ AfterPayments(D, now)
    /\ now = Replayed(D, PAY)

\* Rebuild does that from any sound rows.
LEMMA RebuildIsBoth ==
    ASSUME NEW SRC, SourcesTyped(SRC), NEW R, RowsOwned(R, SRC), NEW PAY \in [Payments -> Receipts],
           NEW now, now = Rebuild(R, SRC, PAY)
    PROVE  \E D : Rebuilds(R, SRC, PAY, D, now)
<1>1. PICK todo : todo = Existing(SRC, Sales) \o Existing(SRC, Bookings)
  OBVIOUS
<1>2. PICK refs : refs = Numbers(SRC)
  OBVIOUS
<1>3. PICK D : D = Derived(R, SRC, todo, refs)
  OBVIOUS
<1>4. now = Replayed(D, PAY)
  BY <1>1, <1>2, <1>3 DEF Rebuild
<1>5. todo \in Seq(Sources) /\ {todo[k] : k \in 1..Len(todo)} = There(SRC)
  <2>1. Visits(todo, There(SRC))
    BY <1>1, AllExisting
  <2> QED
    BY <2>1 DEF Visits
<1>6. RowsTyped(R)
  BY DEF RowsOwned
<1>7. RowsTyped(D) /\ OnlyOf(R, D, {todo[k] : k \in 1..Len(todo)})
  BY <1>3, <1>5, <1>6, SourcesAreSynced
<1>8. \A s \in Sources : RefsOf(SRC[s]) \subseteq refs[s]
  BY <1>2 DEF Numbers
<1>9. \A k \in 1..Len(todo) : Single(D, todo[k], SRC[todo[k]])
  BY <1>3, <1>5, <1>6, <1>8, SourcesAreSynced
<1>10. OnlyOf(R, D, There(SRC))
  BY <1>5, <1>7
<1>11. \A s \in There(SRC) : Single(D, s, SRC[s])
  BY <1>5, <1>9
<1>12. RowsOwned(D, SRC)
  BY <1>7, <1>10, OwnersStay DEF There
<1>13. AfterPayments(D, now)
  BY <1>4, <1>7, PaymentsAreReplayed
<1>14. RowsOwned(now, SRC)
  <2>1. RowsTyped(now) /\ Len(now) = Len(D) /\ DOMAIN now = 1..Len(now) /\ DOMAIN D = 1..Len(D)
    <3>1. RowsTyped(now) /\ Len(now) = Len(D)
      BY <1>13 DEF AfterPayments
    <3>2. now \in Seq(BillRows) /\ D \in Seq(BillRows)
      BY <1>7, <3>1 DEF RowsTyped
    <3> QED
      BY <3>1, <3>2
  <2>2. \A i \in 1..Len(D) : now[i].src = D[i].src /\ now[i].bill = D[i].bill /\ now[i].loose = D[i].loose
    BY <1>13 DEF AfterPayments
  <2>3. \A i \in 1..Len(D) : RowOwned(D[i], SRC)
    BY <1>12, <2>1 DEF RowsOwned
  <2> QED
    BY <2>1, <2>2, <2>3 DEF RowsOwned, RowOwned
<1> QED
  BY <1>4, <1>7, <1>10, <1>11, <1>12, <1>13, <1>14 DEF Rebuilds

\* The rows of a source that is there say what is due.
LEMMA ActiveRowIsDue ==
    ASSUME NEW SRC, SourcesTyped(SRC), NEW R, NEW PAY, NEW D, NEW now, Rebuilds(R, SRC, PAY, D, now),
           NEW j \in 1..Len(D), D[j].src # Manual, ~D[j].void, ~D[j].loose
    PROVE  /\ D[j].src \in There(SRC) /\ Wanted(SRC[D[j].src])
           /\ Posted(D[j], D[j].src, SRC[D[j].src])
           /\ \A i \in 1..Len(D) : D[i].src = D[j].src /\ ~D[i].void /\ ~D[i].loose => i = j
<1>1. RowsTyped(D) /\ RowsOwned(D, SRC) /\ DOMAIN D = 1..Len(D) /\ D[j] \in BillRows
  BY DEF Rebuilds, RowsTyped
<1>2. PICK s : s = D[j].src
  OBVIOUS
<1>3. s \in Sources /\ SRC[s].st # "none"
  BY <1>1, <1>2 DEF BillRows, RowsOwned, RowOwned
<1>4. s \in There(SRC) /\ Single(D, s, SRC[s])
  BY <1>3 DEF There, Rebuilds
<1>5. Wanted(SRC[s])
  BY <1>1, <1>2, <1>4 DEF Single
<1>6. PICK m \in DOMAIN D : /\ Posted(D[m], s, SRC[s])
                            /\ \A i \in DOMAIN D \ {m} : D[i].src = s => D[i].void \/ D[i].loose
  BY <1>4, <1>5 DEF Single
<1>7. m = j
  BY <1>1, <1>2, <1>6
<1> QED
  BY <1>1, <1>2, <1>4, <1>5, <1>6, <1>7

\* No state in which the sources, rows and payments are sound loses the order of settlement.
LEMMA SoundSettlesOldestFirst ==
    ASSUME BillsInv
    PROVE  OldestSettledFirst
<1> DEFINE now == Rebuild(rows, src, pay)
<1>1. PICK now1 : now1 = now
  OBVIOUS
<1>2. SourcesTyped(src) /\ RowsOwned(rows, src) /\ pay \in [Payments -> Receipts]
  BY DEF BillsInv
<1>3. PICK D : Rebuilds(rows, src, pay, D, now1)
  BY <1>1, <1>2, RebuildIsBoth
<1> HIDE DEF now
<1>4. /\ AfterPayments(D, now1) /\ Len(now1) = Len(D) /\ DOMAIN now1 = 1..Len(D)
      /\ \A i \in 1..Len(D) : /\ now1[i].src = D[i].src /\ now1[i].loose = D[i].loose /\ now1[i].void = D[i].void
  <2>1. AfterPayments(D, now1)
    BY <1>3 DEF Rebuilds
  <2>2. RowsTyped(now1) /\ Len(now1) = Len(D)
    BY <2>1 DEF AfterPayments
  <2>3. DOMAIN now1 = 1..Len(D)
    BY <2>2 DEF RowsTyped
  <2>4. \A i \in 1..Len(D) : /\ now1[i].src = D[i].src /\ now1[i].loose = D[i].loose /\ now1[i].void = D[i].void
    BY <2>1 DEF AfterPayments
  <2> QED
    BY <2>1, <2>2, <2>3, <2>4
<1>5. ASSUME NEW i \in DOMAIN now1, NEW j \in DOMAIN now1, i \in Open(now1), now1[j].src # Manual,
             ~now1[j].loose, ~now1[j].void,
             \/ now1[i].src \in Backdated /\ now1[j].src \notin Backdated
             \/ (now1[i].src \in Backdated <=> now1[j].src \in Backdated) /\ i < j
      PROVE  now1[j].amount = src[now1[j].src].due
  <2>1. Before(D, i, j)
    BY <1>4, <1>5 DEF Before
  <2>2. now1[j].amount = D[j].amount
    BY <1>4, <1>5, <2>1 DEF AfterPayments
  <2>3. Posted(D[j], D[j].src, src[D[j].src])
    BY <1>2, <1>3, <1>4, <1>5, ActiveRowIsDue
  <2> QED
    BY <1>4, <1>5, <2>2, <2>3 DEF Posted
<1> QED
  BY <1>1, <1>5 DEF OldestSettledFirst, now

------------------------------------------------------------------------------
\* A source that is written stays sound.
Sound(S, s) == S \in Documents /\ (S.st = "none" => S = NoSource) /\ (S.billed => s \in Sales /\ S.due = 0)

OneWritten(SRC, new, s, S) == new[s] = S /\ \A q \in Sources \ {s} : new[q] = SRC[q]

\* The map of the sources stays typed when one of them is written.
LEMMA SourceWritten ==
    ASSUME NEW SRC, SourcesTyped(SRC), NEW s \in Sources, NEW S, Sound(S, s),
           NEW new, new = [SRC EXCEPT ![s] = S]
    PROVE  SourcesTyped(new) /\ OneWritten(SRC, new, s, S)
<1>1. SRC \in [Sources -> Documents] /\ S \in Documents
  BY DEF SourcesTyped, Sound
<1>2. new \in [Sources -> Documents] /\ new[s] = S /\ \A q \in Sources \ {s} : new[q] = SRC[q]
  BY <1>1
<1>3. \A q \in Sources : (new[q].st = "none" => new[q] = NoSource) /\ (new[q].billed => q \in Sales /\ new[q].due = 0)
  <2> TAKE q \in Sources
  <2>1. CASE q = s
    BY <1>2, <2>1 DEF Sound
  <2>2. CASE q # s
    BY <1>2, <2>2 DEF SourcesTyped
  <2> QED
    BY <2>1, <2>2
<1> QED
  BY <1>2, <1>3 DEF SourcesTyped, OneWritten

\* Every form is an active source.
LEMMA FormIsSound ==
    ASSUME NEW s \in Sources, NEW S \in Forms(s), NEW c \in BOOLEAN
    PROVE  /\ Sound(S, s) /\ S.st = "active"
           /\ Sound([S EXCEPT !.cut = c], s) /\ [S EXCEPT !.cut = c].st = "active"
<1>1. S \in [st : {"active"}, due : Dues, billed : BOOLEAN, bill : Bills, cut : {FALSE}] /\ Dues \subseteq Nat
  BY AmountsAssumption DEF Forms
<1>2. S.billed => s \in Sales /\ S.due = 0
  BY DEF Forms
<1>3. S \in Documents /\ S.st = "active" /\ [S EXCEPT !.cut = c] \in Documents
  BY <1>1 DEF Documents
<1>4. /\ [S EXCEPT !.cut = c].st = "active" /\ [S EXCEPT !.cut = c].billed = S.billed
      /\ [S EXCEPT !.cut = c].due = S.due
  BY <1>1
<1> QED
  BY <1>2, <1>3, <1>4 DEF Sound

\* Rows stay owned when more sources are there.
LEMMA OwnersOfMore ==
    ASSUME NEW SRC, NEW new, NEW R, RowsOwned(R, SRC),
           \A q \in Sources : SRC[q].st # "none" => new[q].st # "none"
    PROVE  RowsOwned(R, new)
<1>1. RowsTyped(R) /\ \A i \in DOMAIN R : RowOwned(R[i], SRC) /\ R[i] \in BillRows
  BY DEF RowsOwned, RowsTyped
<1>2. \A i \in DOMAIN R : R[i].src \in Sources \cup {Manual}
  BY <1>1 DEF BillRows
<1> QED
  BY <1>1, <1>2 DEF RowsOwned, RowOwned

\* Saving a source with its own rows keeps every row owned.
LEMMA OneIsSynced ==
    ASSUME NEW SRC, NEW R, RowsOwned(R, SRC), NEW s \in Sources, SRC[s].st # "none",
           NEW S, Sound(S, s), NEW refs, NEW U, U = Sync(R, s, S, refs)
    PROVE  RowsOwned(U, SRC)
<1>1. S \in Documents /\ (S.billed => s \in Sales)
  BY DEF Sound
<1>2. RowsTyped(R)
  BY DEF RowsOwned
<1>3. RowsTyped(U) /\ OnlyOf(R, U, {s})
  BY <1>1, <1>2, SourceIsSynced
<1>4. \A q \in {s} : SRC[q].st # "none"
  OBVIOUS
<1>5. PICK done : done = {s}
  OBVIOUS
<1>6. OnlyOf(R, U, done) /\ \A q \in done : SRC[q].st # "none"
  BY <1>3, <1>4, <1>5
<1> QED
  BY <1>3, <1>6, OwnersStay

\* A row that is owned may be added.
LEMMA OwnedRowAdded ==
    ASSUME NEW SRC, NEW R, RowsOwned(R, SRC), NEW r \in BillRows, RowOwned(r, SRC), r.loose => r.src \in Bookings
    PROVE  RowsOwned(Append(R, r), SRC)
<1>1. R \in Seq(BillRows) /\ Len(R) \in Nat /\ DOMAIN R = 1..Len(R)
  BY DEF RowsOwned, RowsTyped
<1>2. PICK U : U = Append(R, r)
  OBVIOUS
<1>3. /\ U \in Seq(BillRows) /\ Len(U) = Len(R) + 1 /\ U[Len(R) + 1] = r
      /\ \A i \in 1..Len(R) : U[i] = R[i]
  BY <1>1, <1>2, OneRowAdded
<1>4. \A i \in DOMAIN U : i \in 1..Len(R) \/ i = Len(R) + 1
  BY <1>1, <1>3
<1>5. \A i \in 1..Len(R) : RowOwned(R[i], SRC) /\ (R[i].loose => R[i].src \in Bookings)
  BY <1>1 DEF RowsOwned, RowsTyped
<1>6. \A i \in DOMAIN U : RowOwned(U[i], SRC) /\ (U[i].loose => U[i].src \in Bookings)
  BY <1>3, <1>4, <1>5
<1> QED
  BY <1>2, <1>3, <1>6 DEF RowsOwned, RowsTyped

\* A row may be rewritten while its owner, number and looseness stay.
LEMMA OwnedRowChanged ==
    ASSUME NEW SRC, NEW R, RowsOwned(R, SRC), NEW m \in DOMAIN R, NEW r \in BillRows,
           r.src = R[m].src, r.bill = R[m].bill, r.loose = R[m].loose
    PROVE  RowsOwned([R EXCEPT ![m] = r], SRC)
<1>1. R \in Seq(BillRows) /\ Len(R) \in Nat /\ DOMAIN R = 1..Len(R)
  BY DEF RowsOwned, RowsTyped
<1>2. PICK U : U = [R EXCEPT ![m] = r]
  OBVIOUS
<1>3. U \in Seq(BillRows) /\ Len(U) = Len(R) /\ U[m] = r /\ \A i \in 1..Len(R) \ {m} : U[i] = R[i]
  BY <1>1, <1>2, OneRowWritten
<1>4. DOMAIN U = 1..Len(R)
  BY <1>3
<1>5. \A i \in 1..Len(R) : RowOwned(R[i], SRC) /\ (R[i].loose => R[i].src \in Bookings)
  BY <1>1 DEF RowsOwned, RowsTyped
<1>6. RowOwned(r, SRC) /\ (r.loose => r.src \in Bookings)
  BY <1>1, <1>5 DEF RowOwned
<1>7. \A i \in DOMAIN U : RowOwned(U[i], SRC) /\ (U[i].loose => U[i].src \in Bookings)
  BY <1>3, <1>4, <1>5, <1>6
<1> QED
  BY <1>2, <1>3, <1>7 DEF RowsOwned, RowsTyped

\* Rows that are owned without the deleted source may be kept.
LEMMA OwnedRowsKept ==
    ASSUME NEW SRC, NEW R, RowsTyped(R), NEW I \in SUBSET (1..Len(R)), \A i \in I : RowOwned(R[i], SRC)
    PROVE  RowsOwned(Kept(R, I), SRC)
<1>1. R \in Seq(BillRows) /\ DOMAIN R = 1..Len(R) /\ \A i \in DOMAIN R : R[i].loose => R[i].src \in Bookings
  BY DEF RowsTyped
<1>2. PICK U : U = Kept(R, I)
  OBVIOUS
<1>3. U \in Seq(BillRows) /\ \A n \in DOMAIN U : \E i \in I : U[n] = R[i]
  BY <1>1, <1>2, KeptAreRows
<1>4. \A n \in DOMAIN U : RowOwned(U[n], SRC) /\ (U[n].loose => U[n].src \in Bookings)
  BY <1>1, <1>3
<1> QED
  BY <1>2, <1>3, <1>4 DEF RowsOwned, RowsTyped

------------------------------------------------------------------------------
\* At first there is no row, and the sources of a legacy database are void.
LEMMA InitKeepsBills == BillsInit => BillsInv
<1>1. SUFFICES ASSUME BillsInit PROVE BillsInv
  OBVIOUS
<1>2. NoSource \in Documents /\ [NoSource EXCEPT !.st = "void", !.due = 1] \in Documents
  BY DEF NoSource, Documents, Bills
<1>3. /\ NoSource.st = "none" /\ ~NoSource.billed
      /\ [NoSource EXCEPT !.st = "void", !.due = 1].st = "void"
      /\ ~[NoSource EXCEPT !.st = "void", !.due = 1].billed
  BY DEF NoSource
<1>4. SourcesTyped(src)
  <2> DEFINE old == [NoSource EXCEPT !.st = "void", !.due = 1]
  <2>1. src = [s \in Sources |-> IF s \in Legacy THEN old ELSE NoSource]
    BY <1>1 DEF BillsInit
  <2>2. old \in Documents /\ old.st = "void" /\ ~old.billed
    BY <1>2, <1>3
  <2> HIDE DEF old
  <2> QED
    BY <1>2, <1>3, <2>1, <2>2 DEF SourcesTyped
<1>5. rows = <<>> /\ <<>> \in Seq(BillRows) /\ DOMAIN <<>> = {}
  BY <1>1 DEF BillsInit
<1>6. RowsOwned(rows, src)
  BY <1>5 DEF RowsOwned, RowsTyped
<1>7. pay \in [Payments -> Receipts]
  BY <1>1 DEF BillsInit, Receipts
<1> QED
  BY <1>4, <1>6, <1>7 DEF BillsInv

\* The three facts about the next state that the lemmas below show.
LEMMA NextIsSound ==
    ASSUME SourcesTyped(src'), RowsOwned(rows', src'), pay' \in [Payments -> Receipts]
    PROVE  BillsInv'
  BY DEF BillsInv, Payments, Receipts

\* Posting or editing a form makes its source active and sound.
LEMMA SavedSource ==
    ASSUME BillsInv, NEW s \in Sources, NEW S, Sound(S, s), S.st # "none", src' = [src EXCEPT ![s] = S]
    PROVE  /\ SourcesTyped(src') /\ src'[s] = S
           /\ RowsOwned(rows, src')
<1>1. SourcesTyped(src) /\ RowsOwned(rows, src)
  BY DEF BillsInv
<1>2. PICK new : new = src'
  OBVIOUS
<1>3. SourcesTyped(new) /\ new[s] = S /\ \A q \in Sources \ {s} : new[q] = src[q]
  <2>1. SourcesTyped(new) /\ OneWritten(src, new, s, S)
    BY <1>1, <1>2, SourceWritten
  <2> QED
    BY <2>1 DEF OneWritten
<1>4. \A q \in Sources : src[q].st # "none" => new[q].st # "none"
  BY <1>3
<1>5. RowsOwned(rows, new)
  BY <1>1, <1>4, OwnersOfMore
<1> QED
  BY <1>2, <1>3, <1>5

\* A sale or booking is posted.
LEMMA PostKeepsBills ==
    ASSUME BillsInv, NEW s \in Sources, NEW S \in Forms(s), Post(s, S)
    PROVE  BillsInv'
<1>1. src' = [src EXCEPT ![s] = S] /\ rows' = Sync(rows, s, S, RefsOf(S)) /\ pay' = pay
  BY DEF Post
<1>2. Sound(S, s) /\ S.st # "none"
  BY FormIsSound
<1>3. SourcesTyped(src') /\ src'[s] = S /\ RowsOwned(rows, src')
  BY <1>1, <1>2, SavedSource
<1>4. RowsOwned(rows', src')
  BY <1>1, <1>2, <1>3, OneIsSynced
<1> QED
  BY <1>1, <1>3, <1>4, NextIsSound DEF BillsInv

\* A sale or booking is edited by its own page.
LEMMA EditKeepsBills ==
    ASSUME BillsInv, NEW s \in Sources, NEW S \in Forms(s), Edit(s, S)
    PROVE  BillsInv'
<1>1. PICK Q : Q = [S EXCEPT !.cut = src[s].cut]
  OBVIOUS
<1>2. src' = [src EXCEPT ![s] = Q] /\ rows' = Sync(rows, s, S, RefsOf(S) \cup RefsOf(src[s])) /\ pay' = pay
  BY <1>1 DEF Edit
<1>3. src[s].cut \in BOOLEAN
  BY DEF BillsInv, SourcesTyped, Documents
<1>4. Sound(S, s) /\ Sound(Q, s) /\ Q.st # "none"
  BY <1>1, <1>3, FormIsSound
<1>5. SourcesTyped(src') /\ src'[s] = Q /\ RowsOwned(rows, src')
  BY <1>2, <1>4, SavedSource
<1>6. RowsOwned(rows', src')
  BY <1>2, <1>4, <1>5, OneIsSynced
<1> QED
  BY <1>2, <1>5, <1>6, NextIsSound DEF BillsInv

\* A sale or booking is edited from the ledger, which rebuilds all bills.
LEMMA LedgerEditKeepsBills ==
    ASSUME BillsInv, NEW s \in Sources, NEW S \in Forms(s), LedgerEdit(s, S)
    PROVE  BillsInv'
<1>1. PICK Q, R : Q = [S EXCEPT !.cut = src[s].cut] /\ R = Sync(rows, s, S, {})
  OBVIOUS
<1>2. src' = [src EXCEPT ![s] = Q] /\ rows' = Rebuild(R, src', pay) /\ pay' = pay
  BY <1>1 DEF LedgerEdit
<1>3. src[s].cut \in BOOLEAN /\ pay \in [Payments -> Receipts]
  BY DEF BillsInv, SourcesTyped, Documents
<1>4. Sound(S, s) /\ Sound(Q, s) /\ Q.st # "none"
  BY <1>1, <1>3, FormIsSound
<1>5. SourcesTyped(src') /\ src'[s] = Q /\ RowsOwned(rows, src')
  BY <1>2, <1>4, SavedSource
<1>6. RowsOwned(R, src')
  BY <1>1, <1>4, <1>5, OneIsSynced
<1>7. PICK D : Rebuilds(R, src', pay, D, rows')
  BY <1>2, <1>3, <1>5, <1>6, RebuildIsBoth
<1>8. RowsOwned(rows', src')
  BY <1>7 DEF Rebuilds
<1> QED
  BY <1>2, <1>3, <1>5, <1>8, NextIsSound

\* A source is deleted with its rows; a loose row that survives names no automatic number.
LEMMA DeleteKeepsBills ==
    ASSUME BillsInv, NEW s \in Sources, Delete(s)
    PROVE  BillsInv'
<1>1. PICK Q, R, refs : Q = [src[s] EXCEPT !.st = "void"] /\ refs = RefsOf(src[s]) /\ R = Sync(rows, s, Q, refs)
  OBVIOUS
<1>2. PICK I : I = {i \in DOMAIN R : R[i].src # s \/ R[i].loose}
  OBVIOUS
<1>3. src' = [src EXCEPT ![s] = NoSource] /\ rows' = Kept(R, I) /\ pay' = pay
  BY <1>1, <1>2 DEF Delete
<1>4. SourcesTyped(src) /\ RowsOwned(rows, src) /\ RowsTyped(rows) /\ src[s].st # "none"
  BY DEF BillsInv, RowsOwned, Delete
<1>5. src[s] \in Documents /\ (src[s].billed => s \in Sales /\ src[s].due = 0)
  BY <1>4 DEF SourcesTyped
<1>6. Q \in Documents /\ (Q.billed => s \in Sales) /\ RefsOf(Q) = refs /\ Sound(Q, s)
  BY <1>1, <1>5 DEF Documents, RefsOf, Sound
<1>7. RowsTyped(R) /\ Single(R, s, Q)
  BY <1>1, <1>4, <1>6, SourceIsSynced
<1>8. RowsOwned(R, src)
  BY <1>1, <1>4, <1>6, OneIsSynced
<1>9. SourcesTyped(src') /\ \A q \in Sources \ {s} : src'[q] = src[q]
  <2>1. Sound(NoSource, s)
    BY DEF Sound, NoSource, Documents, Bills
  <2>2. PICK new : new = src'
    OBVIOUS
  <2>3. new = [src EXCEPT ![s] = NoSource]
    BY <1>3, <2>2
  <2>4. SourcesTyped(new) /\ OneWritten(src, new, s, NoSource)
    BY <1>4, <2>1, <2>3, SourceWritten
  <2> QED
    BY <2>2, <2>4 DEF OneWritten
<1>10. \A i \in I : RowOwned(R[i], src')
  <2> TAKE i \in I
  <2>1. i \in DOMAIN R /\ (R[i].src # s \/ R[i].loose) /\ RowOwned(R[i], src) /\ R[i] \in BillRows
    BY <1>2, <1>8 DEF RowsOwned, RowsTyped
  <2>2. R[i].src \in Sources \cup {Manual}
    BY <2>1 DEF BillRows
  <2>3. CASE R[i].src # s
    BY <1>9, <2>1, <2>2, <2>3 DEF RowOwned
  <2>4. CASE R[i].src = s
    <3>1. R[i].loose /\ R[i].bill \notin RefsOf(Q)
      BY <1>7, <2>1, <2>4 DEF Single
    <3> QED
      BY <3>1 DEF RefsOf, RowOwned
  <2> QED
    BY <2>3, <2>4
<1>11. I \in SUBSET (1..Len(R))
  BY <1>2, <1>7 DEF RowsTyped
<1>12. RowsOwned(rows', src')
  BY <1>3, <1>7, <1>10, <1>11, OwnedRowsKept
<1> QED
  BY <1>3, <1>9, <1>12, NextIsSound DEF BillsInv

\* A void source is restored.
LEMMA RestoreKeepsBills ==
    ASSUME BillsInv, NEW s \in Sources, Restore(s)
    PROVE  BillsInv'
<1>1. PICK Q : Q = [src[s] EXCEPT !.st = "active"]
  OBVIOUS
<1>2. src[s] \in Documents /\ (src[s].billed => s \in Sales /\ src[s].due = 0)
  BY DEF BillsInv, SourcesTyped
<1>3. Sound(Q, s) /\ Q.st # "none"
  BY <1>1, <1>2 DEF Documents, Sound
<1>4. src' = [src EXCEPT ![s] = Q] /\ rows' = Sync(rows, s, src'[s], RefsOf(src[s])) /\ pay' = pay
  BY <1>1, <1>2 DEF Restore
<1>5. SourcesTyped(src') /\ src'[s] = Q /\ RowsOwned(rows, src')
  BY <1>3, <1>4, SavedSource
<1>6. RowsOwned(rows', src')
  BY <1>3, <1>4, <1>5, OneIsSynced
<1> QED
  BY <1>4, <1>5, <1>6, NextIsSound DEF BillsInv

\* A cancellation or its revert writes one bill, deletes it, or adds a loose one.
LEMMA AdjustKeepsBills ==
    ASSUME BillsInv, NEW b \in Bookings, NEW n \in Dues, NEW revive \in BOOLEAN,
           src[b].st = "active", Adjust(b, n, revive)
    PROVE  BillsInv'
<1>1. PICK found, bill, Q : /\ found = {i \in Of(rows, b) : rows[i].bill = src[b].bill}
                            /\ bill = Min(found) /\ Q = [src[b] EXCEPT !.due = n, !.cut = ~revive]
  OBVIOUS
<1>2. /\ SourcesTyped(src) /\ RowsOwned(rows, src) /\ RowsTyped(rows) /\ b \in Sources /\ n \in Nat
      /\ rows \in Seq(BillRows) /\ DOMAIN rows = 1..Len(rows) /\ Len(rows) \in Nat
  BY AmountsAssumption DEF BillsInv, RowsOwned, RowsTyped, Sources
<1>3. src[b] \in Documents /\ ~src[b].billed
  BY <1>2, SourcesAssumption DEF SourcesTyped, Documents
<1>4. Sound(Q, b) /\ Q.st # "none"
  <2>1. Q \in Documents
    BY <1>1, <1>2, <1>3 DEF Documents
  <2>2. Q.st = "active" /\ ~Q.billed
    BY <1>1, <1>3 DEF Documents
  <2> QED
    BY <2>1, <2>2 DEF Sound
<1>5. src' = [src EXCEPT ![b] = Q]
  <2>1. src' = [src EXCEPT ![b].due = n, ![b].cut = ~revive]
    BY DEF Adjust
  <2>2. src \in [Sources -> Documents]
    BY <1>2 DEF SourcesTyped
  <2> QED
    BY <1>1, <1>2, <2>1, <2>2 DEF Documents
<1>6. SourcesTyped(src') /\ src'[b] = Q /\ RowsOwned(rows, src')
  BY <1>2, <1>4, <1>5, SavedSource
<1>7. pay' = pay
  BY DEF Adjust
<1>8. found \in SUBSET (1..Len(rows))
  BY <1>1, <1>2 DEF Of
<1>9. found # {} => bill \in found
  <2>1. IsFiniteSet(1..Len(rows))
    <3>1. 1 \in Int /\ Len(rows) \in Int
      BY <1>2
    <3> QED
      BY <3>1, FS_Interval
  <2>2. IsFiniteSet(found)
    BY <1>8, <2>1, FS_Subset
  <2>3. found \in SUBSET Nat
    BY <1>2, <1>8
  <2> QED
    BY <1>1, <2>2, <2>3, GreatestAndLeast
<1>10. CASE found = {} /\ n > 0
  <2>1. PICK r : r = [NewRow(b, src[b].bill, n) EXCEPT !.loose = TRUE]
    OBVIOUS
  <2>2. r \in BillRows /\ r.src = b
    <3>1. src[b].bill \in Bills
      BY <1>3 DEF Documents
    <3>2. NewRow(b, src[b].bill, n) \in BillRows /\ NewRow(b, src[b].bill, n).src = b
      BY <1>2, <3>1, NewRowIsRow
    <3> QED
      BY <2>1, <3>2 DEF BillRows
  <2>3. RowOwned(r, src')
    BY <1>4, <1>6, <2>2 DEF RowOwned
  <2>4. rows' = Append(rows, r)
    BY <1>1, <1>10, <2>1 DEF Adjust
  <2>5. RowsOwned(rows', src')
    BY <1>6, <2>2, <2>3, <2>4, OwnedRowAdded
  <2> QED
    BY <1>6, <1>7, <2>5, NextIsSound DEF BillsInv
<1>11. CASE found # {} /\ n > 0
  <2>1. PICK r : r = [rows[bill] EXCEPT !.amount = n, !.void = rows[bill].void /\ ~revive]
    OBVIOUS
  <2>2. bill \in 1..Len(rows) /\ rows[bill] \in BillRows
    <3>1. bill \in 1..Len(rows)
      BY <1>8, <1>9, <1>11
    <3> QED
      BY <1>2, <3>1
  <2>3. r \in BillRows /\ r.src = rows[bill].src /\ r.bill = rows[bill].bill /\ r.loose = rows[bill].loose
    BY <1>2, <2>1, <2>2 DEF BillRows
  <2>4. rows' = [rows EXCEPT ![bill].amount = n, ![bill].void = @ /\ ~revive]
    BY <1>1, <1>11 DEF Adjust
  <2>5. rows' = [rows EXCEPT ![bill] = r]
    BY <1>2, <2>1, <2>2, <2>4 DEF BillRows
  <2>6. RowsOwned(rows', src')
    BY <1>2, <1>6, <2>2, <2>3, <2>5, OwnedRowChanged
  <2> QED
    BY <1>6, <1>7, <2>6, NextIsSound DEF BillsInv
<1>12. CASE found # {} /\ n = 0
  <2>1. PICK I : I = DOMAIN rows \ {bill}
    OBVIOUS
  <2>2. rows' = Kept(rows, I)
    BY <1>1, <1>12, <2>1 DEF Adjust
  <2>3. I \in SUBSET (1..Len(rows)) /\ \A i \in I : RowOwned(rows[i], src')
    BY <1>2, <1>6, <2>1 DEF RowsOwned
  <2>4. RowsOwned(rows', src')
    BY <1>2, <2>2, <2>3, OwnedRowsKept
  <2> QED
    BY <1>6, <1>7, <2>4, NextIsSound DEF BillsInv
<1>13. CASE found = {} /\ n = 0
  <2>1. rows' = rows
    BY <1>1, <1>13 DEF Adjust
  <2> QED
    BY <1>6, <1>7, <2>1, NextIsSound DEF BillsInv
<1> QED
  BY <1>2, <1>10, <1>11, <1>12, <1>13

\* The pages of single rows.
LEMMA ChangeKeepsBills ==
    ASSUME BillsInv, NEW i \in DOMAIN rows, NEW r \in BillRows, r.src = rows[i].src,
           r.bill = rows[i].bill, r.loose = rows[i].loose, Change(i, r)
    PROVE  BillsInv'
<1>1. SourcesTyped(src) /\ RowsOwned(rows, src) /\ pay \in [Payments -> Receipts]
  BY DEF BillsInv
<1>2. rows' = [rows EXCEPT ![i] = r] /\ src' = src /\ pay' = pay
  BY DEF Change
<1>3. RowsOwned([rows EXCEPT ![i] = r], src)
  BY <1>1, OwnedRowChanged
<1> QED
  BY <1>1, <1>2, <1>3, NextIsSound

\* Editing, deleting, toggling and restoring a row change no owner.
LEMMA RowPagesKeepBills ==
    ASSUME BillsInv, NEW i \in DOMAIN rows,
           (\E n \in Dues : EditRow(i, n)) \/ DeleteRow(i) \/ RestoreRow(i) \/ TogglePaid(i)
    PROVE  BillsInv'
<1>1. rows[i] \in BillRows
  BY DEF BillsInv, RowsOwned, RowsTyped
<1>2. \A n \in Dues : /\ [rows[i] EXCEPT !.amount = n] \in BillRows
                      /\ [rows[i] EXCEPT !.amount = n].src = rows[i].src
                      /\ [rows[i] EXCEPT !.amount = n].bill = rows[i].bill
                      /\ [rows[i] EXCEPT !.amount = n].loose = rows[i].loose
  BY <1>1, AmountsAssumption DEF BillRows
<1>3. \A c \in BOOLEAN : /\ [rows[i] EXCEPT !.void = c] \in BillRows
                         /\ [rows[i] EXCEPT !.void = c].src = rows[i].src
                         /\ [rows[i] EXCEPT !.void = c].bill = rows[i].bill
                         /\ [rows[i] EXCEPT !.void = c].loose = rows[i].loose
  BY <1>1 DEF BillRows
<1>4. PICK r : r = [rows[i] EXCEPT !.paid = ~rows[i].paid]
  OBVIOUS
<1>5. r \in BillRows /\ r.src = rows[i].src /\ r.bill = rows[i].bill /\ r.loose = rows[i].loose
  BY <1>1, <1>4 DEF BillRows
<1>6. ASSUME NEW n \in Dues, EditRow(i, n) PROVE BillsInv'
  BY <1>2, <1>6, ChangeKeepsBills DEF EditRow
<1>7. ASSUME DeleteRow(i) PROVE BillsInv'
  BY <1>3, <1>7, ChangeKeepsBills DEF DeleteRow
<1>8. ASSUME RestoreRow(i) PROVE BillsInv'
  BY <1>3, <1>8, ChangeKeepsBills DEF RestoreRow
<1>9. ASSUME TogglePaid(i) PROVE BillsInv'
  <2>1. Change(i, r)
    BY <1>4, <1>9 DEF TogglePaid
  <2> QED
    BY <1>5, <2>1, ChangeKeepsBills
<1> QED
  BY <1>6, <1>7, <1>8, <1>9

\* A bill entered by hand has no source.
LEMMA AddManualKeepsBills ==
    ASSUME BillsInv, NEW n \in Dues, AddManual(n)
    PROVE  BillsInv'
<1>1. PICK r : r = [NewRow(Manual, "manual", n) EXCEPT !.paid = FALSE]
  OBVIOUS
<1>2. r \in BillRows /\ r.src = Manual /\ ~r.loose
  <2>1. "manual" \in Bills /\ n \in Nat
    BY AmountsAssumption DEF Bills
  <2>2. NewRow(Manual, "manual", n) \in BillRows /\ NewRow(Manual, "manual", n).src = Manual
        /\ ~NewRow(Manual, "manual", n).loose
    BY <2>1, NewRowIsRow
  <2> QED
    BY <1>1, <2>2 DEF BillRows
<1>3. SourcesTyped(src) /\ RowsOwned(rows, src) /\ pay \in [Payments -> Receipts]
  BY DEF BillsInv
<1>4. RowsOwned(Append(rows, r), src)
  BY <1>2, <1>3, OwnedRowAdded DEF RowOwned
<1>5. rows' = Append(rows, r) /\ src' = src /\ pay' = pay
  BY <1>1 DEF AddManual
<1> QED
  BY <1>3, <1>4, <1>5, NextIsSound

\* Payments and returns settle rows or rebuild them.
LEMMA PaymentKeepsBills ==
    ASSUME BillsInv, NEW p \in Payments,
           \/ \E n \in Amounts : SavePayment(p, n) \/ SaveReturn(p, n)
           \/ DeletePayment(p) \/ FlipPayment(p)
    PROVE  BillsInv'
<1>1. SourcesTyped(src) /\ RowsOwned(rows, src) /\ RowsTyped(rows) /\ pay \in [Payments -> Receipts] /\ Amounts \subseteq Int
  BY AmountsAssumption DEF BillsInv, RowsOwned
<1>2. ASSUME src' = src, pay' \in [Payments -> Receipts], rows' = Rebuild(rows, src, pay') PROVE BillsInv'
  <2>1. PICK D : Rebuilds(rows, src, pay', D, rows')
    BY <1>1, <1>2, RebuildIsBoth
  <2>2. RowsOwned(rows', src)
    BY <2>1 DEF Rebuilds
  <2> QED
    BY <1>1, <1>2, <2>2, NextIsSound
<1>3. pay[p] \in Receipts
  BY <1>1
<1>4. ASSUME NEW n \in Amounts, SavePayment(p, n) PROVE BillsInv'
  <2>1. [st |-> "active", amount |-> n] \in Receipts
    BY <1>1 DEF Receipts
  <2>2. pay' \in [Payments -> Receipts]
    BY <1>1, <1>4, <2>1 DEF SavePayment
  <2> QED
    BY <1>2, <1>4, <2>2 DEF SavePayment
<1>5. ASSUME NEW n \in Amounts, SaveReturn(p, n) PROVE BillsInv'
  <2>1. [st |-> "active", amount |-> n] \in Receipts /\ n \in Nat
    BY <1>1, <1>5 DEF Receipts, SaveReturn
  <2>2. pay' \in [Payments -> Receipts] /\ rows' = Settle(rows, n) /\ src' = src
    BY <1>1, <1>5, <2>1 DEF SaveReturn
  <2>3. Settles(rows, n, rows')
    BY <1>1, <2>1, <2>2, SettleSettles
  <2>4. RowsOwned(rows', src)
    <3>1. RowsTyped(rows') /\ Len(rows') = Len(rows) /\ DOMAIN rows' = 1..Len(rows') /\ DOMAIN rows = 1..Len(rows)
      <4>1. RowsTyped(rows') /\ Len(rows') = Len(rows)
        BY <2>3 DEF Settles
      <4> QED
        BY <1>1, <4>1 DEF RowsTyped
    <3>2. \A i \in 1..Len(rows) : /\ rows'[i].src = rows[i].src /\ rows'[i].bill = rows[i].bill
                                  /\ rows'[i].loose = rows[i].loose
      BY <2>3 DEF Settles
    <3>3. \A i \in 1..Len(rows) : RowOwned(rows[i], src)
      BY <1>1, <3>1 DEF RowsOwned
    <3> QED
      BY <3>1, <3>2, <3>3 DEF RowsOwned, RowOwned
  <2> QED
    BY <1>1, <2>2, <2>4, NextIsSound
<1>6. ASSUME DeletePayment(p) PROVE BillsInv'
  <2>1. [pay[p] EXCEPT !.st = "void"] \in Receipts
    BY <1>3 DEF Receipts
  <2>2. pay' \in [Payments -> Receipts]
    BY <1>1, <1>6, <2>1 DEF DeletePayment
  <2> QED
    BY <1>2, <1>6, <2>2 DEF DeletePayment
<1>7. ASSUME FlipPayment(p) PROVE BillsInv'
  <2>1. [pay[p] EXCEPT !.st = "void"] \in Receipts /\ [pay[p] EXCEPT !.st = "active"] \in Receipts
    BY <1>3 DEF Receipts
  <2>2. pay' \in [Payments -> Receipts]
    BY <1>1, <1>7, <2>1 DEF FlipPayment
  <2>3. src' = src /\ rows' = rows
    BY <1>7 DEF FlipPayment
  <2> QED
    BY <1>1, <2>2, <2>3, NextIsSound
<1> QED
  BY <1>4, <1>5, <1>6, <1>7

\* The repair of a legacy database synchronises the active sales again.
LEMMA FixSystemKeepsBills ==
    ASSUME BillsInv, FixSystem
    PROVE  BillsInv'
<1>1. PICK R, A, todo, refs : /\ R = Void(rows, {i \in DOMAIN rows : rows[i].src \in Sales})
                              /\ A = {s \in Sales : src[s].st = "active"}
                              /\ todo = Ascending(A) /\ refs = [s \in Sales |-> {}]
  OBVIOUS
<1>2. rows' = Derived(R, src, todo, refs) /\ src' = src /\ pay' = pay
  BY <1>1 DEF FixSystem
<1>3. /\ SourcesTyped(src) /\ RowsOwned(rows, src) /\ RowsTyped(rows) /\ pay \in [Payments -> Receipts]
      /\ rows \in Seq(BillRows) /\ DOMAIN rows = 1..Len(rows)
  BY DEF BillsInv, RowsOwned, RowsTyped
<1>4. R \in Seq(BillRows) /\ Len(R) = Len(rows) /\ DOMAIN R = 1..Len(rows)
      /\ \A i \in 1..Len(rows) : R[i].src = rows[i].src /\ R[i].bill = rows[i].bill /\ R[i].loose = rows[i].loose
  <2>1. PICK I : I = {i \in DOMAIN rows : rows[i].src \in Sales}
    OBVIOUS
  <2>2. MadeVoid(rows, I, R)
    BY <1>1, <1>3, <2>1, VoidRows
  <2>3. R \in Seq(BillRows) /\ Len(R) = Len(rows)
    BY <2>2 DEF MadeVoid
  <2>4. DOMAIN R = 1..Len(rows)
    BY <2>3
  <2>5. \A i \in 1..Len(rows) : R[i].src = rows[i].src /\ R[i].bill = rows[i].bill /\ R[i].loose = rows[i].loose
    BY <2>2 DEF MadeVoid
  <2> QED
    BY <2>3, <2>4, <2>5
<1>5. RowsOwned(R, src)
  <2>1. \A i \in 1..Len(rows) : RowOwned(rows[i], src) /\ (rows[i].loose => rows[i].src \in Bookings)
    BY <1>3 DEF RowsOwned, RowsTyped
  <2> QED
    BY <1>4, <2>1 DEF RowsOwned, RowsTyped, RowOwned
<1>6. A \in SUBSET Sources /\ A \in SUBSET Nat /\ IsFiniteSet(A)
  <2>1. A \in SUBSET Sources /\ Sources \in SUBSET Nat /\ IsFiniteSet(Sources)
    BY <1>1, SourcesAssumption DEF Sources
  <2> QED
    BY <2>1, FS_Subset
<1>7. todo \in Seq(A)
  BY <1>1, <1>6, AscendingListsAll
<1>8. todo \in Seq(Sources)
  <2>1. todo \in [1..Len(todo) -> A] /\ Len(todo) \in Nat
    BY <1>7
  <2>2. todo \in [1..Len(todo) -> Sources]
    BY <1>6, <2>1
  <2> QED
    BY <2>1, <2>2, SeqDef
<1>9. RowsTyped(R)
  BY <1>5 DEF RowsOwned
<1>10. PICK done : done = {todo[k] : k \in 1..Len(todo)}
  OBVIOUS
<1>11. PICK U : U = rows'
  OBVIOUS
<1>12. U = Derived(R, src, todo, refs)
  BY <1>2, <1>11
<1>13. RowsTyped(U) /\ OnlyOf(R, U, {todo[k] : k \in 1..Len(todo)})
  BY <1>3, <1>8, <1>9, <1>12, SourcesAreSynced
<1>14. \A s \in done : src[s].st # "none"
  BY <1>1, <1>7, <1>10
<1>15. RowsOwned(U, src)
  BY <1>5, <1>10, <1>13, <1>14, OwnersStay
<1> QED
  BY <1>2, <1>3, <1>11, <1>15, NextIsSound

\* Sources, rows and payments are sound in every state: a row is entered by hand,
\* or its sale or booking is there, or a revert added it and its booking is gone.
THEOREM BillsSoundHolds == BillsSpec => []BillsInv
<1>1. BillsInit => BillsInv
  BY InitKeepsBills
<1>2. BillsInv /\ [BillsNext]_billVars => BillsInv'
  <2>1. SUFFICES ASSUME BillsInv, [BillsNext]_billVars PROVE BillsInv'
    OBVIOUS
  <2>2. CASE UNCHANGED billVars
    BY <2>1, <2>2, NextIsSound DEF billVars, BillsInv
  <2>3. CASE BillsNext
    <3>1. CASE \E s \in Sources : \E S \in Forms(s) : Post(s, S) \/ Edit(s, S) \/ LedgerEdit(s, S)
      BY <2>1, <3>1, PostKeepsBills, EditKeepsBills, LedgerEditKeepsBills
    <3>2. CASE \E s \in Sources : Delete(s) \/ Restore(s)
      BY <2>1, <3>2, DeleteKeepsBills, RestoreKeepsBills
    <3>3. CASE \E b \in Bookings, n \in Dues : CancelBooking(b, n) \/ RevertCancel(b, n)
      BY <2>1, <3>3, AdjustKeepsBills DEF CancelBooking, RevertCancel
    <3>4. CASE \E n \in Dues : AddManual(n)
      BY <2>1, <3>4, AddManualKeepsBills
    <3>5. CASE \E i \in DOMAIN rows : (\E n \in Dues : EditRow(i, n)) \/ DeleteRow(i) \/ RestoreRow(i) \/ TogglePaid(i)
      BY <2>1, <3>5, RowPagesKeepBills
    <3>6. CASE \E p \in Payments : \/ \E n \in Amounts : SavePayment(p, n) \/ SaveReturn(p, n)
                                   \/ DeletePayment(p) \/ FlipPayment(p)
      BY <2>1, <3>6, PaymentKeepsBills
    <3>7. CASE FixSystem
      BY <2>1, <3>7, FixSystemKeepsBills
    <3> QED
      BY <2>3, <3>1, <3>2, <3>3, <3>4, <3>5, <3>6, <3>7 DEF BillsNext
  <2> QED
    BY <2>1, <2>2, <2>3
<1> QED
  BY <1>1, <1>2, PTL DEF BillsSpec

\* rebuild_pending_bills settles the oldest bill first, whatever was done before.
THEOREM OldestSettledFirstHolds == BillsSpec => []OldestSettledFirst
<1>1. BillsInv => OldestSettledFirst
  BY SoundSettlesOldestFirst
<1> QED
  BY <1>1, BillsSoundHolds, PTL

------------------------------------------------------------------------------
\* With no bill entered by hand and no stray one, a rebuild leaves no row without a source.
Clean(D) == \A i \in 1..Len(D) : ~D[i].loose /\ (D[i].src = Manual => D[i].void)

\* Every rebuild is clean.
LEMMA RebuildIsClean ==
    ASSUME SourcesTyped(src), RowsOwned(rows, src), NothingManual, Strays = {},
           NEW PAY, NEW D, NEW now, Rebuilds(rows, src, PAY, D, now)
    PROVE  Clean(D)
<1>1. RowsTyped(rows) /\ DOMAIN rows = 1..Len(rows) /\ Len(rows) \in Nat /\ Len(D) \in Nat
  <2>1. RowsTyped(rows) /\ RowsTyped(D)
    BY DEF RowsOwned, Rebuilds
  <2> QED
    BY <2>1 DEF RowsTyped
<1>2. /\ \A i \in 1..Len(rows) : /\ D[i].src = rows[i].src /\ D[i].bill = rows[i].bill
                                 /\ (D[i].loose => rows[i].loose)
                                 /\ rows[i].src \notin There(src) => D[i] = rows[i]
      /\ \A i \in (Len(rows) + 1)..Len(D) : D[i].src \in There(src) /\ ~D[i].loose
  BY DEF Rebuilds, OnlyOf
<1>3. Manual \notin There(src)
  BY SourcesAssumption DEF There, Manual, Sources
<1>4. ASSUME NEW i \in 1..Len(D), D[i].src = Manual PROVE D[i].void
  <2>1. i \in 1..Len(rows)
    BY <1>1, <1>2, <1>3, <1>4
  <2>2. rows[i].src = Manual /\ D[i] = rows[i]
    BY <1>2, <1>3, <1>4, <2>1
  <2>3. i \notin Active(rows, Manual)
    BY DEF NothingManual
  <2> QED
    BY <1>1, <2>1, <2>2, <2>3 DEF Active, Of
<1>5. ASSUME NEW i \in 1..Len(D), D[i].loose PROVE FALSE
  <2>1. i \in 1..Len(rows)
    BY <1>1, <1>2, <1>5
  <2>2. rows[i].loose /\ D[i].src = rows[i].src /\ D[i].bill = rows[i].bill
    BY <1>2, <1>5, <2>1
  <2>3. PICK s : s = rows[i].src
    OBVIOUS
  <2>4. s \in Bookings /\ s \in Sources /\ s # Manual
    BY <1>1, <2>1, <2>2, <2>3, SourcesAssumption DEF RowsTyped, Sources
  <2>5. i \notin Strays
    OBVIOUS
  <2>6. rows[i].bill \in RefsOf(src[s])
    BY <1>1, <2>1, <2>2, <2>3, <2>5 DEF Strays
  <2>7. src[s].st # "none"
    <3>1. SUFFICES ASSUME src[s].st = "none" PROVE FALSE
      OBVIOUS
    <3>2. src[s] = NoSource
      BY <2>4, <3>1 DEF SourcesTyped
    <3>3. rows[i].bill = "auto"
      BY <2>6, <3>2 DEF RefsOf, NoSource
    <3>4. RowOwned(rows[i], src)
      BY <1>1, <2>1 DEF RowsOwned
    <3> QED
      BY <2>3, <2>4, <3>1, <3>3, <3>4 DEF RowOwned
  <2>8. Single(D, s, src[s])
    BY <2>4, <2>7 DEF There, Rebuilds
  <2>9. DOMAIN D = 1..Len(D)
    BY DEF Rebuilds, RowsTyped
  <2> QED
    BY <1>5, <2>2, <2>3, <2>6, <2>8, <2>9 DEF Single
<1> QED
  BY <1>4, <1>5 DEF Clean

\* The bills due before any payment are the dues of the active sources.
LEMMA DerivedOwesTheDues ==
    ASSUME NEW SRC, SourcesTyped(SRC), NEW R, NEW PAY, NEW D, NEW now, Rebuilds(R, SRC, PAY, D, now), Clean(D),
           NEW h, h = [s \in Sources |-> SRC[s].due]
    PROVE  Owed(D, Open(D)) = SumFunctionOnSet(h, {s \in Sources : SRC[s].st = "active"})
<1> DEFINE Act == {s \in Sources : SRC[s].st = "active"}
           Due == {s \in Sources : SRC[s].st = "active" /\ SRC[s].due > 0}
           g == [s \in Due |-> CHOOSE m \in 1..Len(D) : D[m].src = s /\ ~D[m].void]
           f == [i \in DOMAIN D |-> D[i].amount]
<1>1. RowsTyped(D) /\ DOMAIN D = 1..Len(D)
  BY DEF Rebuilds, RowsTyped
<1>2. \A s \in Sources : SRC[s] \in Documents /\ h[s] = SRC[s].due /\ h[s] \in Nat
  BY DEF SourcesTyped, Documents
<1>3. ASSUME NEW j \in 1..Len(D), ~D[j].void
      PROVE  /\ D[j].src \in Sources /\ D[j].src \in There(SRC) /\ Wanted(SRC[D[j].src])
             /\ Posted(D[j], D[j].src, SRC[D[j].src])
             /\ \A i \in 1..Len(D) : D[i].src = D[j].src /\ ~D[i].void => i = j
  <2>1. D[j].src # Manual /\ ~D[j].loose /\ \A i \in 1..Len(D) : ~D[i].loose
    BY <1>3 DEF Clean
  <2>2. /\ D[j].src \in There(SRC) /\ Wanted(SRC[D[j].src])
        /\ Posted(D[j], D[j].src, SRC[D[j].src])
        /\ \A i \in 1..Len(D) : D[i].src = D[j].src /\ ~D[i].void /\ ~D[i].loose => i = j
    BY <1>3, <2>1, ActiveRowIsDue
  <2> QED
    BY <2>1, <2>2 DEF There
<1>4. ASSUME NEW s \in Due
      PROVE  /\ g[s] \in 1..Len(D) /\ D[g[s]].src = s /\ ~D[g[s]].void
             /\ g[s] \in Open(D) /\ D[g[s]].amount = SRC[s].due
  <2>1. s \in Sources /\ SRC[s].st = "active" /\ SRC[s].due > 0
    OBVIOUS
  <2>2. Single(D, s, SRC[s]) /\ Wanted(SRC[s])
    BY <2>1 DEF Rebuilds, There, Wanted
  <2>3. \E m \in 1..Len(D) : D[m].src = s /\ ~D[m].void
    BY <1>1, <2>2 DEF Single, Posted
  <2>4. g[s] \in 1..Len(D) /\ D[g[s]].src = s /\ ~D[g[s]].void
    BY <2>3
  <2> HIDE DEF g
  <2>5. Posted(D[g[s]], s, SRC[s])
    BY <1>3, <2>4
  <2>6. D[g[s]].amount = SRC[s].due /\ ~D[g[s]].paid
    <3>1. D[g[s]].amount = SRC[s].due /\ D[g[s]].paid = (SRC[s].due = 0)
      BY <2>5 DEF Posted
    <3>2. (SRC[s].due = 0) = FALSE
      BY <1>2, <2>1
    <3> QED
      BY <3>1, <3>2
  <2>7. g[s] \in Open(D)
    BY <1>1, <2>1, <2>4, <2>6 DEF Open
  <2> QED
    BY <2>4, <2>6, <2>7
<1> HIDE DEF g
<1>5. ASSUME NEW i \in Open(D) PROVE \E s \in Due : g[s] = i
  <2>1. i \in 1..Len(D) /\ ~D[i].void /\ D[i].amount > 0
    BY <1>1 DEF Open
  <2>2. PICK s : s = D[i].src
    OBVIOUS
  <2>3. s \in Sources /\ Wanted(SRC[s]) /\ D[i].amount = SRC[s].due
    BY <1>3, <2>1, <2>2 DEF Posted
  <2>4. s \in Due
    BY <2>1, <2>3 DEF Wanted
  <2>5. g[s] \in 1..Len(D) /\ D[g[s]].src = s /\ ~D[g[s]].void
    BY <1>4, <2>4
  <2>6. g[s] = i
    BY <1>3, <2>1, <2>2, <2>5
  <2> QED
    BY <2>4, <2>6
<1>6. {g[s] : s \in Due} = Open(D)
  BY <1>4, <1>5
<1>7. \A s, q \in Due : g[s] = g[q] => s = q
  BY <1>4
<1>8. \A s \in Due : h[s] \in Int /\ f[g[s]] = h[s]
  <2> TAKE s \in Due
  <2>1. h[s] \in Int /\ h[s] = SRC[s].due
    BY <1>2
  <2>2. f[g[s]] = D[g[s]].amount
    BY <1>1, <1>4
  <2> QED
    BY <1>4, <2>1, <2>2
<1>9. Act \in SUBSET Sources /\ Due \in SUBSET Act /\ IsFiniteSet(Sources)
  BY SourcesAssumption
<1>10. IsFiniteSet(Act)
  BY <1>9, FS_Subset
<1>11. IsFiniteSet(Due) /\ IsFiniteSet(Act \ Due)
  <2>1. IsFiniteSet(Due)
    BY <1>9, <1>10, FS_Subset
  <2>2. Act \ Due \in SUBSET Act
    OBVIOUS
  <2>3. IsFiniteSet(Act \ Due)
    BY <1>10, <2>2, FS_Subset
  <2> QED
    BY <2>1, <2>3
<1>12. \A s \in Act \ Due : h[s] = 0
  BY <1>2
<1>13. Owed(D, Open(D)) = SumFunctionOnSet(f, Open(D))
  BY DEF Owed
<1> HIDE DEF Due, Act, f
<1>14. SumFunctionOnSet(f, {g[s] : s \in Due}) = SumFunctionOnSet(h, Due)
  BY <1>7, <1>8, <1>11, SumRenamed
<1>15. SumFunctionOnSet(h, Act) = SumFunctionOnSet(h, Due) + SumFunctionOnSet(h, Act \ Due)
  <2>1. \A s \in Act : h[s] \in Int
    BY <1>2, <1>9
  <2> QED
    BY <1>9, <1>10, <2>1, SumSplit, ZenonT(40)
<1>16. SumFunctionOnSet(h, Act \ Due) = 0
  BY <1>11, <1>12, SumZero
<1>17. SumFunctionOnSet(h, Due) \in Nat
  <2>1. \A s \in Due : h[s] \in Nat
    BY <1>2, <1>9
  <2> QED
    BY <1>11, <2>1, SumType
<1>18. SumFunctionOnSet(h, Act) = SumFunctionOnSet(f, Open(D))
  <2>1. SumFunctionOnSet(f, Open(D)) = SumFunctionOnSet(h, Due)
    BY <1>6, <1>14
  <2>2. SumFunctionOnSet(h, Act) = SumFunctionOnSet(h, Due) + 0
    BY <1>15, <1>16
  <2>3. \A n \in Nat : n + 0 = n
    OBVIOUS
  <2> QED
    BY <1>17, <2>1, <2>2, <2>3
<1> QED
  BY <1>13, <1>18 DEF Act

\* Making void rows void changes nothing.
LEMMA NoneMadeVoid ==
    ASSUME NEW T \in Seq(BillRows), NEW I, \A i \in 1..Len(T) : i \in I => T[i].void
    PROVE  Void(T, I) = T
<1>1. DOMAIN T = 1..Len(T) /\ \A i \in 1..Len(T) : T[i] \in BillRows
  OBVIOUS
<1>2. \A r \in BillRows : r.void => [r EXCEPT !.void = TRUE] = r
  BY DEF BillRows
<1>3. \A i \in DOMAIN T : (IF i \in I THEN [T[i] EXCEPT !.void = TRUE] ELSE T[i]) = T[i]
  BY <1>1, <1>2
<1>4. T = [i \in DOMAIN T |-> T[i]]
  OBVIOUS
<1> QED
  BY <1>3, <1>4 DEF Void

\* Rows that differ from the derived ones in what payments have taken.
Lowered(D, T) ==
    /\ T \in Seq(BillRows) /\ Len(T) = Len(D)
    /\ \A i \in 1..Len(D) :
          /\ D[i].void => T[i] = D[i]
          /\ ~D[i].void => T[i] = [D[i] EXCEPT !.amount = T[i].amount, !.paid = T[i].paid]

\* They keep their source, number and state.
LEMMA LoweredSame ==
    ASSUME NEW D, RowsTyped(D), NEW T, Lowered(D, T), NEW i \in 1..Len(D)
    PROVE  /\ T[i].src = D[i].src /\ T[i].bill = D[i].bill /\ T[i].loose = D[i].loose
           /\ (T[i].void <=> D[i].void) /\ T[i] \in BillRows /\ D[i] \in BillRows
<1>1. T[i] \in BillRows /\ D[i] \in BillRows
  <2>1. T \in Seq(BillRows) /\ Len(T) = Len(D) /\ D \in Seq(BillRows)
    BY DEF Lowered, RowsTyped
  <2> QED
    BY <2>1
<1>2. T[i] = D[i] \/ T[i] = [D[i] EXCEPT !.amount = T[i].amount, !.paid = T[i].paid]
  BY DEF Lowered
<1> QED
  BY <1>1, <1>2 DEF BillRows

\* Synchronising a source again gives its row what it had before the payments.
Resets(D, T, U, s) ==
    /\ Lowered(D, U)
    /\ \A i \in 1..Len(D) : U[i] = IF D[i].src = s THEN D[i] ELSE T[i]

ResetRow(T, m, n, c) == [T EXCEPT ![m].amount = n, ![m].paid = c]
OthersAreVoid(D, s, m) == \A i \in 1..Len(D) \ {m} : D[i].src = s => D[i].void

\* The active row of a source is written with what is due, as it was derived.
LEMMA OneRowReset ==
    ASSUME NEW D, RowsTyped(D), NEW T, Lowered(D, T), NEW s, NEW n \in Nat, NEW c \in BOOLEAN,
           NEW m \in 1..Len(D), D[m].src = s, ~D[m].void, D[m].amount = n, D[m].paid = c,
           OthersAreVoid(D, s, m), NEW U, U = ResetRow(T, m, n, c)
    PROVE  Resets(D, T, U, s)
<1>1. T \in Seq(BillRows) /\ Len(T) = Len(D) /\ D[m] \in BillRows /\ DOMAIN T = 1..Len(D)
  <2>1. T \in Seq(BillRows) /\ Len(T) = Len(D) /\ D \in Seq(BillRows)
    BY DEF Lowered, RowsTyped
  <2>2. DOMAIN T = 1..Len(T) /\ D[m] \in BillRows
    BY <2>1
  <2> QED
    BY <2>1, <2>2
<1>2. T[m] \in BillRows /\ T[m] = [D[m] EXCEPT !.amount = T[m].amount, !.paid = T[m].paid]
  <2>1. T[m] = [D[m] EXCEPT !.amount = T[m].amount, !.paid = T[m].paid]
    BY DEF Lowered
  <2>2. m \in 1..Len(T)
    BY <1>1
  <2>3. T[m] \in BillRows
    BY <1>1, <2>2
  <2> QED
    BY <2>1, <2>3
<1>3. [T[m] EXCEPT !.amount = n, !.paid = c] = D[m]
  <2>1. PICK d, t, a, p : d = D[m] /\ t = T[m] /\ a = T[m].amount /\ p = T[m].paid
    OBVIOUS
  <2>2. d \in BillRows /\ t = [d EXCEPT !.amount = a, !.paid = p] /\ d.amount = n /\ d.paid = c
    BY <1>1, <1>2, <2>1
  <2>3. [t EXCEPT !.amount = n, !.paid = c] = d
    BY <2>2 DEF BillRows
  <2> QED
    BY <2>1, <2>3
<1>4. U = [T EXCEPT ![m] = [T[m] EXCEPT !.amount = n, !.paid = c]]
  BY <1>1, <1>2 DEF BillRows, ResetRow
<1>5. U = [T EXCEPT ![m] = D[m]]
  BY <1>3, <1>4
<1>6. U \in Seq(BillRows) /\ Len(U) = Len(D) /\ U[m] = D[m] /\ \A i \in 1..Len(D) \ {m} : U[i] = T[i]
  <2>1. m \in 1..Len(T)
    BY <1>1
  <2>2. U \in Seq(BillRows) /\ Len(U) = Len(T) /\ U[m] = D[m] /\ \A i \in 1..Len(T) \ {m} : U[i] = T[i]
    <3>1. PICK d : d = D[m]
      OBVIOUS
    <3>2. d \in BillRows /\ U = [T EXCEPT ![m] = d]
      BY <1>1, <1>5, <3>1
    <3>3. /\ [T EXCEPT ![m] = d] \in Seq(BillRows) /\ Len([T EXCEPT ![m] = d]) = Len(T)
          /\ [T EXCEPT ![m] = d][m] = d
          /\ \A i \in 1..Len(T) \ {m} : [T EXCEPT ![m] = d][i] = T[i]
      BY <1>1, <2>1, <3>2, OneRowWritten
    <3> QED
      BY <3>1, <3>2, <3>3
  <2> QED
    BY <1>1, <2>2
<1>7. \A i \in 1..Len(D) \ {m} : D[i].src = s => T[i] = D[i]
  BY DEF Lowered, OthersAreVoid
<1>8. \A i \in 1..Len(D) : U[i] = IF D[i].src = s THEN D[i] ELSE T[i]
  BY <1>6, <1>7
<1>9. \A d \in BillRows : d = [d EXCEPT !.amount = d.amount, !.paid = d.paid]
  BY DEF BillRows
<1>10. D[m] = [D[m] EXCEPT !.amount = D[m].amount, !.paid = D[m].paid]
  BY <1>1, <1>9
<1>11. Lowered(D, U)
  BY <1>6, <1>10, ZenonT(40) DEF Lowered
<1> QED
  BY <1>8, <1>11 DEF Resets

\* A source without an active row leaves the rows as they are.
LEMMA NoRowReset ==
    ASSUME NEW D, NEW T, Lowered(D, T), NEW s, \A i \in 1..Len(D) : D[i].src = s => D[i].void
    PROVE  Resets(D, T, T, s)
  BY DEF Resets, Lowered

\* Sync does that to each source that is there.
LEMMA SyncedAgain ==
    ASSUME NEW D, RowsTyped(D), Clean(D), NEW s \in Sources, NEW S \in Documents,
           S.billed => s \in Sales, Single(D, s, S), NEW T, Lowered(D, T),
           NEW U, U = Sync(T, s, S, RefsOf(S))
    PROVE  Resets(D, T, U, s)
<1>1. /\ T \in Seq(BillRows) /\ Len(T) = Len(D) /\ DOMAIN T = 1..Len(D) /\ DOMAIN D = 1..Len(D)
      /\ Len(D) \in Nat
  <2>1. T \in Seq(BillRows) /\ Len(T) = Len(D) /\ D \in Seq(BillRows)
    BY DEF Lowered, RowsTyped
  <2>2. DOMAIN T = 1..Len(T) /\ DOMAIN D = 1..Len(D) /\ Len(D) \in Nat
    BY <2>1
  <2> QED
    BY <2>1, <2>2
<1>2. \A i \in 1..Len(D) : /\ T[i].src = D[i].src /\ T[i].bill = D[i].bill /\ ~T[i].loose /\ ~D[i].loose
                           /\ (T[i].void <=> D[i].void) /\ T[i] \in BillRows /\ D[i] \in BillRows
  BY LoweredSame DEF Clean
<1>3. \A i \in 1..Len(D) : D[i].src = s /\ ~D[i].void =>
          /\ Wanted(S) /\ Posted(D[i], s, S)
          /\ \A j \in 1..Len(D) \ {i} : D[j].src = s => D[j].void
  <2>1. ASSUME NEW i \in 1..Len(D), D[i].src = s, ~D[i].void
        PROVE  /\ Wanted(S) /\ Posted(D[i], s, S)
               /\ \A j \in 1..Len(D) \ {i} : D[j].src = s => D[j].void
    <3>1. Wanted(S)
      BY <1>1, <1>2, <2>1 DEF Single
    <3>2. PICK m \in DOMAIN D : /\ Posted(D[m], s, S)
                                /\ \A j \in DOMAIN D \ {m} : D[j].src = s => D[j].void \/ D[j].loose
      BY <3>1 DEF Single
    <3>3. m = i
      BY <1>1, <1>2, <2>1, <3>2
    <3> QED
      BY <1>1, <1>2, <3>1, <3>2, <3>3
  <2> QED
    BY <2>1
<1>4. Wanted(S) => \E m \in 1..Len(D) : D[m].src = s /\ ~D[m].void
  BY <1>1 DEF Single, Posted
<1>5. CASE s \in Sales
  <2>1. PICK old : old = {i \in Of(T, s) : T[i].bill \in RefsOf(S) \ {S.bill}}
    OBVIOUS
  <2>2. \A i \in 1..Len(T) : i \in old => T[i].void
    <3> TAKE i \in 1..Len(T)
    <3>1. i \in old => T[i].src = s /\ T[i].bill \in RefsOf(S) \ {S.bill}
      BY <2>1 DEF Of
    <3>2. D[i].src = s /\ ~D[i].void => D[i].bill \notin RefsOf(S) \ {S.bill}
      BY <1>1, <1>3 DEF Posted
    <3> QED
      BY <1>1, <1>2, <3>1, <3>2
  <2>3. Void(T, old) = T
    BY <1>1, <2>2, NoneMadeVoid
  <2>4. PICK live : live = Active(T, s)
    BY Zenon
  <2>5. U = CASE ~Wanted(S) -> Void(T, Of(T, s))
              [] Wanted(S) /\ live = {} -> Append(T, NewRow(s, S.bill, S.due))
              [] OTHER -> [Void(T, live \ {Max(live)}) EXCEPT
                               ![Max(live)].amount = S.due, ![Max(live)].paid = S.due = 0]
    BY <1>5, <2>1, <2>3, <2>4, Zenon DEF Sync, SyncSale, Wanted
  <2>6. CASE ~Wanted(S)
    <3>1. \A i \in 1..Len(D) : D[i].src = s => D[i].void
      BY <1>3, <2>6
    <3>2. PICK I : I = Of(T, s)
      OBVIOUS
    <3>3. \A i \in 1..Len(T) : i \in I => T[i].void
      BY <1>1, <1>2, <3>1, <3>2 DEF Of
    <3>4. Void(T, I) = T
      BY <1>1, <3>3, NoneMadeVoid
    <3>5. U = T
      BY <2>5, <2>6, <3>2, <3>4
    <3> QED
      BY <3>1, <3>5, NoRowReset
  <2>7. CASE Wanted(S)
    <3>1. PICK m \in 1..Len(D) : D[m].src = s /\ ~D[m].void
      BY <1>4, <2>7
    <3>2. Posted(D[m], s, S) /\ \A j \in 1..Len(D) \ {m} : D[j].src = s => D[j].void
      BY <1>3, <3>1
    <3>3. live = {m}
      BY <1>1, <1>2, <2>4, <3>1, <3>2 DEF Active, Of
    <3>4. Max(live) = m
      <4>1. live \in SUBSET (1..Len(D)) /\ live # {}
        BY <3>3
      <4> QED
        BY <1>1, <3>3, <4>1, NewestIsOne
    <3>5. Void(T, live \ {m}) = T
      <4>1. PICK I : I = live \ {m}
        OBVIOUS
      <4>2. \A i \in 1..Len(T) : i \in I => T[i].void
        BY <3>3, <4>1
      <4> QED
        BY <1>1, <4>1, <4>2, NoneMadeVoid
    <3>6. PICK c : c = (S.due = 0)
      OBVIOUS
    <3>7. U = [T EXCEPT ![m].amount = S.due, ![m].paid = c]
      <4>1. U = [Void(T, live \ {m}) EXCEPT ![m].amount = S.due, ![m].paid = S.due = 0]
        BY <2>5, <2>7, <3>3, <3>4
      <4> QED
        BY <3>5, <3>6, <4>1
    <3>8. S.due \in Nat /\ c \in BOOLEAN /\ D[m].amount = S.due /\ D[m].paid = c
      BY <3>2, <3>6 DEF Documents, Posted
    <3>9. PICK n : n = S.due
      OBVIOUS
    <3>10. U = ResetRow(T, m, n, c) /\ n \in Nat /\ D[m].amount = n /\ OthersAreVoid(D, s, m)
      BY <3>2, <3>7, <3>8, <3>9 DEF ResetRow, OthersAreVoid
    <3> QED
      BY <3>1, <3>8, <3>10, OneRowReset
  <2> QED
    BY <2>6, <2>7
<1>6. CASE s \notin Sales
  <2>1. s \in Bookings /\ ~S.billed
    BY <1>6 DEF Sources
  <2>2. PICK due, found, usable :
            /\ due = (S.st = "active" /\ S.due > 0) /\ found = Tracked(T, s, RefsOf(S) \cup RefsOf(S))
            /\ usable = {i \in found : due /\ ~T[i].void /\ T[i].bill = S.bill}
    OBVIOUS
  <2>3. due = Wanted(S)
    BY <2>1, <2>2 DEF Wanted
  <2>4. found = {i \in 1..Len(D) : D[i].src = s}
    BY <1>1, <1>2, <2>2 DEF Tracked, Of
  <2>5. [i \in DOMAIN T |-> IF i \in found THEN [T[i] EXCEPT !.loose = FALSE] ELSE T[i]] = T
    <3>1. \A r \in BillRows : ~r.loose => [r EXCEPT !.loose = FALSE] = r
      BY DEF BillRows
    <3>2. \A i \in DOMAIN T : (IF i \in found THEN [T[i] EXCEPT !.loose = FALSE] ELSE T[i]) = T[i]
      BY <1>1, <1>2, <3>1
    <3>3. T = [i \in DOMAIN T |-> T[i]]
      <4>1. T \in Seq(BillRows)
        BY <1>1
      <4> HIDE DEF BillRows
      <4> QED
        BY ONLY <4>1
    <3> QED
      BY <3>2, <3>3
  <2>6. U = CASE usable # {} -> [Void(T, found \ {Max(usable)}) EXCEPT
                                     ![Max(usable)].amount = S.due, ![Max(usable)].paid = FALSE]
              [] usable = {} /\ due -> Append(Void(T, found), NewRow(s, S.bill, S.due))
              [] OTHER -> Void(T, found)
    BY <1>6, <2>2, <2>5, Zenon DEF Sync, SyncBooking
  <2>7. CASE ~Wanted(S)
    <3>1. \A i \in 1..Len(D) : D[i].src = s => D[i].void
      BY <1>3, <2>7
    <3>2. usable = {} /\ ~due
      BY <2>2, <2>3, <2>7
    <3>3. \A i \in 1..Len(T) : i \in found => T[i].void
      BY <1>1, <1>2, <2>4, <3>1
    <3>4. Void(T, found) = T
      BY <1>1, <3>3, NoneMadeVoid
    <3>5. U = T
      BY <2>6, <3>2, <3>4
    <3> QED
      BY <3>1, <3>5, NoRowReset
  <2>8. CASE Wanted(S)
    <3>1. PICK m \in 1..Len(D) : D[m].src = s /\ ~D[m].void
      BY <1>4, <2>8
    <3>2. Posted(D[m], s, S) /\ \A j \in 1..Len(D) \ {m} : D[j].src = s => D[j].void
      BY <1>3, <3>1
    <3>3. D[m].bill = S.bill
      BY <2>1, <3>2 DEF Posted
    <3>4. usable = {m}
      BY <1>2, <2>2, <2>3, <2>4, <2>8, <3>1, <3>2, <3>3
    <3>5. Max(usable) = m
      <4>1. usable \in SUBSET (1..Len(D)) /\ usable # {}
        BY <3>4
      <4> QED
        BY <1>1, <3>4, <4>1, NewestIsOne
    <3>6. Void(T, found \ {m}) = T
      <4>1. PICK I : I = found \ {m}
        OBVIOUS
      <4>2. \A i \in 1..Len(T) : i \in I => T[i].void
        BY <1>1, <1>2, <2>4, <3>2, <4>1
      <4> QED
        BY <1>1, <4>1, <4>2, NoneMadeVoid
    <3>7. U = [T EXCEPT ![m].amount = S.due, ![m].paid = FALSE]
      <4>1. U = [Void(T, found \ {m}) EXCEPT ![m].amount = S.due, ![m].paid = FALSE]
        BY <2>6, <3>4, <3>5
      <4> QED
        BY <3>6, <4>1
    <3>8. S.due \in Nat /\ D[m].amount = S.due /\ D[m].paid = FALSE
      <4>1. D[m].amount = S.due /\ D[m].paid = (S.due = 0) /\ S.due \in Nat
        BY <3>2 DEF Documents, Posted
      <4>2. (S.due = 0) = FALSE
        BY <2>1, <2>8, <4>1 DEF Wanted
      <4> QED
        BY <4>1, <4>2
    <3>9. PICK c : c = FALSE
      OBVIOUS
    <3>10. U = [T EXCEPT ![m].amount = S.due, ![m].paid = c] /\ c \in BOOLEAN /\ D[m].paid = c
      BY <3>7, <3>8, <3>9
    <3>11. PICK n : n = S.due
      OBVIOUS
    <3>12. U = ResetRow(T, m, n, c) /\ n \in Nat /\ D[m].amount = n /\ OthersAreVoid(D, s, m)
      BY <3>2, <3>8, <3>10, <3>11 DEF ResetRow, OthersAreVoid
    <3> QED
      BY <3>1, <3>10, <3>12, OneRowReset
  <2> QED
    BY <2>7, <2>8
<1> QED
  BY <1>5, <1>6

\* Payments lower open rows and touch nothing else of them.
LEMMA PaymentsLower ==
    ASSUME NEW D, RowsTyped(D), NEW now, AfterPayments(D, now)
    PROVE  Lowered(D, now)
<1>1. now \in Seq(BillRows) /\ Len(now) = Len(D)
  BY DEF AfterPayments, RowsTyped
<1>2. ASSUME NEW i \in 1..Len(D)
      PROVE  /\ D[i].void => now[i] = D[i]
             /\ ~D[i].void => now[i] = [D[i] EXCEPT !.amount = now[i].amount, !.paid = now[i].paid]
  <2>1. D[i] \in BillRows
    BY DEF RowsTyped
  <2>2. \A d \in BillRows : d = [d EXCEPT !.amount = d.amount, !.paid = d.paid]
    BY DEF BillRows
  <2>3. /\ i \notin Open(D) => now[i] = D[i]
        /\ i \in Open(D) => now[i] = [D[i] EXCEPT !.amount = now[i].amount, !.paid = now[i].paid]
    BY DEF AfterPayments
  <2>4. CASE i \in Open(D)
    BY <2>3, <2>4 DEF Open
  <2>5. CASE i \notin Open(D)
    BY <2>1, <2>2, <2>3, <2>5
  <2> QED
    BY <2>4, <2>5
<1> QED
  BY <1>1, <1>2 DEF Lowered

\* From rows the payments have lowered, synchronising every source gives the derived rows.
LEMMA DerivedAgain ==
    ASSUME NEW SRC, SourcesTyped(SRC), NEW R, NEW PAY, NEW D, NEW now, Rebuilds(R, SRC, PAY, D, now),
           Clean(D), NEW todo, Visits(todo, There(SRC)), NEW refs, refs = Numbers(SRC)
    PROVE  Derived(now, SRC, todo, refs) = D
<1> DEFINE after == CHOOSE f : f = [n \in 0..Len(todo) |->
                        IF n = 0 THEN now ELSE Sync(f[n - 1], todo[n], SRC[todo[n]], refs[todo[n]])]
           done(n) == {todo[k] : k \in 1..n}
           Right(T, n) == /\ Lowered(D, T)
                          /\ \A i \in 1..Len(D) : T[i] = IF D[i].src \in done(n) THEN D[i] ELSE now[i]
<1>1. /\ RowsTyped(D) /\ RowsOwned(D, SRC) /\ RowsTyped(now) /\ AfterPayments(D, now)
      /\ \A s \in There(SRC) : Single(D, s, SRC[s])
  BY DEF Rebuilds, RowsOwned
<1>2. todo \in Seq(Sources) /\ {todo[k] : k \in 1..Len(todo)} = There(SRC) /\ Len(todo) \in Nat
  BY DEF Visits
<1>3. after = [n \in 0..Len(todo) |->
                  IF n = 0 THEN now ELSE Sync(after[n - 1], todo[n], SRC[todo[n]], refs[todo[n]])]
  <2>1. \E f : Derives(f, now, SRC, todo, refs)
    BY <1>1, <1>2, SourcesOneByOne
  <2> QED
    BY <2>1 DEF Derives
<1>4. Derived(now, SRC, todo, refs) = after[Len(todo)]
  BY DEF Derived
<1> HIDE DEF after
<1>5. Right(after[0], 0)
  <2>1. after[0] = now /\ done(0) = {}
    BY <1>2, <1>3
  <2>2. Lowered(D, now)
    BY <1>1, PaymentsLower
  <2> QED
    BY <2>1, <2>2
<1>6. ASSUME NEW n \in 1..Len(todo), Right(after[n - 1], n - 1) PROVE Right(after[n], n)
  <2>1. PICK T, W, s, S : T = after[n - 1] /\ W = after[n] /\ s = todo[n] /\ S = SRC[s]
    OBVIOUS
  <2>2. n \in 0..Len(todo) /\ n # 0 /\ s \in Sources /\ s \in There(SRC)
    BY <1>2, <2>1
  <2>3. W = Sync(T, s, S, RefsOf(S))
    <3>1. W = Sync(T, s, S, refs[s])
      BY <1>3, <2>1, <2>2
    <3>2. refs[s] = RefsOf(S)
      BY <2>1, <2>2 DEF Numbers
    <3> QED
      BY <3>1, <3>2
  <2>4. S \in Documents /\ (S.billed => s \in Sales) /\ Single(D, s, S)
    BY <1>1, <2>1, <2>2 DEF SourcesTyped
  <2>5. Lowered(D, T) /\ \A i \in 1..Len(D) : T[i] = IF D[i].src \in done(n - 1) THEN D[i] ELSE now[i]
    BY <1>6, <2>1
  <2>6. Resets(D, T, W, s)
    BY <1>1, <2>2, <2>3, <2>4, <2>5, SyncedAgain
  <2>7. done(n) = done(n - 1) \cup {s}
    <3>1. 1..n = 1..(n - 1) \cup {n}
      BY <1>2
    <3> QED
      BY <2>1, <3>1
  <2> HIDE DEF done
  <2>8. Lowered(D, W) /\ \A i \in 1..Len(D) : W[i] = IF D[i].src \in done(n) THEN D[i] ELSE now[i]
    BY <2>5, <2>6, <2>7 DEF Resets
  <2> QED
    BY <2>1, <2>8
<1>7. \A n \in 0..Len(todo) : Right(after[n], n)
  <2> DEFINE A == {n \in 0..Len(todo) : Right(after[n], n)}
  <2> HIDE DEF Right
  <2>1. 0 \in A
    BY <1>2, <1>5
  <2>2. \A n \in 1..Len(todo) : n - 1 \in A => n \in A
    BY <1>2, <1>6
  <2> HIDE DEF A
  <2>3. \A n \in 0..Len(todo) : n \in A
    BY <1>2, <2>1, <2>2, UpTo
  <2> QED
    BY <2>3 DEF A
<1>8. PICK U : U = after[Len(todo)]
  OBVIOUS
<1>9. Lowered(D, U) /\ \A i \in 1..Len(D) : U[i] = IF D[i].src \in There(SRC) THEN D[i] ELSE now[i]
  <2>1. Len(todo) \in 0..Len(todo)
    BY <1>2
  <2>2. Right(after[Len(todo)], Len(todo))
    BY <1>7, <2>1
  <2> QED
    BY <1>2, <1>8, <2>2
<1>10. ASSUME NEW i \in 1..Len(D) PROVE U[i] = D[i]
  <2>1. CASE D[i].src \in There(SRC)
    BY <1>9, <2>1
  <2>2. CASE D[i].src \notin There(SRC)
    <3>1. D[i] \in BillRows /\ i \in DOMAIN D
      BY <1>1 DEF RowsTyped
    <3>2. D[i].src = Manual
      <4>1. RowOwned(D[i], SRC) /\ ~D[i].loose /\ D[i].src \in Sources \cup {Manual}
        BY <1>1, <3>1 DEF RowsOwned, Clean, BillRows
      <4> QED
        BY <2>2, <4>1 DEF RowOwned, There
    <3>3. D[i].void
      BY <3>2 DEF Clean
    <3>4. Lowered(D, now)
      BY <1>1, PaymentsLower
    <3>5. now[i] = D[i]
      BY <3>3, <3>4 DEF Lowered
    <3> QED
      BY <1>9, <2>2, <3>5
  <2> QED
    BY <2>1, <2>2
<1>11. U = D
  <2>1. U \in Seq(BillRows) /\ Len(U) = Len(D)
    BY <1>9 DEF Lowered
  <2>2. D \in Seq(BillRows)
    BY <1>1 DEF RowsTyped
  <2> QED
    BY <1>10, <2>1, <2>2, SeqEqual
<1> QED
  BY <1>4, <1>8, <1>11

\* So a second rebuild gives what the first gave.
LEMMA RebuiltAgain ==
    ASSUME NEW SRC, SourcesTyped(SRC), NEW R, NEW PAY, NEW D, NEW now, Rebuilds(R, SRC, PAY, D, now), Clean(D)
    PROVE  Rebuild(now, SRC, PAY) = now
<1>1. PICK todo, refs : todo = Existing(SRC, Sales) \o Existing(SRC, Bookings) /\ refs = Numbers(SRC)
  OBVIOUS
<1>2. Visits(todo, There(SRC))
  BY <1>1, AllExisting
<1>3. Derived(now, SRC, todo, refs) = D
  BY <1>1, <1>2, DerivedAgain
<1>4. Rebuild(now, SRC, PAY) = Replayed(D, PAY)
  BY <1>1, <1>3 DEF Rebuild
<1> QED
  BY <1>4 DEF Rebuilds

\* No sound state parts a rebuild from the documents.
LEMMA SoundRebuildsExactly ==
    ASSUME BillsInv
    PROVE  RebuildExact
<1> DEFINE now == Rebuild(rows, src, pay)
           h == [s \in Sources |-> src[s].due]
           c == [p \in Payments |-> Credit(pay[p])]
           dues == SumFunctionOnSet(h, {s \in Sources : src[s].st = "active"})
           paid == SumFunctionOnSet(c, Payments)
<1>1. PICK now1 : now1 = now
  OBVIOUS
<1>2. SourcesTyped(src) /\ RowsOwned(rows, src) /\ RowsTyped(rows) /\ pay \in [Payments -> Receipts]
  BY DEF BillsInv, RowsOwned
<1>3. PICK D : Rebuilds(rows, src, pay, D, now1)
  BY <1>1, <1>2, RebuildIsBoth
<1> HIDE DEF now
<1>4. /\ AfterPayments(D, now1) /\ Len(now1) = Len(D) /\ DOMAIN now1 = 1..Len(D) /\ DOMAIN D = 1..Len(D)
      /\ \A i \in 1..Len(D) : /\ now1[i].src = D[i].src /\ now1[i].loose = D[i].loose /\ now1[i].void = D[i].void
      /\ RowsTyped(D)
  <2>1. AfterPayments(D, now1) /\ RowsTyped(D)
    BY <1>3 DEF Rebuilds
  <2>2. RowsTyped(now1) /\ Len(now1) = Len(D)
    BY <2>1 DEF AfterPayments
  <2>3. DOMAIN now1 = 1..Len(D) /\ DOMAIN D = 1..Len(D)
    BY <2>1, <2>2 DEF RowsTyped
  <2>4. \A i \in 1..Len(D) : /\ now1[i].src = D[i].src /\ now1[i].loose = D[i].loose /\ now1[i].void = D[i].void
    BY <2>1 DEF AfterPayments
  <2> QED
    BY <2>1, <2>2, <2>3, <2>4
<1>5. ASSUME NEW s \in Sources
      PROVE  Cardinality({i \in Active(now1, s) : ~now1[i].loose}) = IF Wanted(src[s]) THEN 1 ELSE 0
  <2>1. PICK I : I = {i \in Active(now1, s) : ~now1[i].loose}
    OBVIOUS
  <2>2. I = {i \in 1..Len(D) : D[i].src = s /\ ~D[i].void /\ ~D[i].loose}
    BY <1>4, <2>1 DEF Active, Of
  <2>3. s # Manual
    BY SourcesAssumption
  <2>4. \A i \in I : Wanted(src[s]) /\ \A j \in I : j = i
    <3> TAKE i \in I
    <3>1. /\ Wanted(src[D[i].src])
          /\ \A j \in 1..Len(D) : D[j].src = D[i].src /\ ~D[j].void /\ ~D[j].loose => j = i
      BY <1>2, <1>3, <2>2, <2>3, ActiveRowIsDue
    <3> QED
      BY <2>2, <3>1
  <2>5. CASE Wanted(src[s])
    <3>1. s \in There(src)
      BY <2>5 DEF Wanted, There
    <3>2. Single(D, s, src[s])
      BY <1>3, <3>1 DEF Rebuilds
    <3>3. PICK m \in 1..Len(D) : m \in I
      BY <1>4, <2>2, <2>5, <3>2 DEF Single, Posted
    <3>4. I = {m}
      BY <2>4, <3>3
    <3>5. Cardinality({m}) = 1
      BY FS_Singleton
    <3> QED
      BY <2>1, <2>5, <3>4, <3>5
  <2>6. CASE ~Wanted(src[s])
    <3>1. I = {}
      BY <2>4, <2>6
    <3>2. Cardinality({}) = 0
      BY FS_EmptySet
    <3> QED
      BY <2>1, <2>6, <3>1, <3>2
  <2> QED
    BY <2>5, <2>6
<1>6. ASSUME NEW i \in DOMAIN rows PROVE rows[i].src = Manual \/ i \in Strays \/ src[rows[i].src].st # "none"
  <2>1. RowOwned(rows[i], src) /\ (rows[i].loose => rows[i].src \in Bookings)
    BY <1>2 DEF RowsOwned, RowsTyped
  <2>2. ASSUME rows[i].loose, rows[i].bill # "auto", src[rows[i].src].st = "none" PROVE i \in Strays
    <3>1. rows[i].src \in Sources
      BY <2>1, <2>2 DEF Sources
    <3>2. src[rows[i].src] = NoSource
      BY <1>2, <2>2, <3>1 DEF SourcesTyped
    <3>3. rows[i].bill \notin RefsOf(src[rows[i].src])
      BY <2>2, <3>2 DEF RefsOf, NoSource
    <3> QED
      BY <2>2, <3>3 DEF Strays
  <2> QED
    BY <2>1, <2>2 DEF RowOwned
<1>7. ASSUME NothingManual, Strays = {}
      PROVE  /\ Owed(now1, Open(now1)) = IF dues > paid THEN dues - paid ELSE 0
             /\ Rebuild(now1, src, pay) = now1
  <2>1. Clean(D)
    BY <1>2, <1>3, <1>7, RebuildIsClean
  <2>2. Rebuild(now1, src, pay) = now1
    BY <1>2, <1>3, <2>1, RebuiltAgain
  <2>3. PICK h1, c1 : h1 = h /\ c1 = c
    OBVIOUS
  <2>4. Owed(D, Open(D)) = SumFunctionOnSet(h1, {s \in Sources : src[s].st = "active"})
    BY <1>2, <1>3, <2>1, <2>3, DerivedOwesTheDues
  <2>5. now1 = Replayed(D, pay)
    BY <1>3 DEF Rebuilds
  <2>6. Owed(now1, Open(now1)) = IF Owed(D, Open(D)) > SumFunctionOnSet(c1, Payments)
                                 THEN Owed(D, Open(D)) - SumFunctionOnSet(c1, Payments) ELSE 0
    BY <1>2, <1>4, <2>3, <2>5, PaymentsAreReplayed
  <2> QED
    BY <2>2, <2>3, <2>4, <2>6
<1>8. \A s \in Sources : Wanted(src[s]) <=> src[s].st = "active" /\ (src[s].due > 0 \/ src[s].billed)
  BY DEF Wanted
<1>9. \A s \in Sources :
          Cardinality({i \in Active(now1, s) : ~now1[i].loose}) =
              IF src[s].st = "active" /\ (src[s].due > 0 \/ src[s].billed) THEN 1 ELSE 0
  BY <1>5, <1>8
<1> HIDE DEF h, c, dues, paid
<1> QED
  BY <1>1, <1>6, <1>7, <1>9 DEF RebuildExact, now, h, c, dues, paid

\* Whatever was done before, a rebuild leaves each source its one row, takes the
\* payments from the dues, and changes nothing when it is done again.
THEOREM RebuildExactHolds == BillsSpec => []RebuildExact
<1>1. BillsInv => RebuildExact
  BY SoundRebuildsExactly
<1> QED
  BY <1>1, BillsSoundHolds, PTL
==============================================================================
