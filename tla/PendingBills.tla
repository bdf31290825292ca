---------------------------- MODULE PendingBills ----------------------------
(***************************************************************************)
(* The pending bills of one client: rows derived from direct sales and     *)
(* bookings, rows entered by hand, and the payments that settle them       *)
(* (app/services/void_rebuild.py, _sync_*_pending_bill,                    *)
(* _apply_settlement_to_pending_bills_for_client, rebuild_pending_bills,   *)
(* and the pages that call them).                                          *)
(*                                                                         *)
(* A save of a sale or booking rewrites its own row only; a save of a      *)
(* payment rewrites all derived rows and replays every payment.  Each      *)
(* request is one write transaction and one step.                          *)
(***************************************************************************)
EXTENDS Integers, FiniteSets, Sequences, FiniteSetsExt, Functions

CONSTANTS
    Sales, Bookings,  \* ids of direct sales and of bookings
    LastPayment,      \* payments are 1..LastPayment in (date_posted, id) order
    Dues,             \* amount - discount - paid_amount, cut at zero
    Amounts,          \* amounts of payments; a refund is negative
    Backdated,        \* bookings dated before every other row
    Legacy,           \* sources that a legacy database holds as void
    MaxRows           \* bound on the pending_bill rows

Manual == 0
Sources == Sales \cup Bookings
Payments == 1..LastPayment

ASSUME SourcesAssumption ==
    /\ Sources \subseteq Nat \ {Manual} /\ Sales \cap Bookings = {}
    /\ Backdated \subseteq Bookings /\ Legacy \subseteq Sources /\ IsFiniteSet(Sources)
ASSUME AmountsAssumption == Dues \subseteq Nat /\ Amounts \subseteq Int /\ LastPayment \in Nat

VARIABLES
    src,   \* the sales and bookings
    rows,  \* the pending_bill rows in the order of their ids
    pay    \* the payments and material returns

billVars == <<src, rows, pay>>

\* A bill is known by its automatic number until a manual one is typed in.
Bills == {"auto", "manual"}
NoSource == [st |-> "none", due |-> 0, billed |-> FALSE, bill |-> "auto", cut |-> FALSE]
\* loose: the row names its booking by the bill number only
NewRow(s, bill, n) ==
    [src |-> s, bill |-> bill, amount |-> n, paid |-> n = 0, void |-> FALSE, loose |-> FALSE]

Of(R, s) == {i \in DOMAIN R : R[i].src = s}
\* _pending_source_filter: the rows of a source, and loose ones by their number
Tracked(R, s, refs) == {i \in Of(R, s) : R[i].loose => R[i].bill \in refs}
Active(R, s) == {i \in Of(R, s) : ~R[i].void}
Ascending(S) == [n \in 1..Cardinality(S) |-> CHOOSE x \in S : Cardinality({y \in S : y < x}) = n - 1]
Kept(R, I) == [n \in 1..Cardinality(I) |-> R[Ascending(I)[n]]]
Void(R, I) == [i \in DOMAIN R |-> IF i \in I THEN [R[i] EXCEPT !.void = TRUE] ELSE R[i]]

------------------------------------------------------------------------------
\* _direct_sale_bill_refs
RefsOf(S) == {"auto", S.bill}

\* Faulty variant: the row is found paid and stays paid.
SyncSaleKeepingPaid(R, s, S, refs) ==
    LET T == Void(R, IF S.st = "active" THEN {i \in Of(R, s) : R[i].bill # S.bill} ELSE Of(R, s))
        live == Active(T, s)
    IN IF S.st # "active" THEN T
       ELSE IF live = {} THEN Append(T, NewRow(s, S.bill, S.due))
       ELSE [Void(T, live \ {Max(live)}) EXCEPT ![Max(live)].amount = S.due]

\* _sync_direct_sale_pending_bill: rows under an outdated number are void; the
\* newest active row is rewritten, else a new one is added.
SyncSale(R, s, S, refs) ==
    LET T       == Void(R, {i \in Of(R, s) : R[i].bill \in refs \ {S.bill}})
        live    == Active(T, s)
        tracked == S.st = "active" /\ (S.due > 0 \/ S.billed)
    IN CASE ~tracked -> Void(T, Of(T, s))
         [] tracked /\ live = {} -> Append(T, NewRow(s, S.bill, S.due))
         [] OTHER -> [Void(T, live \ {Max(live)}) EXCEPT
                          ![Max(live)].amount = S.due, ![Max(live)].paid = S.due = 0]

\* _sync_booking_pending_bill: the newest active row under the current number
\* is reused while something is due; every other row is void.  All are stamped.
SyncBooking(R, b, B, refs) ==
    LET due    == B.st = "active" /\ B.due > 0
        found  == Tracked(R, b, refs \cup RefsOf(B))
        usable == {i \in found : due /\ ~R[i].void /\ R[i].bill = B.bill}
        T      == [i \in DOMAIN R |-> IF i \in found THEN [R[i] EXCEPT !.loose = FALSE] ELSE R[i]]
    IN CASE usable # {} -> [Void(T, found \ {Max(usable)}) EXCEPT
                                ![Max(usable)].amount = B.due, ![Max(usable)].paid = FALSE]
         [] usable = {} /\ due -> Append(Void(T, found), NewRow(b, B.bill, B.due))
         [] OTHER -> Void(T, found)

Sync(R, s, S, refs) ==
    IF s \in Sales THEN SyncSale(R, s, S, refs) ELSE SyncBooking(R, s, S, refs)

\* The sources of "todo" one after another, each with the outdated numbers it is given
Derived(R, SRC, todo, refs) ==
    LET after[n \in 0..Len(todo)] ==
            IF n = 0 THEN R ELSE Sync(after[n - 1], todo[n], SRC[todo[n]], refs[todo[n]])
    IN after[Len(todo)]

------------------------------------------------------------------------------
Open(R) == {i \in DOMAIN R : ~R[i].void /\ ~R[i].paid /\ R[i].amount > 0}
Owed(R, I) == SumFunctionOnSet([i \in DOMAIN R |-> R[i].amount], I)

\* Faulty variant: the order of entry, whatever the date.
BeforeById(R, i, j) == i < j

\* order_by(created_at, id)
Before(R, i, j) ==
    LET old(k) == R[k].src \in Backdated
    IN (old(i) /\ ~old(j)) \/ (old(i) = old(j) /\ i < j)

\* _apply_settlement_to_pending_bills_for_client: each open bill takes what
\* the older ones leave.  What no bill takes is lost to the bills.
Settle(R, credit) ==
    [i \in DOMAIN R |->
        LET left == credit - Owed(R, {j \in Open(R) : Before(R, j, i)})
            got  == IF left < R[i].amount THEN left ELSE R[i].amount
        IN IF i \in Open(R) /\ left > 0
           THEN [R[i] EXCEPT !.amount = @ - got, !.paid = got = R[i].amount] ELSE R[i]]

Credit(p) == IF p.st = "active" /\ p.amount > 0 THEN p.amount ELSE 0

\* rebuild_pending_bills(client_id): every sale, every booking, every payment.
Existing(SRC, S) == Ascending({s \in S : SRC[s].st # "none"})
Numbers(SRC) == [s \in Sources |-> RefsOf(SRC[s])]
Replayed(R, PAY) ==
    LET after[p \in 0..LastPayment] == IF p = 0 THEN R ELSE Settle(after[p - 1], Credit(PAY[p]))
    IN after[LastPayment]
Rebuild(R, SRC, PAY) ==
    Replayed(Derived(R, SRC, Existing(SRC, Sales) \o Existing(SRC, Bookings), Numbers(SRC)), PAY)

------------------------------------------------------------------------------
BillsInit ==
    /\ src = [s \in Sources |-> IF s \in Legacy THEN [NoSource EXCEPT !.st = "void", !.due = 1]
                                                ELSE NoSource]
    /\ rows = <<>>
    /\ pay = [p \in Payments |-> [st |-> "none", amount |-> 0]]

\* A form of a sale or booking: what is due and the number.  With nothing due,
\* a sale of a billing category with an amount still has a row.
Forms(s) ==
    {S \in [st : {"active"}, due : Dues, billed : BOOLEAN, bill : Bills, cut : {FALSE}] :
        S.billed => s \in Sales /\ S.due = 0}

\* add_direct_sale, add_booking
Post(s, S) ==
    /\ src[s].st = "none"
    /\ src' = [src EXCEPT ![s] = S]
    /\ rows' = Sync(rows, s, S, RefsOf(S))
    /\ UNCHANGED pay

\* edit_direct_sale, edit_booking: the old numbers are outdated too.
Edit(s, S) ==
    /\ src[s].st = "active"
    /\ src' = [src EXCEPT ![s] = [S EXCEPT !.cut = src[s].cut]]
    /\ rows' = Sync(rows, s, S, RefsOf(S) \cup RefsOf(src[s]))
    /\ UNCHANGED pay

\* edit_ledger_transaction on a sale or a booking
LedgerEdit(s, S) ==
    /\ src[s].st = "active"
    /\ src' = [src EXCEPT ![s] = [S EXCEPT !.cut = src[s].cut]]
    /\ rows' = Rebuild(Sync(rows, s, S, {}), src', pay)
    /\ UNCHANGED pay

\* hard_delete_transaction: the source and its rows; no payment is replayed.
Delete(s) ==
    /\ src[s].st # "none"
    /\ src' = [src EXCEPT ![s] = NoSource]
    /\ LET R == Sync(rows, s, [src[s] EXCEPT !.st = "void"], RefsOf(src[s]))
       IN rows' = Kept(R, {i \in DOMAIN R : R[i].src # s \/ R[i].loose})
    /\ UNCHANGED pay

\* restore_audit_record on a sale or booking
Restore(s) ==
    /\ src[s].st = "void"
    /\ src' = [src EXCEPT ![s].st = "active"]
    /\ rows' = Sync(rows, s, src'[s], RefsOf(src[s]))
    /\ UNCHANGED pay

\* client_booking_cancel and its revert find the bill by its number, void or
\* not, and write what is now due into it; a bill they add carries no source.
Adjust(b, n, revive) ==
    LET found == {i \in Of(rows, b) : rows[i].bill = src[b].bill}
        bill  == Min(found)
    IN /\ src' = [src EXCEPT ![b].due = n, ![b].cut = ~revive]
       /\ rows' = CASE found = {} /\ n > 0 -> Append(rows, [NewRow(b, src[b].bill, n) EXCEPT !.loose = TRUE])
                    [] found # {} /\ n > 0 -> [rows EXCEPT ![bill].amount = n,
                                                           ![bill].void = @ /\ ~revive]
                    [] found # {} /\ n = 0 -> Kept(rows, DOMAIN rows \ {bill})
                    [] OTHER -> rows
       /\ UNCHANGED pay
CancelBooking(b, n) == src[b].st = "active" /\ n <= src[b].due /\ Adjust(b, n, FALSE)
RevertCancel(b, n) == src[b].st = "active" /\ src[b].cut /\ n >= src[b].due /\ Adjust(b, n, TRUE)

------------------------------------------------------------------------------
\* add_pending_bill
AddManual(n) ==
    /\ rows' = Append(rows, [NewRow(Manual, "manual", n) EXCEPT !.paid = FALSE])
    /\ UNCHANGED <<src, pay>>

\* edit_pending_bill, delete_pending_bill, toggle_bill_paid on a row of the
\* page and restore_audit_record on a void one, derived or not.
Change(i, r) == rows' = [rows EXCEPT ![i] = r] /\ UNCHANGED <<src, pay>>
EditRow(i, n) == ~rows[i].void /\ Change(i, [rows[i] EXCEPT !.amount = n])
DeleteRow(i) == ~rows[i].void /\ Change(i, [rows[i] EXCEPT !.void = TRUE])
TogglePaid(i) == ~rows[i].void /\ Change(i, [rows[i] EXCEPT !.paid = ~@])
RestoreRow(i) == rows[i].void /\ Change(i, [rows[i] EXCEPT !.void = FALSE])

------------------------------------------------------------------------------
\* save_client_payment: create, or edit a payment that is not void.
SavePayment(p, n) ==
    /\ pay[p].st # "void"
    /\ pay' = [pay EXCEPT ![p] = [st |-> "active", amount |-> n]]
    /\ rows' = Rebuild(rows, src, pay')
    /\ UNCHANGED src

\* A material return posts its payment and settles with it alone.
SaveReturn(p, n) ==
    /\ pay[p].st = "none" /\ n > 0
    /\ pay' = [pay EXCEPT ![p] = [st |-> "active", amount |-> n]]
    /\ rows' = Settle(rows, n)
    /\ UNCHANGED src

\* delete_client_payment
DeletePayment(p) ==
    /\ pay[p].st = "active"
    /\ pay' = [pay EXCEPT ![p].st = "void"]
    /\ rows' = Rebuild(rows, src, pay')
    /\ UNCHANGED src

\* hard_delete_transaction('Payment') and restore_audit_record on a payment:
\* the bills are left as they are.
FlipPayment(p) ==
    /\ pay[p].st # "none"
    /\ pay' = [pay EXCEPT ![p].st = IF @ = "active" THEN "void" ELSE "active"]
    /\ UNCHANGED <<src, rows>>

\* fix_system_issues, _rebuild_direct_sale_pending_bills
FixSystem ==
    LET R == Void(rows, {i \in DOMAIN rows : rows[i].src \in Sales})
        todo == Ascending({s \in Sales : src[s].st = "active"})
    IN /\ rows' = Derived(R, src, todo, [s \in Sales |-> {}])
       /\ UNCHANGED <<src, pay>>

BillsNext ==
    /\ \/ \E s \in Sources :
            \/ \E S \in Forms(s) : Post(s, S) \/ Edit(s, S) \/ LedgerEdit(s, S)
            \/ Delete(s) \/ Restore(s)
       \/ \E b \in Bookings, n \in Dues : CancelBooking(b, n) \/ RevertCancel(b, n)
       \/ \E n \in Dues : AddManual(n)
       \/ \E i \in DOMAIN rows :
            \/ \E n \in Dues : EditRow(i, n)
            \/ DeleteRow(i) \/ RestoreRow(i) \/ TogglePaid(i)
       \/ \E p \in Payments :
            \/ \E n \in Amounts : SavePayment(p, n) \/ SaveReturn(p, n)
            \/ DeletePayment(p) \/ FlipPayment(p)
       \/ FixSystem
    /\ Len(rows') <= MaxRows

BillsSpec == BillsInit /\ [][BillsNext]_billVars

------------------------------------------------------------------------------
NothingManual == Active(rows, Manual) = {}
\* Bills that a revert added and whose number the booking has no longer.
Strays == {i \in DOMAIN rows : rows[i].loose /\ rows[i].bill \notin RefsOf(src[rows[i].src])}

\* Whatever edits, cancellations, restores and repairs did to the rows, a
\* rebuild leaves one active row for each source that is due or billed, the
\* client then owes the dues less the receipts, and a second rebuild changes
\* nothing (void_rebuild.py:935, 1045), unless a revert's bill has lost its
\* booking, or bills entered by hand take part of the payments.
RebuildExact ==
    LET now == Rebuild(rows, src, pay)
        wanted(s) == src[s].st = "active" /\ (src[s].due > 0 \/ src[s].billed)
        dues == SumFunctionOnSet([s \in Sources |-> src[s].due], {s \in Sources : src[s].st = "active"})
        paid == SumFunctionOnSet([p \in Payments |-> Credit(pay[p])], Payments)
    IN /\ \A s \in Sources :
            Cardinality({i \in Active(now, s) : ~now[i].loose}) = IF wanted(s) THEN 1 ELSE 0
       /\ \A i \in DOMAIN rows : rows[i].src = Manual \/ i \in Strays \/ src[rows[i].src].st # "none"
       /\ NothingManual /\ Strays = {} =>
            /\ Owed(now, Open(now)) = IF dues > paid THEN dues - paid ELSE 0
            /\ Rebuild(now, src, pay) = now

\* After a rebuild no bill is settled, even in part, while one posted on an
\* earlier date is open, and of one date while an older row is.
OldestSettledFirst ==
    LET now == Rebuild(rows, src, pay)
    IN \A i, j \in DOMAIN now :
        LET r == now[i]  q == now[j]
            earlier == \/ r.src \in Backdated /\ q.src \notin Backdated
                       \/ (r.src \in Backdated <=> q.src \in Backdated) /\ i < j
        IN (i \in Open(now) /\ q.src # Manual /\ ~q.loose /\ ~q.void /\ earlier)
              => q.amount = src[q.src].due
==============================================================================
