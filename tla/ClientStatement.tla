-------------------------- MODULE ClientStatement --------------------------
(***************************************************************************)
(* What one client owes, as four places compute it from the same documents *)
(*   the ledger, the list of payables and what is left of each bill        *)
(*     (app/services/financial_ledgers.py), and the client's own page with *)
(*     its download (blueprints/ledgers/_client_financial_ledger.py).      *)
(*                                                                         *)
(* A cancellation takes goods out of the booking and leaves an entry that  *)
(* names the booking by its bill number alone.  The statements show the    *)
(* booking at its former value and the entry as a credit, so they must     *)
(* find the one from the other, whatever happened to the number since.     *)
(*                                                                         *)
(* Every line has the rate 1, so bags and money are the same number.  How  *)
(* payments settle bills is in PendingBills; only what it does to a bill   *)
(* entered by hand is seen by the statements.                              *)
(***************************************************************************)
EXTENDS Integers, FiniteSets, FiniteSetsExt, Functions

CONSTANTS
    MaxBookings,    \* bookings have the ids 1..MaxBookings, also their automatic bill numbers
    Typed,          \* bill numbers that users type
    BookingForms,   \* qty, paid and disc of a booking as posted or edited
    PaymentForms,   \* amount and disc of the payment; a refund is negative
    HandAmount,     \* amount of a bill entered by hand
    SaleBill,       \* qty, paid and disc of the client's sale, posted first
    OpeningBalance,
    MaxCancels,     \* bound on the cancellations alive
    MaxWrites       \* bound on the requests

NoNumber == 0
Own == -1       \* a booking's bill that carries the booking's own number
ASSUME NumbersAssumption ==
    /\ {MaxBookings, HandAmount, MaxCancels, MaxWrites} \subseteq Nat /\ OpeningBalance \in Int
    /\ Typed \subseteq Nat \ (0..MaxBookings)
    /\ BookingForms \cup {SaleBill} \subseteq [qty : Nat, paid : Nat, disc : Nat]
    /\ PaymentForms \subseteq [amount : Int, disc : Nat]

VARIABLES
    booking,   \* the bookings that exist, by id, with the number of their pending bill
    cancel,    \* the active CANCEL entries of the client, by slot
    hand,      \* the active pending bill entered by hand
    paid,      \* the active payment with its linked waive-off row
    writes,    \* requests so far
    seen       \* history: what may part an entry from its booking

statementVars == <<booking, cancel, hand, paid, writes, seen>>

NoHand == [amount |-> 0, number |-> NoNumber]
NoPayment == [amount |-> 0, disc |-> 0, waive |-> 0]
Ids == DOMAIN booking
Ours == {b \in Ids : booking[b].ours}
Entries == DOMAIN cancel
Without(f, S) == [x \in DOMAIN f \ S |-> f[x]]
With(f, x, v) == [y \in DOMAIN f \cup {x} |-> IF y = x THEN v ELSE f[y]]

\* manual_bill_no or auto_bill_no
NumberOf(b) == IF booking[b].number # NoNumber THEN booking[b].number ELSE b
RefsOfBooking(b) == {b, booking[b].number} \ {NoNumber}
BillOf(b) == IF booking[b].bill = Own THEN NumberOf(b) ELSE booking[b].bill
NewBooking(ours, f, n) ==
    [ours |-> ours, number |-> n, bill |-> Own, qty |-> f.qty, paid |-> f.paid, disc |-> f.disc]
EntriesUnder(S) == {e \in Entries : cancel[e].ref \in S}

\* A payment saved before waive-off rows existed has its discount only.
StatementInit ==
    /\ booking = <<>> /\ cancel = <<>> /\ hand = NoHand /\ writes = 0 /\ seen = {}
    /\ paid \in {NoPayment} \cup {[amount |-> p.amount, disc |-> p.disc, waive |-> 0] : p \in PaymentForms}

Write(event, happens) ==
    /\ writes' = writes + 1
    /\ seen' = IF happens THEN seen \cup {event} ELSE seen

------------------------------------------------------------------------------
\* find_bill_conflict on a new document: sales, bookings, ..., pending bills.
Taken(n) == /\ n # NoNumber
            /\ hand.number = n \/ \E b \in Ids : n \in {booking[b].number, booking[b].bill}

\* find_bill_conflict on a booking whose new number is already flushed: the
\* first booking found is compared, and what comes after bookings is not reached.
TakenFor(b, n) == n # NoNumber /\ \E c \in Ids : c < b /\ booking[c].number = n

\* add_booking; the id follows the largest one
AddBooking(f, n) ==
    LET b == IF Ids = {} THEN 1 ELSE Max(Ids) + 1
    IN /\ b <= MaxBookings /\ ~Taken(n)
       /\ booking' = With(booking, b, NewBooking(TRUE, f, n))
       /\ Write("none", FALSE)
       /\ UNCHANGED <<cancel, hand, paid>>

\* edit_booking: its form, its number, its client.  The CANCEL entries stay.
EditBooking(b, f, n, ours) ==
    LET under == EntriesUnder(RefsOfBooking(b)) # {}
    IN /\ ~TakenFor(b, n)
       /\ booking' = [booking EXCEPT ![b] = NewBooking(ours, f, n)]
       /\ Write("parted", \/ under /\ (n # booking[b].number \/ ours # booking[b].ours)
                          \/ n # NoNumber /\ (hand.number = n \/ \E c \in Ids \ {b} : booking[c].number = n))
       /\ UNCHANGED <<cancel, hand, paid>>

\* Faulty variant: the cancellations of a deleted booking stay active.
DeleteOnly(b) ==
    /\ booking' = Without(booking, {b})
    /\ Write("none", FALSE)
    /\ UNCHANGED <<cancel, hand, paid>>

\* hard_delete_transaction on a booking: CANCEL entries under its numbers are void.
DeleteBooking(b) ==
    /\ booking' = Without(booking, {b})
    /\ cancel' = Without(cancel, EntriesUnder(RefsOfBooking(b)))
    /\ Write("none", FALSE)
    /\ UNCHANGED <<hand, paid>>

------------------------------------------------------------------------------
\* client_booking_cancel: k bags that are left of the booking's line
CancelBags(b, k) ==
    LET e == CHOOSE e \in 1..MaxCancels : e \notin Entries
    IN /\ booking[b].ours /\ k <= booking[b].qty /\ Cardinality(Entries) < MaxCancels
       /\ booking' = [booking EXCEPT ![b].qty = @ - k]
       /\ cancel' = With(cancel, e, [ref |-> NumberOf(b), qty |-> k])
       /\ Write("none", FALSE)
       /\ UNCHANGED <<hand, paid>>

\* client_booking_cancel_revert: the newest booking of the client with the number
RevertBags(e) ==
    LET named == {b \in Ours : cancel[e].ref \in RefsOfBooking(b)}
    IN /\ named # {}
       /\ booking' = [booking EXCEPT ![Max(named)].qty = @ + cancel[e].qty]
       /\ cancel' = Without(cancel, {e})
       /\ Write("none", FALSE)
       /\ UNCHANGED <<hand, paid>>

\* edit_pending_bill on the bill of a booking: the entries under the old number
\* of the bill follow it, the booking does not.
RenumberBill(b, n) ==
    /\ booking[b].ours /\ booking[b].qty > booking[b].paid + booking[b].disc
    /\ ~Taken(n)
    /\ booking' = [booking EXCEPT ![b].bill = n]
    /\ cancel' = [e \in Entries |->
           IF cancel[e].ref = BillOf(b) THEN [cancel[e] EXCEPT !.ref = n] ELSE cancel[e]]
    /\ Write("parted", EntriesUnder({BillOf(b)}) # {})
    /\ UNCHANGED <<hand, paid>>

\* add_pending_bill and delete_pending_bill
AddHand(n) ==
    /\ hand = NoHand /\ n # NoNumber /\ ~Taken(n)
    /\ hand' = [amount |-> HandAmount, number |-> n]
    /\ Write("none", FALSE)
    /\ UNCHANGED <<booking, cancel, paid>>
DeleteHand ==
    /\ hand # NoHand /\ hand' = NoHand
    /\ Write("none", FALSE)
    /\ UNCHANGED <<booking, cancel, paid>>

\* save_client_payment and _sync_payment_waive_off.  The rebuild gives bills of
\* bookings their numbers back, and the replay of the payments settles the bill
\* entered by hand, as far as older bills leave something.
Rebuilt == booking' = [b \in Ids |-> [booking[b] EXCEPT !.bill = Own]]
SaveClientPayment(p) ==
    /\ paid' = [amount |-> p.amount, disc |-> p.disc, waive |-> p.disc]
    /\ \E left \in 0..hand.amount :
         /\ left < hand.amount => p.amount >= hand.amount - left
         /\ hand' = [hand EXCEPT !.amount = left]
         /\ Write("settled", left < hand.amount)
    /\ Rebuilt
    /\ UNCHANGED cancel
DeleteClientPayment ==
    /\ paid # NoPayment /\ paid' = NoPayment
    /\ Rebuilt
    /\ Write("none", FALSE)
    /\ UNCHANGED <<cancel, hand>>

StatementNext ==
    /\ writes < MaxWrites
    /\ \/ \E f \in BookingForms, n \in Typed \cup {NoNumber} :
            \/ AddBooking(f, n)
            \/ \E b \in Ids, ours \in BOOLEAN : EditBooking(b, f, n, ours)
       \/ \E b \in Ids :
            \/ DeleteBooking(b)
            \/ \E k \in 1..booking[b].qty : CancelBags(b, k)
            \/ \E n \in Typed \cup {NoNumber} : RenumberBill(b, n)
       \/ \E e \in Entries : RevertBags(e)
       \/ \E n \in Typed : AddHand(n)
       \/ \E p \in PaymentForms : SaveClientPayment(p)
       \/ DeleteHand \/ DeleteClientPayment

StatementSpec == StatementInit /\ [][StatementNext]_statementVars

------------------------------------------------------------------------------
(* The ledger, app/services/financial_ledgers.py.                          *)
SumBags(E) == SumFunctionOnSet([e \in Entries |-> cancel[e].qty], E)

\* cancel_by_ref: what was cancelled under any number of the booking
CancelCredit(b) == SumBags(EntriesUnder(RefsOfBooking(b)))

\* A booking that stores less than was paid, has a discount and shows nothing
\* cancelled is taken for a broken row: its value is what was paid and waived.
Shown(b, full, cancelled) ==
    IF ~cancelled /\ booking[b].disc > 0 /\ full < booking[b].paid
    THEN booking[b].paid + booking[b].disc ELSE full
Gross(b) == Shown(b, booking[b].qty + CancelCredit(b), CancelCredit(b) > 0)

\* _is_derived_pending: a bill under a booking's number counts as the booking's.
HandGross == IF \E b \in Ours : hand.number \in RefsOfBooking(b) THEN 0 ELSE hand.amount

Embedded(b) == booking[b].paid + booking[b].disc
Discount(p) == IF p.waive > 0 THEN p.waive ELSE p.disc
AtLeast0(n) == IF n > 0 THEN n ELSE 0

\* build_client_financial_ledger: all rows' debits less their credits
ClosingBalance ==
    LET debits  == SumFunction([b \in Ours |-> Gross(b)]) + SaleBill.qty + HandGross + AtLeast0(-paid.amount)
        credits == SumFunction([b \in Ours |-> booking[b].paid])
                 + SumFunction([b \in Ours |-> booking[b].disc]) + SaleBill.paid + SaleBill.disc
                 + AtLeast0(paid.amount) + Discount(paid) + SumBags(Entries)
    IN OpeningBalance + debits - credits

\* external_credits
Credits == AtLeast0(paid.amount) + Discount(paid) + SumBags(Entries)

\* _build_client_financial_summary: the list of payables
SummaryBalance ==
    OpeningBalance + SumFunction([b \in Ours |-> Gross(b) - Embedded(b)])
        + (SaleBill.qty - SaleBill.paid - SaleBill.disc) + HandGross
        - Credits - (IF paid.amount < 0 THEN paid.amount ELSE 0)

\* remaining_by_key: the credits, as one pool, settle the oldest bills first.
\* Bills are in the order of their dates: the sale, the bookings, the hand-made.
BillDue(i) ==
    CASE i = 0 -> AtLeast0(SaleBill.qty - SaleBill.paid - SaleBill.disc)
      [] i \in Ours -> AtLeast0(Gross(i) - Embedded(i))
      [] i = MaxBookings + 1 -> HandGross
      [] OTHER -> 0
Remaining(i) ==
    LET older == SumFunction([j \in 0..(i - 1) |-> BillDue(j)])
    IN AtLeast0(BillDue(i) - AtLeast0(Credits - older))

------------------------------------------------------------------------------
(* The client's page, blueprints/ledgers/_client_financial_ledger.py.      *)
\* _booking_ledger_gross_due with what was cancelled under the present number
PageGross(b) ==
    LET entries == EntriesUnder({NumberOf(b)})
    IN Shown(b, booking[b].qty + SumBags(entries), entries # {})

\* Bills entered by hand are listed beside it and are not part of it.
PageBalance ==
    OpeningBalance + SumFunction([b \in Ours |-> PageGross(b) - Embedded(b)])
        + (SaleBill.qty - SaleBill.paid - SaleBill.disc)
        - paid.amount - Discount(paid) - SumBags(Entries)

------------------------------------------------------------------------------
\* What the documents, as they were entered, say the client owes
Documents ==
    OpeningBalance + SumFunction([b \in Ours |-> booking[b].qty - Embedded(b)])
        + (SaleBill.qty - SaleBill.paid - SaleBill.disc)
        + (IF hand = NoHand THEN 0 ELSE HandAmount) - paid.amount - paid.disc
TakenForBroken == {b \in Ours : booking[b].disc > 0 /\ Gross(b) > booking[b].qty + CancelCredit(b)}

\* One client owes one amount (finance_clients.py:407-412): the list of payables
\* shows the balance of the ledger; what is left of the bills adds up to it while
\* nothing is overpaid or refunded; unless a cancellation was parted from its
\* booking by a new number or client, the page shows it too, less the bills
\* entered by hand, and it is what the documents say, except for bookings taken
\* for broken rows and bills by hand that a payment has settled: those it reduces,
\* and is subtracted once more itself.
StatementsAgree ==
    /\ SummaryBalance = ClosingBalance
    /\ (/\ OpeningBalance = 0 /\ paid.amount >= 0 /\ SaleBill.qty >= SaleBill.paid + SaleBill.disc
        /\ \A b \in Ours : Gross(b) >= Embedded(b)) =>
         SumFunction([i \in 0..(MaxBookings + 1) |-> Remaining(i)]) = AtLeast0(ClosingBalance)
    /\ "parted" \notin seen =>
         /\ PageBalance = ClosingBalance - hand.amount
         /\ (TakenForBroken = {} /\ "settled" \notin seen) => ClosingBalance = Documents
=============================================================================
