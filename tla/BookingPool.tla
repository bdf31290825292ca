---------------------------- MODULE BookingPool ----------------------------
(***************************************************************************)
(* The goods of one client and one material: what was booked, delivered    *)
(* from the bookings, returned and cancelled.                              *)
(*                                                                         *)
(* Two accounts of it are kept and never compared by the program: the      *)
(* allocation rows (sales_core.py) decide whether a delivery may be posted *)
(* and a booking line edited, the Entry rows decide what the sale sheet    *)
(* offers, what may be returned and what may be cancelled.                 *)
(*                                                                         *)
(* A request reads in autocommit, then writes in one transaction; what it  *)
(* loaded before its first write may be stale when it is written back.     *)
(***************************************************************************)
EXTENDS Integers, FiniteSets, Sequences, Functions, FiniteSetsExt

CONSTANTS
    Actors,     \* workers serving requests
    NLots,      \* bookings, numbered by their date; each has one line of the material
    Sales,      \* sales of category "Booking Delivery"
    Returns,    \* material returns of type "booked"
    MaxQty,     \* bags a form may name
    MaxBooked,  \* bags a booking line may reach
    MaxCancels, \* cancellations of one booking
    NoCopy      \* nothing loaded

ASSUME BoundsAssumption ==
    {NLots, MaxQty, MaxBooked, MaxCancels} \subseteq Nat \ {0}

\* A database holds finitely many documents.
ASSUME GoodsAssumption == IsFiniteSet(Sales) /\ IsFiniteSet(Returns)

Lots == 1..NLots
Amounts == 1..MaxQty

VARIABLES
    state,     \* of each booking: "new", "live" or "deleted"
    booked,    \* BookingItem.qty of each booking's line; 0 when it has none
    alloc,     \* BookingAllocation.qty by line and sale; 0 when there is none
    sold,      \* bags each sale delivers (its OUT entry); 0 when there is none
    returned,  \* bags of each return (its IN entry); 0 when there is none
    cancels,   \* the CANCEL entries of each booking
    total,     \* Material.total, relative to the stock before the first sale
    req,       \* what each worker is doing
    ordered,   \* history: bags the bookings as typed ask for
    happened   \* history: the events that explain what the properties exclude

poolVars == <<state, booked, alloc, sold, returned, cancels, total, req, ordered, happened>>
goods == <<state, booked, alloc, sold, returned, cancels, total, ordered>>

Sum(f) == SumFunction(f)
SmallerOf(a, b) == IF a <= b THEN a ELSE b
AtLeast0(n) == IF n > 0 THEN n ELSE 0
AllocatedOf(i) == Sum([s \in Sales |-> alloc[<<i, s>>]])
Linked(i) == \E s \in Sales : alloc[<<i, s>>] > 0

\* Bags delivered and not returned, by the entries.
Net == Sum(sold) - Sum(returned)
Exact(s, r) == Sum(r) - Sum(s)

\* The sale sheet's booking balance, by the entries.
SheetBalance == AtLeast0(Sum(booked) - Net)

\* The pool a posted delivery is checked against, by the allocation rows.
PoolOf(al) ==
    AtLeast0(Sum(booked) - Sum(al) + Sum(returned))

\* The two passes of _allocate_booking_quantities_for_sale_item: what is free, oldest
\* line first; then, when goods came back, lines delivered from, newest first.
Plan(al, q) ==
    LET used == [i \in Lots |-> Sum([s \in Sales |-> al[<<i, s>>]])]
        free == [i \in Lots |-> AtLeast0(booked[i] - used[i])]
        first == [i \in Lots |->
                    SmallerOf(free[i], AtLeast0(q - SumFunctionOnSet(free, 1..(i - 1))))]
        rest == q - Sum(first)
        again == [i \in Lots |-> IF Sum(returned) > 0 /\ used[i] > 0 THEN booked[i] ELSE 0]
        second == [i \in Lots |->
                    SmallerOf(again[i], AtLeast0(rest - SumFunctionOnSet(again, (i + 1)..NLots)))]
    IN [i \in Lots |-> first[i] + second[i]]

WithoutSaleKept(s) == alloc
WithoutSale(s) == [p \in Lots \X Sales |-> IF p[2] = s THEN 0 ELSE alloc[p]]
CanPlan(al, q) == PoolOf(al) >= q /\ Sum(Plan(al, q)) = q

\* build_client_booking_cancel_plan: deliveries consume the oldest booking first.
Left == [i \in Lots |->
            booked[i] - SmallerOf(booked[i],
                            AtLeast0(Net - SumFunctionOnSet(booked, 1..(i - 1))))]
CancelRows == {i \in Lots : Left[i] > 0}
CancelNeverBlocked(rows) == FALSE
CancelBlocked(rows) == \E i \in rows : Left[i] = booked[i] /\ Linked(i)

Outstanding(cs) ==
    Sum([k \in DOMAIN cs |-> IF cs[k].void THEN 0 ELSE cs[k].qty])

Idle == [op |-> "idle"]
IsIdle(a) == req[a] = Idle

PoolInit ==
    /\ state = [i \in Lots |-> "new"]
    /\ booked = [i \in Lots |-> 0] /\ ordered = [i \in Lots |-> 0]
    /\ alloc = [p \in Lots \X Sales |-> 0]
    /\ sold = [s \in Sales |-> 0] /\ returned = [r \in Returns |-> 0]
    /\ cancels = [i \in Lots |-> <<>>]
    /\ total = 0
    /\ req = [a \in Actors |-> Idle]
    /\ happened = {}

\* A commit makes stale whatever the other requests have read.
Commit(a) ==
    req' = [b \in Actors |->
              IF b = a \/ IsIdle(b) THEN Idle ELSE [req[b] EXCEPT !.stale = TRUE]]
Note(a, what) ==
    happened' = happened \cup (IF req[a].stale THEN {what} ELSE {})
Read(a, r) ==
    /\ IsIdle(a)
    /\ req' = [req EXCEPT ![a] = r]
    /\ UNCHANGED <<goods, happened>>
GiveUp(a) ==
    /\ req' = [req EXCEPT ![a] = Idle]
    /\ UNCHANGED <<goods, happened>>

(***************************************************************************)
(* Bookings                                                                *)
(***************************************************************************)
AddBooking(a, i, q) ==
    /\ IsIdle(a) /\ state[i] = "new"
    /\ state' = [state EXCEPT ![i] = "live"]
    /\ booked' = [booked EXCEPT ![i] = q]
    /\ ordered' = [ordered EXCEPT ![i] = q]
    /\ Commit(a)
    /\ UNCHANGED <<alloc, sold, returned, cancels, total, happened>>

MayEditFreely(i, q) == TRUE
\* Not below what was delivered; a line with any allocation is not removed.
MayEdit(i, q) == q >= AllocatedOf(i)

\* An edit that changes the header as well (the amount, the payment) writes it when
\* the lines are first queried: what it then reads is locked until its commit.
EditBooking(a, i, q) ==
    /\ IsIdle(a) /\ state[i] = "live" /\ booked[i] # q /\ MayEdit(i, q)
    /\ booked' = [booked EXCEPT ![i] = q]
    /\ ordered' = [ordered EXCEPT ![i] = q + Outstanding(cancels[i])]
    /\ Commit(a)
    /\ UNCHANGED <<state, alloc, sold, returned, cancels, total, happened>>

\* An edit of the lines alone reads them and their allocations in autocommit.
EditBookingRead(a, i, q) ==
    /\ state[i] = "live" /\ booked[i] # q /\ MayEdit(i, q)
    /\ Read(a, [op |-> "rebook", lot |-> i, qty |-> q, held |-> Outstanding(cancels[i]),
                copy |-> booked[i], stale |-> FALSE])

\* A line is added to a booking that exists, updated where it still is, and deleted
\* where no allocation refers to it; deleting one that is gone is only warned about.
RebookLands(r) ==
    /\ r.copy = 0 => state[r.lot] = "live"
    /\ r.copy > 0 /\ r.qty > 0 => booked[r.lot] > 0
    /\ r.qty = 0 => ~Linked(r.lot)

EditBookingWrite(a) ==
    LET i == req[a].lot
        q == req[a].qty
    IN /\ req[a].op = "rebook" /\ RebookLands(req[a])
       /\ booked' = [booked EXCEPT ![i] = IF req[a].copy = 0 THEN @ + q ELSE q]
       /\ ordered' = [ordered EXCEPT ![i] = q + req[a].held]
       /\ happened' = happened
            \cup (IF req[a].stale THEN {"raced edit"} ELSE {})
            \cup (IF req[a].stale /\ booked'[i] < AllocatedOf(i) THEN {"edited delivered"} ELSE {})
       /\ Commit(a)
       /\ UNCHANGED <<state, alloc, sold, returned, cancels, total>>

EditBookingRefused(a) ==
    /\ req[a].op = "rebook" /\ ~RebookLands(req[a])
    /\ GiveUp(a)

\* Hard delete: the allocations of the line go with it, the sales stay.
DeleteBooking(a, i) ==
    /\ IsIdle(a) /\ state[i] = "live"
    /\ state' = [state EXCEPT ![i] = "deleted"]
    /\ booked' = [booked EXCEPT ![i] = 0]
    /\ ordered' = [ordered EXCEPT ![i] = 0]
    /\ alloc' = [p \in Lots \X Sales |-> IF p[1] = i THEN 0 ELSE alloc[p]]
    /\ cancels' = [cancels EXCEPT ![i] = [k \in DOMAIN @ |-> [@[k] EXCEPT !.void = TRUE]]]
    /\ total' = Exact(sold, returned)
    /\ happened' = happened \cup (IF Linked(i) THEN {"booking deleted"} ELSE {})
    /\ Commit(a)
    /\ UNCHANGED <<sold, returned>>

(***************************************************************************)
(* Deliveries                                                              *)
(***************************************************************************)
\* _rebuild_material_totals assigns the sum of the entries; the row is written only
\* where it differs from the copy this session loaded.
Rebuilt(copy, exact) == IF exact = copy THEN total ELSE exact

\* The sheet is split into booked and charged goods by the entries' balance; a
\* "Booking Delivery" must be covered by it.
SaleRead(a, s, q) ==
    /\ sold[s] = 0 /\ q <= SheetBalance
    /\ \A b \in Actors : req[b].op = "sale" => req[b].id # s
    /\ Read(a, [op |-> "sale", id |-> s, qty |-> q, copy |-> total, stale |-> FALSE])

Allocate(al, s, q) ==
    alloc' = [p \in Lots \X Sales |-> IF p[2] = s THEN Plan(al, q)[p[1]] ELSE al[p]]

SaleWrite(a) ==
    LET s == req[a].id
        q == req[a].qty
    IN /\ req[a].op = "sale" /\ sold[s] = 0
       /\ CanPlan(alloc, q)
       /\ sold' = [sold EXCEPT ![s] = q]
       /\ Allocate(alloc, s, q)
       /\ total' = Rebuilt(req[a].copy, Exact(sold', returned))
       /\ Note(a, "raced stock")
       /\ Commit(a)
       /\ UNCHANGED <<state, booked, returned, cancels, ordered>>

\* The balance an edit offers leaves out the sale's own entries.  Its filter
\* "source_module != 'sales' OR source_id != id" is never true of the entries of a
\* return, whose source columns are NULL, so returned goods are left out as well.
EditBalance(s) == AtLeast0(Sum(booked) - (Sum(sold) - sold[s]))

EditSaleRead(a, s, q) ==
    /\ sold[s] > 0 /\ q <= EditBalance(s)
    /\ Read(a, [op |-> "edit", id |-> s, qty |-> q, copy |-> total, stale |-> FALSE])

EditSaleWrite(a) ==
    LET s == req[a].id
        q == req[a].qty
    IN /\ req[a].op = "edit" /\ sold[s] > 0
       /\ CanPlan(WithoutSale(s), q)
       /\ sold' = [sold EXCEPT ![s] = q]
       /\ Allocate(WithoutSale(s), s, q)
       /\ total' = Rebuilt(req[a].copy, Exact(sold', returned))
       /\ happened' = happened
            \cup (IF req[a].stale THEN {"raced stock"} ELSE {})
            \cup (IF Sum(sold') < Sum(returned) THEN {"delivery dropped"} ELSE {})
       /\ Commit(a)
       /\ UNCHANGED <<state, booked, returned, cancels, ordered>>

\* The allocation finds too little, or the sale is gone: the request is rolled back.
SaleRefused(a) ==
    /\ \/ req[a].op = "sale" /\ (sold[req[a].id] > 0 \/ ~CanPlan(alloc, req[a].qty))
       \/ req[a].op = "edit"
            /\ \/ sold[req[a].id] = 0
               \/ ~CanPlan(WithoutSale(req[a].id), req[a].qty)
    /\ GiveUp(a)

DeleteSale(a, s) ==
    /\ IsIdle(a) /\ sold[s] > 0
    /\ sold' = [sold EXCEPT ![s] = 0]
    /\ alloc' = WithoutSale(s)
    /\ total' = Exact(sold', returned)
    /\ happened' = happened
         \cup (IF Sum(sold') < Sum(returned) THEN {"delivery dropped"} ELSE {})
    /\ Commit(a)
    /\ UNCHANGED <<state, booked, returned, cancels, ordered>>

(***************************************************************************)
(* Returns                                                                 *)
(***************************************************************************)
\* Up to what the entries say was delivered and has not come back; an edit may keep
\* what its own return brought.
Returnable(r) == AtLeast0(Net) + returned[r]

ReturnRead(a, r, q) ==
    /\ returned[r] = 0 /\ q <= Returnable(r)
    /\ \A b \in Actors : req[b].op = "return" => req[b].id # r
    /\ Read(a, [op |-> "return", id |-> r, qty |-> q, copy |-> total, stale |-> FALSE])

\* Material.total is the loaded copy plus the quantity.
ReturnWrite(a) ==
    LET r == req[a].id
    IN /\ req[a].op = "return"
       /\ returned' = [returned EXCEPT ![r] = req[a].qty]
       /\ total' = req[a].copy + req[a].qty
       /\ happened' = happened
            \cup (IF req[a].stale THEN {"raced stock"} ELSE {})
            \cup (IF req[a].stale /\ Sum(sold) < Sum(returned') THEN {"raced return"} ELSE {})
       /\ Commit(a)
       /\ UNCHANGED <<state, booked, alloc, sold, cancels, ordered>>

EditReturnRead(a, r, q) ==
    /\ returned[r] > 0 /\ q <= Returnable(r)
    /\ Read(a, [op |-> "reedit", id |-> r, qty |-> q,
                copy |-> total, stale |-> FALSE])

RestockedOnTop(copy, was, q) == copy + q
Restocked(copy, was, q) == copy - was + q

\* The old entries are reversed and replaced; the entries that exist now are those the
\* query finds, the stock starts from the loaded copy.
EditReturnWrite(a) ==
    LET r == req[a].id
        q == req[a].qty
    IN /\ req[a].op = "reedit" /\ returned[r] > 0
       /\ returned' = [returned EXCEPT ![r] = q]
       /\ total' = IF q = returned[r] THEN total ELSE Restocked(req[a].copy, returned[r], q)
       /\ happened' = happened
            \cup (IF req[a].stale THEN {"raced stock"} ELSE {})
            \cup (IF req[a].stale /\ Sum(sold) < Sum(returned') THEN {"raced return"} ELSE {})
            \cup (IF q < returned[r] THEN {"return dropped"} ELSE {})
       /\ Commit(a)
       /\ UNCHANGED <<state, booked, alloc, sold, cancels, ordered>>

EditReturnRefused(a) ==
    /\ req[a].op = "reedit" /\ returned[req[a].id] = 0
    /\ GiveUp(a)

DeleteReturn(a, r) ==
    /\ IsIdle(a) /\ returned[r] > 0
    /\ returned' = [returned EXCEPT ![r] = 0]
    /\ total' = Exact(sold, returned')
    /\ happened' = happened \cup {"return dropped"}
    /\ Commit(a)
    /\ UNCHANGED <<state, booked, alloc, sold, cancels, ordered>>

(***************************************************************************)
(* Cancelling what is left, and taking a cancellation back                 *)
(***************************************************************************)
Kept(copy, left) == copy - left

\* The plan and the check for active allocations, before the first write.
CancelRead(a, rows) ==
    /\ rows # {} /\ rows \subseteq CancelRows /\ ~CancelBlocked(rows)
    /\ Read(a, [op |-> "cancel", left |-> [i \in rows |-> Left[i]],
                copy |-> [i \in rows |-> booked[i]], stale |-> FALSE])

\* A line whose loaded quantity is all left is deleted with every allocation it has
\* by now; another one is assigned the loaded quantity less what is left.  The amount
\* of its booking is assigned as well.  An UPDATE that finds no row fails, a DELETE
\* that finds none is only warned about.
CancelLands(r) ==
    \A i \in DOMAIN r.left : state[i] = "live" /\ (r.left[i] = r.copy[i] \/ booked[i] > 0)

CancelWrite(a) ==
    LET left == req[a].left
        copy == req[a].copy
        rows == DOMAIN left
        gone == {i \in rows : left[i] = copy[i]}
    IN /\ req[a].op = "cancel" /\ CancelLands(req[a])
       /\ booked' = [i \in Lots |-> IF i \in rows THEN Kept(copy[i], left[i]) ELSE booked[i]]
       /\ alloc' = [p \in Lots \X Sales |-> IF p[1] \in gone THEN 0 ELSE alloc[p]]
       /\ cancels' = [i \in Lots |-> IF i \in rows
                         THEN Append(cancels[i], [qty |-> left[i], void |-> FALSE])
                         ELSE cancels[i]]
       /\ happened' = happened
            \cup (IF req[a].stale THEN {"raced cancel"} ELSE {})
            \cup (IF \E i \in rows : booked'[i] < Sum([s \in Sales |-> alloc'[<<i, s>>]])
                  THEN {"cancelled delivered"} ELSE {})
       /\ Commit(a)
       /\ UNCHANGED <<state, sold, returned, total, ordered>>

CancelRefused(a) ==
    /\ req[a].op = "cancel" /\ ~CancelLands(req[a])
    /\ GiveUp(a)

RevertRead(a, i, k) ==
    /\ state[i] = "live" /\ k \in DOMAIN cancels[i] /\ ~cancels[i][k].void
    /\ Read(a, [op |-> "revert", lot |-> i, note |-> k, copy |-> NoCopy, stale |-> FALSE])

\* The line is loaded after the entry and the booking, still in autocommit.
RevertLoad(a) ==
    /\ req[a].op = "revert" /\ req[a].copy = NoCopy
    /\ req' = [req EXCEPT ![a].copy = booked[req[a].lot]]
    /\ UNCHANGED <<goods, happened>>

RevertWrite(a) ==
    LET i == req[a].lot
        k == req[a].note
        copy == req[a].copy
    IN /\ req[a].op = "revert" /\ copy # NoCopy
       /\ state[i] = "live" /\ (copy = 0 \/ booked[i] > 0)
       /\ booked' = [booked EXCEPT ![i] =
                        cancels[i][k].qty + (IF copy = 0 THEN @ ELSE copy)]
       /\ cancels' = [cancels EXCEPT ![i][k].void = TRUE]
       /\ Note(a, "raced revert")
       /\ Commit(a)
       /\ UNCHANGED <<state, alloc, sold, returned, total, ordered>>

RevertRefused(a) ==
    /\ req[a].op = "revert" /\ req[a].copy # NoCopy
    /\ state[req[a].lot] # "live" \/ (req[a].copy > 0 /\ booked[req[a].lot] = 0)
    /\ GiveUp(a)

\* Bounds of the instances: how much a line may hold, how often it may be cancelled.
Bounded ==
    \A i \in Lots : booked'[i] <= MaxBooked /\ Len(cancels'[i]) <= MaxCancels

PoolNext ==
    /\ \E a \in Actors :
          \/ \E i \in Lots :
                \/ \E q \in Amounts : AddBooking(a, i, q)
                \/ \E q \in 0..MaxQty : EditBooking(a, i, q) \/ EditBookingRead(a, i, q)
                \/ DeleteBooking(a, i)
                \/ \E k \in 1..MaxCancels : RevertRead(a, i, k)
          \/ \E s \in Sales :
                \/ \E q \in Amounts : SaleRead(a, s, q) \/ EditSaleRead(a, s, q)
                \/ DeleteSale(a, s)
          \/ \E r \in Returns :
                \/ \E q \in Amounts : ReturnRead(a, r, q) \/ EditReturnRead(a, r, q)
                \/ DeleteReturn(a, r)
          \/ \E rows \in SUBSET Lots : CancelRead(a, rows)
          \/ EditBookingWrite(a) \/ EditBookingRefused(a)
          \/ SaleWrite(a) \/ EditSaleWrite(a) \/ SaleRefused(a)
          \/ ReturnWrite(a) \/ EditReturnWrite(a) \/ EditReturnRefused(a)
          \/ CancelWrite(a) \/ CancelRefused(a)
          \/ RevertLoad(a) \/ RevertWrite(a) \/ RevertRefused(a)
    /\ Bounded

PoolSpec == PoolInit /\ [][PoolNext]_poolVars

-----------------------------------------------------------------------------

Unless(events, P) == happened \cap events # {} \/ P

\* The client is never handed more than was booked, net of what came back: unless a
\* booking with deliveries was deleted, a return was deleted or cut after its goods
\* were delivered again, a cancellation or its taking back overlapped another change,
\* or a line was edited below what was delivered since the edit had read it.
WithinBooking ==
    Unless({"booking deleted", "return dropped", "cancelled delivered", "raced cancel", "raced revert",
            "edited delivered"}, Net <= Sum(booked))

\* What is left is computed three times and is one number: by the sale sheet from the
\* entries (_direct_sales_add_direct_sale.py:235), by the posting check from the
\* allocation rows (sales_core.py:640), by the cancellation screen lot by lot
\* (booking_cancel_plan.py:104).  And all of it can be delivered: the second refusal
\* (sales_core.py:689) is never reached, unless goods came back that are no longer
\* delivered.
OneBalance ==
    /\ Unless({"booking deleted", "raced cancel", "raced revert"}, SheetBalance = PoolOf(alloc))
    /\ Unless({"delivery dropped", "return dropped", "booking deleted", "raced return",
               "raced cancel", "raced revert"}, Sum(Left) = SheetBalance)
    /\ Unless({"delivery dropped", "raced return", "booking deleted", "raced cancel",
               "raced revert"}, LET q == PoolOf(alloc) IN Sum(Plan(alloc, q)) = q)

\* Goods are neither made nor lost on the booking side: cancelling and taking back
\* conserve what was ordered, and every bag a sale delivers stays allocated to a
\* booking line, whatever is cancelled, edited or returned, unless such a change overlapped another.
BookedGoodsConserved ==
    /\ Unless({"raced cancel", "raced revert", "raced edit"},
           \A i \in Lots : state[i] = "live" => booked[i] + Outstanding(cancels[i]) = ordered[i])
    /\ Unless({"booking deleted", "raced cancel"},
           \A s \in Sales : Sum([i \in Lots |-> alloc[<<i, s>>]]) = sold[s])

\* The stock figure is the sum of the entries, unless a sale or a return overlapped
\* another posting after it had loaded the figure.
StockExact == Unless({"raced stock"}, total = Exact(sold, returned))
=============================================================================
