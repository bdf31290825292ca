------------------------------ MODULE GrnLots ------------------------------
(***************************************************************************)
(* GRN lots of one material and the sales that consume them, oldest first: *)
(* app/services/sales_core.py (plan, allocation, lock flag),               *)
(* hard_delete_transaction and the restore route of the void audit, the    *)
(* GRN pages.                                                              *)
(*                                                                         *)
(* A request reads its plan (or its check) in autocommit and writes later: *)
(* SQLite opens the transaction at the first write.  Every write           *)
(* transaction is one step; what was read before it may be out of date.    *)
(***************************************************************************)
EXTENDS Integers, FiniteSets, Sequences, Functions

CONSTANTS
    Lots,        \* positions of the lots in the order (date_posted, grn id, item id)
    Sales,       \* sale identities
    Requests,    \* concurrent requests
    Quantities,  \* quantities a GRN line may carry
    Forms,       \* the chargeable lines of a sale form: sequences of quantities
    Legacy       \* sales that a legacy database holds as void

ASSUME LotsAssumption == Lots \subseteq Nat
ASSUME LegacyAssumption == Legacy \subseteq Sales
\* A database holds finitely many sales; quantities are counted in bags.
ASSUME QuantitiesAssumption ==
    IsFiniteSet(Sales) /\ Quantities \subseteq Nat /\ Forms \subseteq Seq(Nat)

VARIABLES
    lot,    \* the grn_item rows
    sale,   \* direct_sale.is_void: "none", "active" or "void"
    alloc,  \* the grn_allocation rows: quantity of each lot each sale took
    req     \* what each request has read and not yet written

vars == <<lot, sale, alloc, req>>

NoLot == [st |-> "none", qty |-> 0, locked |-> FALSE]
NoAlloc == [g \in Lots |-> 0]
Idle == [op |-> "idle"]

------------------------------------------------------------------------------
\* _grn_consumed_qty_map: allocations of sales that are not void, but one.
Consumed(g, excluded) ==
    SumFunctionOnSet([s \in Sales |-> alloc[s][g]],
                     {s \in Sales : sale[s] = "active"} \ excluded)

\* _grn_fifo_lots_for_material: what is open in a live lot dated by asOf.
Available(g, asOf, excluded) ==
    IF lot[g].st = "live" /\ g <= asOf /\ lot[g].qty > Consumed(g, excluded)
    THEN lot[g].qty - Consumed(g, excluded) ELSE 0

\* Faulty variant: the newest lot first.
TakeNewestFirst(n, g, open) ==
    LET left == n - SumFunctionOnSet(open, {h \in Lots : h > g})
    IN IF left <= 0 THEN 0 ELSE IF left < open[g] THEN left ELSE open[g]

\* _allocate_grn_fifo_plan for one line: each lot gives what the older leave.
\* What no lot covers is a slice without a lot, which allocates nothing.
Take(n, g, open) ==
    LET left == n - SumFunctionOnSet(open, {h \in Lots : h < g})
    IN IF left <= 0 THEN 0 ELSE IF left < open[g] THEN left ELSE open[g]

\* _expand_chargeable_items_fifo: every line is planned from the same rows.
Plan(lines, asOf, excluded) ==
    LET open == [g \in Lots |-> Available(g, asOf, excluded)]
    IN [g \in Lots |-> SumFunction([i \in DOMAIN lines |-> Take(lines[i], g, open)])]

\* _refresh_grn_item_locks, in the state the transaction is about to commit:
\* consumed > 0 exactly when some active sale allocates from the lot.
UsedIn(g, sales, allocs) == \E s \in Sales : sales[s] = "active" /\ allocs[s][g] # 0

\* Faulty variant: the flag is set by a sale and never cleared.
RefreshOnlySets(lots, touched, sales, allocs) ==
    [g \in Lots |-> IF g \in touched /\ lots[g].st # "none"
                    THEN [lots[g] EXCEPT !.locked = @ \/ UsedIn(g, sales, allocs)]
                    ELSE lots[g]]

Refresh(lots, touched, sales, allocs) ==
    [g \in Lots |-> IF g \in touched /\ lots[g].st # "none"
                    THEN [lots[g] EXCEPT !.locked = UsedIn(g, sales, allocs)]
                    ELSE lots[g]]

Touched(row) == {g \in Lots : row[g] # 0}

\* The foreign key of grn_allocation.grn_item_id.
ReferencesHold(row) == \A g \in Touched(row) : lot[g].st # "none"

\* Faulty variant: every lot may be edited.
HasLockedLotsNever(g) == FALSE

\* _grn_has_locked_lots.
HasLockedLots(g) == (lot[g].locked /\ lot[g].st = "live") \/ UsedIn(g, sale, alloc)

------------------------------------------------------------------------------
\* A database in which the legacy void sales, if any, had taken from one lot.
Init ==
    /\ sale = [s \in Sales |-> IF s \in Legacy THEN "void" ELSE "none"]
    /\ \E g \in Lots, n \in Quantities :
        /\ lot = [h \in Lots |-> IF h = g /\ Legacy # {}
                                 THEN [st |-> "live", qty |-> n, locked |-> FALSE] ELSE NoLot]
        /\ alloc = [s \in Sales |-> IF s \in Legacy THEN [NoAlloc EXCEPT ![g] = n] ELSE NoAlloc]
    /\ req = [r \in Requests |-> Idle]

IsIdle(r) == req[r].op = "idle"
Done(r) == req' = [req EXCEPT ![r] = Idle]

\* POST /grn action=add: a new line, whose date puts it anywhere in the order.
ReceiveGrn(r) ==
    /\ IsIdle(r)
    /\ \E g \in Lots, n \in Quantities :
        /\ lot[g].st = "none"
        /\ lot' = [lot EXCEPT ![g] = [st |-> "live", qty |-> n, locked |-> FALSE]]
    /\ UNCHANGED <<sale, alloc, req>>

\* add_direct_sale up to the first write: the FIFO plan is read.
PlanSale(r) ==
    /\ IsIdle(r)
    /\ \E s \in Sales, lines \in Forms, asOf \in Lots :
        /\ sale[s] = "none" /\ \A q \in Requests : req[q].op = "post" => req[q].sale # s
        /\ req' = [req EXCEPT ![r] = [op |-> "post", sale |-> s,
                                      plan |-> Plan(lines, asOf, {})]]
    /\ UNCHANGED <<lot, sale, alloc>>

\* edit_direct_sale up to the first write: the plan leaves out the sale itself.
PlanEditSale(r) ==
    /\ IsIdle(r)
    /\ \E s \in Sales, lines \in Forms, asOf \in Lots :
        /\ sale[s] # "none"
        /\ req' = [req EXCEPT ![r] = [op |-> "edit", sale |-> s,
                                      plan |-> Plan(lines, asOf, {s})]]
    /\ UNCHANGED <<lot, sale, alloc>>

\* The write transaction of either: old allocations deleted and refreshed, new
\* ones inserted and refreshed.
WriteSale(r) ==
    /\ req[r].op \in {"post", "edit"}
    /\ LET s == req[r].sale  plan == req[r].plan
       IN /\ req[r].op = "edit" => sale[s] # "none"
          /\ ReferencesHold(plan)
          /\ alloc' = [alloc EXCEPT ![s] = plan]
          /\ sale' = IF req[r].op = "post" THEN [sale EXCEPT ![s] = "active"] ELSE sale
          /\ lot' = Refresh(lot, Touched(alloc[s]) \cup Touched(plan), sale', alloc')
    /\ Done(r)

\* A validation, a foreign key or a vanished row ends the request: rollback.
Abort(r) ==
    /\ ~IsIdle(r)
    /\ Done(r)
    /\ UNCHANGED <<lot, sale, alloc>>

\* hard_delete_transaction('DirectSale'): the allocations go with the sale.
DeleteSale(r) ==
    /\ IsIdle(r)
    /\ \E s \in Sales :
        /\ sale[s] # "none"
        /\ sale' = [sale EXCEPT ![s] = "none"]
        /\ alloc' = [alloc EXCEPT ![s] = NoAlloc]
        /\ lot' = Refresh(lot, Touched(alloc[s]), sale', alloc')
    /\ UNCHANGED req

\* restore_audit_record: the old allocations count again, whatever was sold since.
RestoreSale(r) ==
    /\ IsIdle(r)
    /\ \E s \in Sales :
        /\ sale[s] = "void"
        /\ sale' = [sale EXCEPT ![s] = "active"]
        /\ lot' = Refresh(lot, Touched(alloc[s]), sale', alloc)
    /\ UNCHANGED <<alloc, req>>

\* edit_grn and the delete action read the lock flag before they write.
CheckGrn(r) ==
    /\ IsIdle(r)
    /\ \E g \in Lots, op \in {"editGrn", "deleteGrn"} :
        /\ lot[g].st # "none" /\ ~HasLockedLots(g)
        /\ req' = [req EXCEPT ![r] = [op |-> op, lot |-> g]]
    /\ UNCHANGED <<lot, sale, alloc>>

\* edit_grn: the line gets a new quantity, or is left out and stays void.
WriteGrn(r) ==
    /\ req[r].op = "editGrn"
    /\ LET g == req[r].lot
       IN /\ lot[g].st # "none"
          /\ \/ \E n \in Quantities : lot' = [lot EXCEPT ![g].st = "live", ![g].qty = n]
             \/ lot' = [lot EXCEPT ![g].st = "void"]
    /\ Done(r)
    /\ UNCHANGED <<sale, alloc>>

\* hard_delete_transaction('GRN'): a row that any allocation names is refused.
DeleteGrn(r) ==
    /\ req[r].op = "deleteGrn"
    /\ LET g == req[r].lot
       IN /\ \A s \in Sales : alloc[s][g] = 0
          /\ lot' = [lot EXCEPT ![g] = NoLot]
    /\ Done(r)
    /\ UNCHANGED <<sale, alloc>>

Next == \E r \in Requests :
    \/ ReceiveGrn(r) \/ PlanSale(r) \/ PlanEditSale(r) \/ WriteSale(r) \/ Abort(r)
    \/ DeleteSale(r) \/ RestoreSale(r) \/ CheckGrn(r) \/ WriteGrn(r) \/ DeleteGrn(r)

Spec == Init /\ [][Next]_vars

------------------------------------------------------------------------------
\* GRNItem.is_locked is "True while consumed by an active sale" (models/stock.py):
\* through posts, edits, deletions and restores by concurrent requests the stored
\* flag always equals the allocations it is derived from.
LockMatchesUse == \A g \in Lots : lot[g].locked <=> UsedIn(g, sale, alloc)

\* No allocation ever names a deleted lot, although both the sale and the GRN
\* deletion decide on rows read before their transactions.
AllocationsHaveLots ==
    \A s \in Sales, g \in Lots : alloc[s][g] # 0 => lot[g].st # "none"

\* "FIFO lot consumption: cash/credit sale line -> oldest remaining GRN item"
\* (models/sales.py): a lot is never consumed beyond what it received.
NoOverConsumption == \A g \in Lots : lot[g].st = "live" => Consumed(g, {}) <= lot[g].qty

\* A step leaves the stock of a locked lot as it is.
LocksRespected ==
    \A g \in Lots : lot[g].locked => lot'[g].qty = lot[g].qty /\ lot'[g].st = lot[g].st

\* A step that gives a sale its lots takes from a lot only when every older lot
\* is used up.
TakesOldest ==
    \A s \in Sales : alloc'[s] # alloc[s] =>
        \A g \in Touched(alloc'[s]), h \in Lots :
            h < g /\ lot'[h].st = "live" /\ sale'[s] = "active"
                => SumFunctionOnSet([q \in Sales |-> alloc'[q][h]],
                                    {q \in Sales : sale'[q] = "active"}) >= lot'[h].qty
=============================================================================
