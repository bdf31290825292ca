----------------------------- MODULE GrnHistory -----------------------------
(***************************************************************************)
(* GRN lots with a memory of what the planner of sales_core.py cannot be   *)
(* blamed for: a request reads its plan, or a lock flag, in autocommit and *)
(* nothing tells it that rows have changed since; and a void sale that is  *)
(* restored claims again what may have been sold meanwhile.                *)
(***************************************************************************)
EXTENDS GrnLots

VARIABLE events    \* "raced": rows changed under a request that had read; "restored"

Raced == \E r \in Requests :
    /\ req[r].op # "idle" /\ req'[r] = req[r]
    /\ <<lot, sale, alloc>>' # <<lot, sale, alloc>>
Restored == \E s \in Sales : sale[s] = "void" /\ sale'[s] = "active"

LotsInit == Init /\ events = {}
LotsNext == /\ Next
            /\ events' = events \cup (IF Raced THEN {"raced"} ELSE {})
                                \cup (IF Restored THEN {"restored"} ELSE {})
lotsVars == <<vars, events>>
LotsSpec == LotsInit /\ [][LotsNext]_lotsVars

\* edit_grn: "stock-affecting fields stay blocked" on a GRN whose lots are locked
\* (pending.py:231), unless a sale took the lot after the flag was read.
LockedLotsKeepStock == [][events' # {} \/ LocksRespected]_lotsVars

\* Until rows change under a request that has read its plan, or a void sale is
\* restored, a lot is never consumed beyond what it received (models/sales.py:244),
\* and a sale takes from a lot only when every older lot is used up (sales_core.py:233).
FirstInFirstOut == [][events' # {} \/ (NoOverConsumption' /\ TakesOldest)]_lotsVars
=============================================================================
