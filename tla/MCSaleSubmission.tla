-------------------------- MODULE MCSaleSubmission --------------------------
(* The sale sheet with a few requests and two kinds of order, and the        *)
(* numbers of all documents, which the posting of a sale draws and checks.   *)
(* The models share no state, so a behaviour exercises one.                  *)
EXTENDS SaleSubmission, BillNumbers, TLC

CONSTANTS r1, r2, r3, p, d, e, e1, e2

\* p and e are plain orders that may carry the same manual bill number, d comes
\* from the held draft.
MCQty == [x \in Payloads |-> IF x = d THEN 1 ELSE 2]
PlainBills == [x \in Payloads |-> IF x = d THEN NoBill ELSE "B1"]

Stored(kind, auto, manual, void) ==
    [kind |-> kind, auto |-> auto, manual |-> manual, void |-> void, old |-> TRUE, how |-> "checked"]
\* two old sales that share an automatic number, one of them void; and an old
\* payment with a number ahead of its counter
MCOldSales == <<Stored("sale", 1, 0, FALSE), Stored("sale", 1, 5, TRUE)>>
MCOldPayment == <<Stored("payment", 3, 5, FALSE)>>
MCOldDocuments == {MCOldSales, MCOldPayment}
MCManual == {5}

VARIABLE view    \* the one this behaviour exercises

\* At most one request fails, dies or loses its sale again.
OneMishap ==
    Cardinality({r \in Requests : pc[r] = "done" /\ reply[r] \in {"none", "error"}} \cup (made \ sales)) <= 1

PostingInit ==
    /\ Init /\ NumbersInit /\ view \in {"sheet", "numbers"}
    /\ view = "sheet" => doc = MCOldSales
PostingNext ==
    /\ view' = view
    /\ \/ view = "sheet" /\ Next /\ OneMishap' /\ UNCHANGED numberVars
       \/ view = "numbers" /\ NumbersNext /\ UNCHANGED vars
PostingSpec == PostingInit /\ [][PostingNext]_<<vars, numberVars, view>>

Symmetry == Permutations(Requests) \cup Permutations(Editors)
=============================================================================
