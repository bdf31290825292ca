--------------------------- MODULE MCPendingBills ---------------------------
(* What a client owes: the pending bills, and the statements made from the   *)
(* documents.  The models share no state, so a behaviour exercises one; the  *)
(* bills with two sources under their automatic numbers, or with one active  *)
(* source whose number is retyped.                                           *)
EXTENDS PendingBills, ClientStatement

VARIABLE view    \* the one this behaviour exercises

Automatic == \A s \in Sources : src[s].bill = "auto"
OneActive == Cardinality({s \in Sources : src[s].st = "active"}) <= 1

OwedInit ==
    /\ BillsInit /\ StatementInit /\ view \in {"two sources", "numbers", "statement"}
    /\ view # "statement" => paid = NoPayment
OwedNext ==
    /\ view' = view
    /\ \/ /\ view = "two sources" /\ BillsNext /\ Automatic'
          /\ UNCHANGED statementVars
       \/ /\ view = "numbers" /\ BillsNext /\ OneActive'
          /\ UNCHANGED statementVars
       \/ view = "statement" /\ StatementNext /\ UNCHANGED billVars
OwedSpec == OwedInit /\ [][OwedNext]_<<billVars, statementVars, view>>

MCSales == {1}
MCBookings == {2}
MCBackdated == {2}
MCLegacy == {2}
MCDues == {0, 2}
MCAmounts == {-1, 3}

Form(q, p, d) == [qty |-> q, paid |-> p, disc |-> d]
MCForms == {Form(2, 0, 0), Form(2, 1, 1), Form(1, 2, 1)}
MCPayments == {[amount |-> 2, disc |-> 1], [amount |-> -1, disc |-> 0]}
MCSaleBill == Form(1, 0, 0)
MCTyped == {10}
==============================================================================
