-------------------------- MODULE MCAccountLedger --------------------------
(***************************************************************************)
(* One cash and one bank account, two overlapping requests.  Two new       *)
(* postings overlap when they are of one kind; nothing is followed after   *)
(* two of the excluded events.  The bank account opens with money; the     *)
(* document that is there at first is the smallest and moves cash, out of  *)
(* an account that opens in funds or into one that opens empty.            *)
(***************************************************************************)
EXTENDS AccountLedger, FiniteSetsExt, TLC

\* A credit of 1, nothing and a debit of 2
OpeningBalances == {-1, 0, 2}

New(r) == req[r].op \in Payments \cup {"manual", "direct"}

Start ==
    /\ \A b \in BankAccounts : account[b].opening = Max(Openings)
    /\ \A d \in Docs : doc[d].amt <= Min(Amounts)
    /\ \A d \in Docs, a \in CashAccounts : kind[d] # "none" =>
          \/ doc[d].from = a /\ account[a].opening = Max(Openings)
          \/ doc[d].to = a /\ account[a].opening = 0

Small ==
    /\ ops = 0 => Start
    /\ Cardinality(happened) + Cardinality(owing) <= 1
    /\ \A r, q \in Requests : New(r) /\ New(q) => req[r].op = req[q].op

Symmetry == Permutations(Requests) \cup Permutations(Docs)
=============================================================================
