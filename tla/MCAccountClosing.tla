-------------------------- MODULE MCAccountClosing --------------------------
(* Two days of two instants, with the closings or the board; or the rents of *)
(* two sales.  These share no state: a behaviour exercises one.              *)
EXTENDS AccountClosing, DriverRents, TLC

VARIABLE part    \* the one this behaviour exercises

SmallClosings ==
    /\ closing = <<>> \/ \A day \in Days : position[day] = Open
    /\ \A a \in Actors : call[a].step = "closing" => \A day \in Days : position[day] = Open
    /\ \A a \in Actors : call[a].step = "locking" => closing = <<>>

\* The last two moves only for one sale of one driver
SmallRents ==
    moves <= MaxMoves - 2 \/ /\ DOMAIN share \subseteq {1} /\ Cardinality(DOMAIN row) <= 1
                             /\ \A d \in Drivers : owing[d] = 0

BooksInit ==
    /\ ClosingInit /\ RentsInit
    /\ part \in {"closings", "rents"}

BooksNext ==
    /\ part' = part
    /\ \/ part = "closings" /\ ClosingNext /\ SmallClosings' /\ UNCHANGED rentVars
       \/ part = "rents" /\ RentsNext /\ SmallRents' /\ UNCHANGED closingVars

BooksSpec == BooksInit /\ [][BooksNext]_<<closingVars, rentVars, part>>

\* Until something has happened that excuses the properties
Followed == occurred \subseteq {"later movements"}

Symmetry ==
    Permutations(Actors) \cup Permutations(Postings)
    \cup Permutations(Clerks) \cup Permutations(Drivers) \cup Permutations(Forms)
=============================================================================
