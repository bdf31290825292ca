--------------------------- MODULE MCBookingPool ---------------------------
(***************************************************************************)
(* Requests overlap while there is one booking; with two bookings, one     *)
(* request at a time and one return.  A behaviour is followed until a race *)
(* or the second of the other excluded events has happened, and with two   *)
(* bookings until the first.                                               *)
(***************************************************************************)
EXTENDS BookingPool, TLC

OneBooking == \A i \in Lots : i > 1 => state[i] = "new"
OneAtATime ==
    /\ Cardinality({a \in Actors : ~IsIdle(a)}) <= 1
    /\ \A a \in Actors : IsIdle(a) \/ ~req[a].stale
    /\ Cardinality({r \in Returns : returned[r] > 0}) <= 1

SmallNext == PoolNext /\ (OneBooking \/ OneAtATime)'
SmallSpec == PoolInit /\ [][SmallNext]_poolVars

Followed ==
    /\ happened = {} \/ (OneBooking /\ Cardinality(happened) = 1)
    /\ happened \cap {"raced stock", "raced return", "raced cancel", "raced revert",
                     "raced edit"} = {}

Symmetry == Permutations(Actors) \cup Permutations(Sales) \cup Permutations(Returns)
=============================================================================
