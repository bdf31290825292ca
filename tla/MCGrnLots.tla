----------------------------- MODULE MCGrnLots -----------------------------
(***************************************************************************)
(* GRN lots for TLC: two new sales and a legacy void one compete for two   *)
(* lots through two requests.                                              *)
(***************************************************************************)
EXTENDS GrnHistory, TLC

CONSTANTS s1, s2

MCLots == 1..2
OneLine == {<<1>>, <<3>>}

\* A behaviour is followed until both excused events have happened.
Followed == events # {"raced", "restored"}

Symmetry == Permutations(Requests) \cup Permutations({s1, s2})
=============================================================================
