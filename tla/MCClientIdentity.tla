-------------------------- MODULE MCClientIdentity --------------------------
(* Two clients, a third may be added; one document of any kind: documents do *)
(* not affect each other, except a sale its pending bill.                    *)
EXTENDS ClientIdentity, TLC

CONSTANTS p, q, r, c1, c2, c3

Symmetric == Permutations({p, q, r}) \cup Permutations({c1, c2, c3})

\* What follows after a name was left empty is not followed further; before the
\* first document clients are only added and renamed; it is one of the first two's.
Relevant ==
    /\ "unnamed" \notin happened
    /\ Docs = {} => happened = {} /\ \A c \in Rows : master[c].st = "active" /\ master[c].to = Nobody
    /\ \A d \in Docs : d[2] <= Opened
=============================================================================
