----------------------------- MODULE SystemLock -----------------------------
(***************************************************************************)
(* The SystemLock row that guards the accounts-domain wipe:                *)
(* app/services/locks.py and the route that uses it.                       *)
(*                                                                         *)
(* Every request runs SELECT, then an UPDATE or INSERT and COMMIT.  SQLite *)
(* starts the transaction at the first write, so other requests commit in  *)
(* between.  The ORM writes only the columns whose value differs from the  *)
(* one it loaded: Delta is that rule.                                      *)
(***************************************************************************)
EXTENDS Naturals, FiniteSets

CONSTANT Requests         \* the requests (workers) that post the wipe form

VARIABLES
    row,      \* the system_lock row of this lock name, or Missing
    pc,       \* where each request stands
    saw,      \* the row each request loaded
    stale,    \* history: requests whose loaded row was since overwritten
    raced,    \* history: a request committed from a stale load
    overran   \* history: the TTL ran out under a live holder

vars == <<row, pc, saw, stale, raced, overran>>

\* acquired abstracts now() - acquired_at: "fresh" below ttl_seconds, "old" above.
Missing == [status |-> "missing", acquired |-> "null"]
Rows == {Missing} \cup
        [status : {"locked", "unlocked"}, acquired : {"null", "fresh", "old"}]
InWindow == {"acquiring", "releasing"}

Holders == {r \in Requests : pc[r] \in {"held", "wiped", "releasing"}}

Init ==
    /\ row = Missing
    /\ pc = [r \in Requests |-> "idle"]
    /\ saw = [r \in Requests |-> Missing]
    /\ stale = {}
    /\ raced = FALSE
    /\ overran = FALSE

\* What a COMMIT by r does to the bookkeeping of the other requests' loads.
NoteCommit(r) ==
    /\ stale' = {q \in Requests \ {r} : q \in stale \/ pc[q] \in InWindow}
    /\ raced' = (raced \/ r \in stale)

\* The UPDATE the session flushes: only columns changed since the load.
Delta(loaded, wanted) ==
    [status   |-> IF wanted.status = loaded.status THEN row.status ELSE wanted.status,
     acquired |-> IF wanted.acquired = "null" /\ loaded.acquired = "null"
                  THEN row.acquired ELSE wanted.acquired]

\* Faulty variant: a lock counts as free although it has not expired.
ActiveIgnoringStatus(l) == FALSE

\* A lock that is held and not expired is refused.
Active(l) == l.status = "locked" /\ l.acquired # "old"

------------------------------------------------------------------------------
\* acquire_system_lock finds an active lock: refused, nothing changes.
AcquireRefused(r) ==
    /\ pc[r] = "idle"
    /\ Active(row)
    /\ UNCHANGED vars

\* acquire_system_lock: the SELECT of a missing, unlocked or expired row.
AcquireRead(r) ==
    /\ pc[r] = "idle"
    /\ ~Active(row)
    /\ pc' = [pc EXCEPT ![r] = "acquiring"]
    /\ saw' = [saw EXCEPT ![r] = row]
    /\ stale' = stale \ {r}
    /\ UNCHANGED <<row, raced, overran>>

\* Faulty variant: the new row is created without acquired_at.
AcquireInsertUntimed(r) ==
    /\ pc[r] = "acquiring" /\ saw[r] = Missing /\ row = Missing
    /\ row' = [status |-> "locked", acquired |-> "null"]
    /\ pc' = [pc EXCEPT ![r] = "held"]
    /\ NoteCommit(r)
    /\ UNCHANGED <<saw, overran>>

\* The row was missing at the SELECT: INSERT, and the UNIQUE name refuses the second.
AcquireInsert(r) ==
    /\ pc[r] = "acquiring" /\ saw[r] = Missing
    /\ IF row = Missing
       THEN /\ row' = [status |-> "locked", acquired |-> "fresh"]
            /\ pc' = [pc EXCEPT ![r] = "held"]
            /\ NoteCommit(r)
       ELSE /\ pc' = [pc EXCEPT ![r] = "idle"]
            /\ UNCHANGED <<row, stale, raced>>
    /\ UNCHANGED <<saw, overran>>

\* The row was unlocked, or locked and expired: UPDATE and COMMIT.
AcquireUpdate(r) ==
    /\ pc[r] = "acquiring" /\ saw[r] # Missing
    /\ row' = Delta(saw[r], [status |-> "locked", acquired |-> "fresh"])
    /\ pc' = [pc EXCEPT ![r] = "held"]
    /\ NoteCommit(r)
    /\ UNCHANGED <<saw, overran>>

\* The wipe transaction, committed or rolled back; the finally clause follows.
Wipe(r) ==
    /\ pc[r] = "held"
    /\ pc' = [pc EXCEPT ![r] = "wiped"]
    /\ UNCHANGED <<row, saw, stale, raced, overran>>

\* release_system_lock: the SELECT by name; no owner is compared.
ReleaseRead(r) ==
    /\ pc[r] = "wiped"
    /\ pc' = [pc EXCEPT ![r] = "releasing"]
    /\ saw' = [saw EXCEPT ![r] = row]
    /\ stale' = stale \ {r}
    /\ UNCHANGED <<row, raced, overran>>

ReleaseWrite(r) ==
    /\ pc[r] = "releasing"
    /\ row' = Delta(saw[r], [status |-> "unlocked", acquired |-> "null"])
    /\ pc' = [pc EXCEPT ![r] = "idle"]
    /\ NoteCommit(r)
    /\ UNCHANGED <<saw, overran>>

\* The worker dies: the row stays as it is, the request is gone.
Crash(r) ==
    /\ pc[r] # "idle"
    /\ pc' = [pc EXCEPT ![r] = "idle"]
    /\ stale' = stale \ {r}
    /\ UNCHANGED <<row, saw, raced, overran>>

\* ttl_seconds pass since acquired_at.  A row without acquired_at is read as
\* acquired now, so it never gets old.
Expire ==
    /\ row.status = "locked" /\ row.acquired = "fresh"
    /\ row' = [row EXCEPT !.acquired = "old"]
    /\ overran' = (overran \/ Holders # {})
    /\ UNCHANGED <<pc, saw, stale, raced>>

Proceed(r) == AcquireInsert(r) \/ AcquireUpdate(r) \/ Wipe(r)
              \/ ReleaseRead(r) \/ ReleaseWrite(r)

Next == Expire \/ \E r \in Requests : 
    AcquireRefused(r) \/ AcquireRead(r) \/ Proceed(r) \/ Crash(r)

\* A request that has started runs to its end or crashes; time passes.
Spec == Init /\ [][Next]_vars /\ WF_vars(Expire)
             /\ \A r \in Requests : WF_vars(Proceed(r))

------------------------------------------------------------------------------
TypeOK ==
    /\ row \in Rows
    /\ pc \in [Requests -> {"idle", "acquiring", "held", "wiped", "releasing"}]
    /\ saw \in [Requests -> Rows]
    /\ stale \subseteq Requests
    /\ raced \in BOOLEAN /\ overran \in BOOLEAN

\* "Uses atomic DB operations to prevent race conditions" (the docstring of
\* acquire_system_lock): while no holder outlives its TTL, at most one request
\* is between acquire and release.
MutualExclusion == overran \/ Cardinality(Holders) <= 1

\* Exclusion is only ever lost to a commit made from an overwritten SELECT or to
\* a holder that outlived the TTL; crashes and refused requests never cost it.
BreachNeedsRaceOrExpiry == raced \/ MutualExclusion

\* "TTL for crash safety" (models/core.py): a locked row is released or expires.
CrashSafety ==
    (row.status = "locked") ~> (row.status = "unlocked" \/ row.acquired = "old")

\* Crash safety holds in every run in which no commit overwrites a row its
\* request has not seen.
CrashSafetyUnlessRaced == CrashSafety \/ <>raced
=============================================================================
