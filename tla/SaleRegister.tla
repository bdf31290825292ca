---------------------------- MODULE SaleRegister ----------------------------
(***************************************************************************)
(* What posting the direct-sale sheet promises, whatever threads, locks,   *)
(* checks, retries and crashes lie between the browser and the database:   *)
(* an atomic register of sales.  A sheet has at most one standing sale, a  *)
(* request is answered once and truthfully, and a draft that was resumed   *)
(* leaves only into a recorded sale; it stays behind only where a write    *)
(* failed.  SaleSubmission implements it.                                  *)
(***************************************************************************)
CONSTANTS
    Requests,      \* POSTs of the sheet
    Forms,         \* what a request may post: records with a key and a payload
    NoKey,         \* the key of a form without one
    NoForm,        \* the request has not been posted
    FromDraft,     \* payloads resumed from the held draft
    Faults         \* a write may fail

VARIABLES
    book,    \* requests whose sale stands
    ever,    \* requests that ever recorded a sale
    asked,   \* what each request posted
    told,    \* what each request was told, or "none"
    draft    \* the held draft: "held", "gone" or "discarded"

register == <<book, ever, asked, told, draft>>

RegisterInit ==
    /\ book = {} /\ ever = {}
    /\ asked = [r \in Requests |-> NoForm]
    /\ told = [r \in Requests |-> "none"]
    /\ draft = "held"

\* The sheet is posted.
Ask(r) ==
    /\ asked[r] = NoForm /\ told[r] = "none"
    /\ \E f \in Forms : asked' = [asked EXCEPT ![r] = f]
    /\ UNCHANGED <<book, ever, told, draft>>

SameSheet(s, r) == asked[s].key # NoKey /\ asked[s].key = asked[r].key

\* A sale is recorded: once per request, and while no sale of its sheet stands.
Record(r) ==
    /\ asked[r] \in Forms /\ told[r] = "none" /\ r \notin ever
    /\ ~\E s \in book : SameSheet(s, r)
    /\ book' = book \cup {r} /\ ever' = ever \cup {r}
    /\ UNCHANGED <<asked, told, draft>>

Tell(r, what) ==
    /\ asked[r] \in Forms /\ told[r] = "none"
    /\ told' = [told EXCEPT ![r] = what]
    /\ UNCHANGED <<book, ever, asked>>

\* The sale is confirmed; the draft it was resumed from leaves with it, unless
\* the write that removes it failed.
Confirm(r) ==
    /\ r \in ever /\ Tell(r, "saved")
    /\ \/ draft' = IF asked[r].payload \in FromDraft /\ draft = "held" THEN "gone" ELSE draft
       \/ Faults /\ draft' = draft

\* The request repeats one whose sale stands.
Replay(r) ==
    /\ r \notin ever /\ \E s \in book : asked[s] = asked[r]
    /\ Tell(r, "replayed")
    /\ UNCHANGED draft

\* A refused or failed request has recorded no sale.
Decline(r) ==
    /\ r \notin ever /\ (Tell(r, "refused") \/ Tell(r, "error"))
    /\ UNCHANGED draft

\* A sale is deleted.
Remove(r) ==
    /\ r \in book
    /\ book' = book \ {r}
    /\ UNCHANGED <<ever, asked, told, draft>>

\* The user discards the held draft.
Discard ==
    /\ draft = "held" /\ draft' = "discarded"
    /\ UNCHANGED <<book, ever, asked, told>>

RegisterNext ==
    \/ \E r \in Requests : Ask(r) \/ Record(r) \/ Confirm(r) \/ Replay(r) \/ Decline(r) \/ Remove(r)
    \/ Discard

RegisterSpec == RegisterInit /\ [][RegisterNext]_register
=============================================================================
