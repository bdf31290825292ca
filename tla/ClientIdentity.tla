--------------------------- MODULE ClientIdentity ---------------------------
(***************************************************************************)
(* To which client a document belongs.  Documents carry copies of the      *)
(* client's name and code, or its id; the pages that rename, transfer and  *)
(* reclaim clients rewrite the copies (app/blueprints/masters/), and the   *)
(* client ledgers find the client again from them                          *)
(* (app/services/financial_ledgers.py).                                    *)
(*                                                                         *)
(* Each client has at most one document of a kind.  Names and codes are    *)
(* compared as the program normalises them, and no name contains another.  *)
(***************************************************************************)
EXTENDS Integers, FiniteSets, Functions, FiniteSetsExt

CONSTANTS
    MaxClients,  \* bound on the client rows
    Opened,      \* clients present at the start
    Names,       \* names a form may give, Blank among them
    Codes,       \* codes a form may give
    Blank,       \* the name left empty
    NoCode,      \* no client code
    MaxDocs      \* bound on the documents posted, a sale with its pending bill as one

Clients == 1..MaxClients
Nobody == 0
ASSUME ClientsAssumption ==
    /\ MaxClients \in Nat /\ Opened \in Clients /\ MaxDocs \in Nat
    /\ Blank \in Names /\ NoCode \notin Codes

VARIABLES
    master,    \* the client rows
    doc,       \* what each document, named by its kind and by the client it was
               \* posted for, says now
    rows,      \* history: where the rows that transfers move are: "home",
               \* "lent" to the client of transferred_to_id, or "mixed"
    happened   \* history: what else sets exceptions of the properties

clientVars == <<master, doc, rows, happened>>

\* "booking" stands for Booking,
\* MaterialReturn and Delivery, which carry a name only; "cancel" for Entry.
Kinds == {"booking", "sale", "payment", "pending", "waive", "cancel"}
NoClient == [st |-> "none"]

Rows == {c \in Clients : master[c].st # "none"}
Docs == DOMAIN doc
Named(n) == {c \in Rows : master[c].name = n}
Coded(k) == {c \in Rows : master[c].code = k}
Namesakes(M) == \E a, b \in Clients : a # b /\ M[a].st # "none" /\ M[b].st # "none" /\ M[a].name = M[b].name

Row(n, k) == [st |-> "active", name |-> n, code |-> k, to |-> Nobody]
Paper(c) == [name |-> master[c].name, code |-> master[c].code]

ClientInit ==
    /\ \E n \in Injection(1..Opened, Names \ {Blank}), k \in Injection(1..Opened, Codes) :
          master = [c \in Clients |-> IF c <= Opened THEN Row(n[c], k[c]) ELSE NoClient]
    /\ doc = <<>>
    /\ rows = [c \in Clients |-> "home"]
    /\ happened = {}

Note(events) == happened' = happened \cup events

------------------------------------------------------------------------------
\* get_client_by_input with a name
ByInput(n) == IF Named(n) = {} THEN Nobody ELSE Min(Named(n))

\* A document is posted for a client; a credit sale has its pending bill.  The
\* payment page refuses a suspended client, those of sales and bookings do not.
PostFor(c, k) ==
    /\ c \in Rows /\ k # "pending" /\ <<k, c>> \notin Docs
    /\ k = "payment" => master[c].st = "active"
    /\ Cardinality({d \in Docs : d[1] # "pending"}) < MaxDocs
    /\ LET new == {<<k, c>>} \cup (IF k = "sale" THEN {<<"pending", c>>} ELSE {})
       IN doc' = [d \in Docs \cup new |-> IF d \in new THEN Paper(c) ELSE doc[d]]
    /\ UNCHANGED <<master, rows, happened>>

\* add_client
AddClient(n, k) ==
    /\ Cardinality(Rows) < MaxClients
    /\ n # Blank /\ Coded(k) = {}
    /\ master' = [master EXCEPT ![Cardinality(Rows) + 1] = Row(n, k)]
    /\ Note(IF Namesakes(master') THEN {"namesakes"} ELSE {})
    /\ UNCHANGED <<doc, rows>>

\* Faulty variant: the tables that carry a name only are forgotten.
RenamedSkippingBookings(d, D, n, k, n2, k2) ==
    LET both == [name |-> n2, code |-> k2]
    IN CASE d \in {"pending", "cancel"} /\ D.code = k -> both
         [] d \in {"sale", "waive"} /\ D.name = n      -> both
         [] OTHER -> D

\* The rows of the tables a renaming of (n, k) to (n2, k2) rewrites: by code,
\* by name, or both in turn.
Renamed(d, D, n, k, n2, k2) ==
    LET byCode == D.code = k
        byName == D.name = n
        both   == [name |-> n2, code |-> k2]
    IN CASE d = "pending" /\ byCode             -> both
         [] d = "cancel" /\ byCode              -> both
         [] d = "cancel" /\ ~byCode /\ byName   -> [D EXCEPT !.name = n2]
         [] d = "booking" /\ byName             -> [D EXCEPT !.name = n2]
         [] d \in {"sale", "waive"} /\ byName   -> both
         [] OTHER -> D

EditClient(c, n2, k2) ==
    /\ c \in Rows /\ Coded(k2) \subseteq {c}
    /\ <<n2, k2>> # <<master[c].name, master[c].code>>
    /\ doc' = [d \in Docs |-> Renamed(d[1], doc[d], master[c].name, master[c].code, n2, k2)]
    /\ master' = [master EXCEPT ![c].name = n2, ![c].code = k2]
    /\ Note((IF Namesakes(master') THEN {"namesakes"} ELSE {})
            \cup (IF n2 = Blank THEN {"unnamed"} ELSE {}))
    /\ UNCHANGED rows

\* delete_client suspends; activate_all_clients
Suspend(c) ==
    /\ c \in Rows /\ master' = [master EXCEPT ![c].st = "inactive"]
    /\ UNCHANGED <<doc, rows, happened>>
ActivateAll ==
    /\ master' = [c \in Clients |-> IF c \in Rows THEN [master[c] EXCEPT !.st = "active"] ELSE master[c]]
    /\ UNCHANGED <<doc, rows, happened>>

\* The documents D, where they are of these kinds, get the name and the code of c.
Moved == {"pending", "waive", "cancel"}
Rewrite(D, c) ==
    doc' = [d \in Docs |-> IF d \in D /\ d[1] \in Moved THEN Paper(c) ELSE doc[d]]
WithCode(c) == {d \in Docs : doc[d].code = master[c].code}

\* Clients whose rows lie with s.
LentTo(s) == {c \in Rows : master[c].to = s /\ rows[c] # "home"}

\* What s had lent to others before, and what others lent to s, goes along.
Transfer(s, t) ==
    /\ s \in Rows /\ t \in Rows \ {s} /\ master[t].st = "active"
    /\ Rewrite(WithCode(s), t)
    /\ master' = [master EXCEPT ![s].st = "inactive", ![s].to = t]
    /\ rows' = [c \in Clients |->
                   CASE c = s -> IF rows[s] = "home" THEN "lent" ELSE "mixed"
                     [] c \in LentTo(s) \ {s} -> "mixed"
                     [] OTHER -> rows[c]]
    /\ UNCHANGED happened

\* Faulty variant: only the rows that still carry the source's code are taken.
ReclaimOwnCode(s) ==
    /\ s \in Rows /\ master[s].st = "inactive" /\ master[s].to # Nobody
    /\ Rewrite(WithCode(s), s)
    /\ master' = [master EXCEPT ![s].st = "active", ![s].to = Nobody]
    /\ rows' = [rows EXCEPT ![s] = "home"]
    /\ UNCHANGED happened

\* reclaim_client: whatever carries the target's code and name is taken.
Reclaim(s) ==
    /\ s \in Rows /\ master[s].st = "inactive" /\ master[s].to # Nobody
    /\ LET t == master[s].to
       IN Rewrite({d \in WithCode(t) : doc[d].name = master[t].name}, s)
    /\ master' = [master EXCEPT ![s].st = "active", ![s].to = Nobody]
    /\ rows' = [c \in Clients |->
                   CASE c = s -> IF rows[s] = "lent" THEN "home" ELSE "mixed"
                     [] c \in (LentTo(master[s].to) \cup {master[s].to}) \ {s} -> "mixed"
                     [] OTHER -> rows[c]]
    /\ UNCHANGED happened

\* _sync_direct_sale_pending_bill: at every save of the sale and every rebuild
\* the pending bill is written again from the sale's name.
Resync(c) ==
    /\ <<"sale", c>> \in Docs
    /\ LET n == doc[<<"sale", c>>].name
       IN doc' = [doc EXCEPT ![<<"pending", c>>] =
                    IF ByInput(n) = Nobody THEN [name |-> n, code |-> NoCode]
                    ELSE Paper(ByInput(n))]
    /\ UNCHANGED <<master, rows, happened>>

ClientNext ==
    \/ \E c \in Clients, k \in Kinds : PostFor(c, k)
    \/ \E n \in Names, k \in Codes : AddClient(n, k) \/ \E c \in Clients : EditClient(c, n, k)
    \/ \E c \in Clients : Suspend(c) \/ Reclaim(c) \/ Resync(c) \/ \E t \in Clients : Transfer(c, t)
    \/ ActivateAll

ClientSpec == ClientInit /\ [][ClientNext]_clientVars

------------------------------------------------------------------------------
\* _client_maps: of several masters with one name, the first active one.
ByName(n) ==
    LET live == {c \in Named(n) : master[c].st = "active"}
    IN CASE n = Blank \/ Named(n) = {} -> Nobody
         [] n # Blank /\ live # {} -> Min(live)
         [] OTHER -> Min(Named(n))
ByCode(k) == IF Coded(k) = {} THEN Nobody ELSE Min(Coded(k))
First(a, b) == IF a # Nobody THEN a ELSE b

\* _resolve_client, _resolve_pending_client and the inline cases of
\* _client_snapshot
Resolved(d) ==
    CASE d[1] = "payment" -> d[2]
      [] d[1] = "booking" -> ByName(doc[d].name)
      [] d[1] = "waive"   -> First(ByName(doc[d].name), ByCode(doc[d].code))
      [] OTHER            -> First(ByCode(doc[d].code), ByName(doc[d].name))

\* merged of _make_client_obligations: masters of one name are one identity.
Ledger(c) == {d \in Docs : Resolved(d) # Nobody /\ master[Resolved(d)].name = master[c].name}

\* Faulty variant: payments are looked for by their name snapshot only.
FoundWithoutId(c) == {d \in Docs :
    \/ doc[d].name = master[c].name /\ master[c].name # Blank
    \/ d[1] \in {"sale", "pending", "waive", "cancel"} /\ doc[d].code = master[c].code}

\* _client_snapshot_for: the rows the queries for one client can find.
Found(c) == {d \in Docs :
    \/ doc[d].name = master[c].name /\ master[c].name # Blank
    \/ d[1] \in {"sale", "pending", "waive", "cancel"} /\ doc[d].code = master[c].code
    \/ d[1] = "payment" /\ master[d[2]].name = master[c].name}
LedgerOfOne(c) == Ledger(c) \cap Found(c)

Unless(events, P) == happened \cap events = {} => P

\* Renaming, recoding, suspending and activating clients moves no document
\* (edit_client.py:32-60, the queries and their order), and a transfer that is
\* reclaimed brings every row back: a document is shown to the client it was
\* posted for, unless masters shared a name or one was left without; or it is a
\* row that transfers move, and they were not all undone, or were passed on, or
\* taken along with another client's by a reclaim (reclaim_client.py:18-32).
HistoryFollowsClient ==
    Unless({"namesakes", "unnamed"}, \A d \in Docs :
        d \in Ledger(d[2]) \/ (d[1] \in Moved /\ rows[d[2]] # "home"))

\* No document is left without a client, whatever is renamed, shared or
\* transferred (edit_client.py:57-58, "orphaned tables"), while each has a name.
NothingOrphaned ==
    Unless({"unnamed"}, \A d \in Docs : Resolved(d) # Nobody)

\* Whatever is renamed, a document keeps a client, and its own.
ClientsKeepHistory == HistoryFollowsClient /\ NothingOrphaned

\* The ledger of one client and its line in the list of all clients are made of
\* the same documents (financial_ledgers.py:357-360), unless masters shared a name.
ListAgrees ==
    Unless({"namesakes"}, \A c \in Rows : LedgerOfOne(c) = Ledger(c))
=============================================================================
