--------------------------- MODULE AccountLedger ---------------------------
(***************************************************************************)
(* The cash and bank accounts, their stored balances and the ledger rows   *)
(* behind them: client receipts and refunds, supplier payments, driver     *)
(* payments, manual cash-flow entries and the entries posted directly on   *)
(* the Accounts page, by overlapping requests.                             *)
(*   app/services/payments_crud.py, accounting.py, driver_payments.py,     *)
(*   app/services/cash_flow_svc.py, blueprints/accounts/transactions.py,   *)
(*   blueprints/accounts/accounts_crud.py, models/cash.py                  *)
(*                                                                         *)
(* Reads run in autocommit; the first write opens the transaction, which   *)
(* is one step here.  A request works on the copies it loaded: accounts,   *)
(* client payments and supplier payments carry a version that the UPDATE   *)
(* compares, driver payments, cash-flow entries and ledger rows do not, and *)
(* of those only the columns that differ from the copy are written.        *)
(***************************************************************************)
EXTENDS Integers, FiniteSets, Functions

CONSTANTS
    Requests,       \* requests under way at one time
    Docs,           \* payments, cash-flow entries and direct entries that may exist
    CashAccounts,   \* accounts of category "cash"
    BankAccounts,   \* accounts of category "bank"
    Amounts,        \* amounts of one movement
    Openings,       \* opening balances and counted balances; below zero: money owed
    None,           \* no account
    MaxOps          \* bound: requests started

Accounts == CashAccounts \cup BankAccounts
Versioned == {"client", "supplier"}
Payments == Versioned \cup {"driver"}

ASSUME LedgerAssumption ==
    /\ CashAccounts \cap BankAccounts = {} /\ None \notin Accounts
    /\ Amounts \subseteq Nat \ {0} /\ Openings \subseteq Int /\ MaxOps \in Nat
    /\ IsFiniteSet(Docs)

VARIABLES
    account,    \* account rows: opening balance, stored balance, version
    kind,       \* what each document is; "none" before it exists
    doc,        \* source rows: where the money comes from and goes to, void flag, version
    row,        \* the ledger row of each document
    req,        \* requests: their step, what they loaded and what they want
    ops,        \* requests started so far
    owing,      \* accounts that something never compared with a balance took below zero
    happened    \* events that excuse a property

vars == <<account, kind, doc, row, req, ops, owing, happened>>

Movements == [from : Accounts \cup {None}, to : Accounts \cup {None}, amt : Amounts]
In == {m \in Movements : m.from = None /\ m.to # None}
Out == {m \in Movements : m.from # None /\ m.to = None}
Transfers == {m \in Movements : m.from # None /\ m.to # None /\ m.from # m.to}
MovementsOf(k) == CASE k = "client" -> In \cup Out
                    [] k \in {"supplier", "driver"} -> Out
                    [] OTHER -> In \cup Out \cup Transfers

NoRow == [from |-> None, to |-> None, amt |-> 0, live |-> FALSE]
NoDoc == [from |-> None, to |-> None, amt |-> 0, void |-> TRUE, rev |-> 0]
NotLoaded == [balance |-> 0, rev |-> -1]
Idle == [step |-> "idle", op |-> "none", d |-> CHOOSE d \in Docs : TRUE, form |-> NoDoc,
         doc |-> NoDoc, row |-> NoRow, want |-> NoRow, seen |-> [a \in Accounts |-> NotLoaded]]

RowOf(m) == [from |-> m.from, to |-> m.to, amt |-> m.amt, live |-> TRUE]

\* What a ledger row does to an account (_apply_account_tx_effect)
Effect(w, a) == IF w.live THEN (IF w.to = a THEN w.amt ELSE 0) - (IF w.from = a THEN w.amt ELSE 0)
                ELSE 0

\* ledger_balance(): the opening balance and the active rows
LedgerBalance(a) == account[a].opening + SumFunction([d \in Docs |-> Effect(row[d], a)])

\* The row a payment should have: one with its account and amount, none when it is void
Projection(p) == IF p.void THEN NoRow ELSE RowOf(p)

---------------------------------------------------------------------------
(* Initial states: accounts with an opening balance, a debit or a credit,  *)
(* and possibly one document of any kind, posted or void, whose row agrees *)
(* with it; no account that opened with a debit is overdrawn.              *)
Init ==
    /\ \E o \in [Accounts -> Openings], d \in Docs,
          k \in Payments \cup {"manual", "direct", "none"}, v \in BOOLEAN :
        \E m \in MovementsOf(k) :
            LET w == IF k = "none" \/ v THEN NoRow ELSE RowOf(m) IN
            /\ k = "none" => v
            /\ \A a \in Accounts : o[a] >= 0 => o[a] + Effect(w, a) >= 0
            /\ kind = [e \in Docs |-> IF e = d THEN k ELSE "none"]
            /\ doc = [e \in Docs |-> IF e = d /\ k # "none"
                        THEN [from |-> m.from, to |-> m.to, amt |-> m.amt, void |-> v, rev |-> 1]
                        ELSE NoDoc]
            /\ row = [e \in Docs |-> IF e = d /\ k # "none"
                        THEN [RowOf(m) EXCEPT !.live = ~v] ELSE NoRow]
            /\ account = [a \in Accounts |->
                        [opening |-> o[a], balance |-> o[a] + Effect(w, a), rev |-> 1]]
            /\ owing = {a \in Accounts : o[a] < 0 /\ o[a] + Effect(w, a) < 0}
    /\ req = [r \in Requests |-> Idle]
    /\ ops = 0
    /\ happened = {}

---------------------------------------------------------------------------
(* Reading.                                                                *)

Copy(a) == [balance |-> account[a].balance, rev |-> account[a].rev]

\* Faulty variant: the account is compared with the amount and not kept
LoadNothing(r, as) == req[r].seen

\* The identity map keeps what it has: an account loaded before is not read again
LoadAccounts(r, as) ==
    [a \in Accounts |-> IF a \in as /\ req[r].seen[a] = NotLoaded THEN Copy(a) ELSE req[r].seen[a]]

AccountsOf(m) == {m.from, m.to} \ {None}

\* The edit form is filled from the payment and carries its revision
OpenForm(r, d) ==
    /\ req[r].step = "idle" /\ ops < MaxOps
    /\ kind[d] \in Payments /\ ~doc[d].void
    /\ req' = [req EXCEPT ![r].step = "form", ![r].op = "edit", ![r].d = d, ![r].form = doc[d]]
    /\ ops' = ops + 1
    /\ UNCHANGED <<account, kind, doc, row, owing, happened>>

\* The posted form: the payment is loaded and must still have the form's revision
PostForm(r) ==
    /\ req[r].step = "form"
    /\ LET p == doc[req[r].d] IN
       /\ req' = IF p.void \/ p.rev # req[r].form.rev THEN [req EXCEPT ![r] = Idle]
                 ELSE [req EXCEPT ![r].step = "loaded", ![r].doc = p]
    /\ UNCHANGED <<account, kind, doc, row, ops, owing, happened>>

\* Other requests about one document load it, or its ledger row, directly
LoadDocument(r, d, op) ==
    /\ req[r].step = "idle" /\ ops < MaxOps
    /\ \/ op = "delete" /\ kind[d] \in Payments \cup {"manual"} /\ ~doc[d].void
       \/ op = "restore" /\ kind[d] \in Payments \cup {"manual"} /\ doc[d].void
       \/ op = "row edit" /\ kind[d] \in {"driver", "manual", "direct", "adjustment"} /\ row[d] # NoRow
       \/ op = "row delete" /\ kind[d] \in {"driver", "manual", "direct", "adjustment"} /\ row[d].live
    /\ req' = [req EXCEPT ![r].step = "loaded", ![r].op = op, ![r].d = d,
                          ![r].doc = doc[d], ![r].row = row[d]]
    /\ ops' = ops + 1
    /\ UNCHANGED <<account, kind, doc, row, owing, happened>>

\* The edit of a cash-flow entry loads the new accounts before the ledger row
LoadEntryEdit(r, d) ==
    /\ req[r].step = "idle" /\ ops < MaxOps
    /\ kind[d] = "manual" /\ ~doc[d].void
    /\ \E m \in MovementsOf("manual") :
        req' = [req EXCEPT ![r].step = "loaded", ![r].op = "entry edit", ![r].d = d,
                           ![r].doc = doc[d], ![r].want = RowOf(m),
                           ![r].seen = LoadAccounts(r, AccountsOf(m))]
    /\ ops' = ops + 1
    /\ UNCHANGED <<account, kind, doc, row, owing, happened>>

---------------------------------------------------------------------------
(* Checking: the accounts are loaded and the balance is compared.          *)

Ready(r, want, seen, w) ==
    /\ req' = [req EXCEPT ![r].step = "ready", ![r].want = want, ![r].seen = seen, ![r].row = w]
    /\ UNCHANGED <<account, kind, doc, row, ops, owing, happened>>

\* Something new is posted, with cover for what it takes out
CheckNew(r, k, m) ==
    /\ req[r].step = "idle" /\ ops < MaxOps
    /\ m \in MovementsOf(k)
    /\ m.from # None => account[m.from].balance >= m.amt
    /\ req' = [req EXCEPT ![r].step = "ready", ![r].op = k, ![r].want = RowOf(m),
                          ![r].seen = LoadAccounts(r, AccountsOf(m))]
    /\ ops' = ops + 1
    /\ UNCHANGED <<account, kind, doc, row, owing, happened>>

NewClientPayment(r, m) == CheckNew(r, "client", m)
NewSupplierPayment(r, m) == CheckNew(r, "supplier", m)
NewDriverPayment(r, m) == CheckNew(r, "driver", m)
NewEntry(r, m) == CheckNew(r, "manual", m)
NewDirectEntry(r, m) == m \notin Transfers /\ CheckNew(r, "direct", m)
NewTransfer(r, m) == m \in Transfers /\ CheckNew(r, "direct", m)

\* An account can pay what it has and the old payment out of it, which is given back
GivenBack(old, m) == IF m.from # None /\ old.from = m.from THEN old.amt ELSE 0

CheckEdit(r, m) ==
    /\ req[r].step = "loaded" /\ req[r].op = "edit"
    /\ m \in MovementsOf(kind[req[r].d])
    /\ m.from # None => account[m.from].balance + GivenBack(req[r].doc, m) >= m.amt
    /\ Ready(r, RowOf(m), LoadAccounts(r, AccountsOf(m)), req[r].row)

\* Deleting a payment loads no account; restoring an outgoing one of a
\* supplier or driver does, and wants cover; a client refund is restored without
CheckVoid(r) ==
    /\ req[r].step = "loaded" /\ kind[req[r].d] \in Payments /\ req[r].op \in {"delete", "restore"}
    /\ LET p == req[r].doc
           covered == req[r].op = "restore" /\ kind[req[r].d] \in {"supplier", "driver"}
       IN /\ covered => account[p.from].balance >= p.amt
          /\ Ready(r, RowOf(p), IF covered THEN LoadAccounts(r, {p.from}) ELSE req[r].seen, req[r].row)

CheckEntryEdit(r) ==
    /\ req[r].step = "loaded" /\ req[r].op = "entry edit"
    /\ LET w == row[req[r].d]
           m == req[r].want
           seen == LoadAccounts(r, IF w.live THEN AccountsOf(w) ELSE {})
       IN /\ m.from # None => seen[m.from].balance - Effect(w, m.from) >= m.amt
          /\ Ready(r, m, seen, w)

\* Voiding and restoring a cash-flow entry, editing and deleting a ledger row: no
\* balance is compared.  An edit keeps the accounts it names none for, may add the
\* side a row did not have, and is not asked for two different accounts.
CheckRow(r, m) ==
    LET w == req[r].row
        same == <<m.from, m.to, m.amt>> = <<w.from, w.to, w.amt>>
    IN /\ req[r].step = "loaded"
       /\ \/ /\ req[r].op = "row edit"
             /\ w.from # None => m.from # None
             /\ w.to # None => m.to # None
          \/ req[r].op = "row delete" /\ same
          \/ req[r].op \in {"delete", "restore"} /\ kind[req[r].d] = "manual" /\ same
       /\ Ready(r, RowOf(m), LoadAccounts(r, AccountsOf(m) \cup AccountsOf(w)), w)

\* The account page loads the account; a new opening balance or a counted
\* balance is written from that copy
CheckAccount(r, a) ==
    /\ req[r].step = "idle" /\ ops < MaxOps
    /\ req' = [req EXCEPT ![r].step = "ready", ![r].op = "account", ![r].want = [NoRow EXCEPT !.to = a],
                          ![r].seen = LoadAccounts(r, {a})]
    /\ ops' = ops + 1
    /\ UNCHANGED <<account, kind, doc, row, owing, happened>>

Abandon(r) ==
    /\ req[r].step \in {"form", "loaded"}
    /\ req' = [req EXCEPT ![r] = Idle]
    /\ UNCHANGED <<account, kind, doc, row, ops, owing, happened>>

---------------------------------------------------------------------------
(* Writing.                                                                *)

\* An UPDATE names the columns in which the session's object differs from the
\* values it was loaded with; the others keep what the table holds
Write(current, loaded, new) ==
    [f \in DOMAIN current |-> IF new[f] = loaded[f] THEN current[f] ELSE new[f]]

\* Faulty variant: the effect of the old row is not taken back
ChangeOnTop(old, new) == [a \in Accounts |-> Effect(new, a)]

\* What replacing one ledger row by another does to the accounts
Change(old, new) == [a \in Accounts |-> Effect(new, a) - Effect(old, a)]

\* An account loaded earlier and changed since: the UPDATE finds no such version
StaleAccount(r, written) ==
    \E a \in written : req[r].seen[a] # NotLoaded /\ req[r].seen[a].rev # account[a].rev

Base(r, a) == IF req[r].seen[a] = NotLoaded THEN account[a].balance ELSE req[r].seen[a].balance

Post(r, change) ==
    account' = [a \in Accounts |-> IF change[a] = 0 THEN account[a]
                ELSE [account[a] EXCEPT !.balance = Base(r, a) + change[a], !.rev = @ + 1]]

\* The accounts out of which a request takes more than it has compared with their
\* balance: "checked" is the movement it compared, "old" what it gave back for it
Unguarded(change, checked, old) ==
    {a \in Accounts :
        change[a] < 0 /\ ~(checked.from = a /\ change[a] >= GivenBack(old, checked) - checked.amt)}

\* An account owes from a movement nobody compared until it is above zero again
Owe(unguarded) == owing' = {a \in owing \cup unguarded : account'[a].balance < 0}

Done(r, change, unguarded, events) ==
    /\ req[r].step = "ready"
    /\ ~StaleAccount(r, {a \in Accounts : change[a] # 0})
    /\ Post(r, change)
    /\ Owe(unguarded)
    /\ req' = [req EXCEPT ![r] = Idle]
    /\ happened' = happened \cup events
    /\ UNCHANGED ops

\* A new payment, cash-flow entry or direct entry with its ledger row
WriteNew(r, k, d) ==
    LET w == req[r].want
        change == Change(NoRow, w)
    IN /\ req[r].op = k /\ kind[d] = "none"
       /\ kind' = [kind EXCEPT ![d] = k]
       /\ doc' = [doc EXCEPT ![d] = [from |-> w.from, to |-> w.to, amt |-> w.amt,
                                     void |-> FALSE, rev |-> 1]]
       /\ row' = [row EXCEPT ![d] = w]
       /\ Done(r, change, Unguarded(change, w, NoDoc), {})

\* Faulty variant: the row is kept when its amount is right
SyncedByAmount(w, p) ==
    IF p.void THEN [w EXCEPT !.live = FALSE]
    ELSE IF w.live /\ w.amt = p.amt THEN w
    ELSE [from |-> p.from, to |-> p.to, amt |-> p.amt, live |-> TRUE]

\* The linked row of a payment: voided with it, replaced when its account or
\* amount differs
Synced(w, p) ==
    IF p.void THEN [w EXCEPT !.live = FALSE]
    ELSE IF w.live /\ <<w.from, w.to, w.amt>> = <<p.from, p.to, p.amt>> THEN w
    ELSE [from |-> p.from, to |-> p.to, amt |-> p.amt, live |-> TRUE]

\* Faulty variant: a payment is written whatever its version
CurrentAlways(r) == TRUE

\* The UPDATE of a client or supplier payment finds the version that was loaded
Current(r) ==
    kind[req[r].d] \in Versioned => doc[req[r].d].rev = req[r].doc.rev

\* The payment as the session sees it after an edit, a deletion or a restore
Edited(r) ==
    LET p == req[r].doc
        w == req[r].want
    IN CASE req[r].op = "edit" -> [from |-> w.from, to |-> w.to, amt |-> w.amt,
                                   void |-> FALSE, rev |-> p.rev + 1]
         [] req[r].op = "delete" -> [p EXCEPT !.void = TRUE, !.rev = @ + 1]
         [] OTHER -> [p EXCEPT !.void = FALSE, !.rev = @ + 1]

\* A payment is written and its row brought in line; "checked" is the movement
\* that was compared with a balance and "old" the payment given back for it
WritePayment(r, checked, old) ==
    LET d == req[r].d
        change == Change(row[d], Synced(row[d], Edited(r)))
    IN /\ kind[d] \in Payments /\ Current(r)
       /\ doc' = [doc EXCEPT ![d] = Write(@, req[r].doc, Edited(r))]
       /\ row' = [row EXCEPT ![d] = Synced(@, Edited(r))]
       /\ Done(r, change, Unguarded(change, checked, old),
               IF doc[d] # req[r].doc THEN {"driver raced"} ELSE {})
       /\ UNCHANGED kind

EditPayment(r) == req[r].op = "edit" /\ WritePayment(r, req[r].want, req[r].doc)
DeletePayment(r) == req[r].op = "delete" /\ WritePayment(r, NoRow, NoDoc)
RestorePayment(r) ==
    /\ req[r].op = "restore"
    /\ WritePayment(r, IF kind[req[r].d] = "client" THEN NoRow ELSE req[r].want, NoDoc)

\* What the requests that work on a loaded ledger row make of it
Reworked(r) ==
    LET w == req[r].row IN
    CASE req[r].op \in {"row edit", "entry edit"} -> req[r].want
      [] req[r].op = "restore" -> [w EXCEPT !.live = TRUE]
      [] OTHER -> [w EXCEPT !.live = FALSE]

\* The row as the request found it is taken back and replaced, whatever it has become
WriteRow(r, checked, events) ==
    LET d == req[r].d
        change == Change(req[r].row, Reworked(r))
        old == [req[r].doc EXCEPT !.from = req[r].row.from, !.amt = req[r].row.amt]
    IN /\ row' = [row EXCEPT ![d] = Write(@, req[r].row, Reworked(r))]
       /\ Done(r, change, Unguarded(change, checked, old),
               events \cup (IF row[d] # req[r].row \/ doc[d] # req[r].doc THEN {"entry raced"} ELSE {}))
       /\ UNCHANGED kind

\* The edit gives a direct entry the side it was posted without
Widens(r) ==
    LET d == req[r].d
        w == Reworked(r)
    IN /\ kind[d] = "direct"
       /\ \/ doc[d].from = None /\ w.from # None
          \/ doc[d].to = None /\ w.to # None

\* The Accounts page edits or voids a ledger row, and leaves the document behind it
OnPage(r, op) ==
    /\ req[r].op = op
    /\ WriteRow(r, NoRow, (IF kind[req[r].d] \in {"driver", "manual"} THEN {"row edited"} ELSE {})
                          \cup (IF Widens(r) THEN {"row widened"} ELSE {}))
    /\ UNCHANGED doc

EditRow(r) == OnPage(r, "row edit")
DeleteRow(r) == OnPage(r, "row delete")

\* A cash-flow entry and its row are written together
WithEntry(r, op, entry, checked) ==
    /\ req[r].op = op /\ kind[req[r].d] = "manual"
    /\ doc' = [doc EXCEPT ![req[r].d] = Write(@, req[r].doc, [entry EXCEPT !.rev = @ + 1])]
    /\ WriteRow(r, checked, {})

EditEntry(r) ==
    LET w == req[r].want IN
    WithEntry(r, "entry edit",
        [req[r].doc EXCEPT !.from = w.from, !.to = w.to, !.amt = w.amt], w)
VoidEntry(r) == WithEntry(r, "delete", [req[r].doc EXCEPT !.void = TRUE], NoRow)
RestoreEntry(r) == WithEntry(r, "restore", [req[r].doc EXCEPT !.void = FALSE], NoRow)

\* The account form: a new opening balance o moves the stored balance by as much, and
\* a desired balance is then reached with an adjustment of the difference to the
\* ledger.  The account is written in any case, with its revision.
WriteAccount(r, o, desired, d) ==
    LET a == req[r].want.to
        shifted == Base(r, a) + o - account[a].opening
        diff == IF desired = None THEN 0 ELSE desired - (LedgerBalance(a) + o - account[a].opening)
        w == [from |-> IF diff < 0 THEN a ELSE None, to |-> IF diff < 0 THEN None ELSE a,
              amt |-> IF diff < 0 THEN -diff ELSE diff, live |-> TRUE]
    IN /\ req[r].op = "account" /\ req[r].step = "ready"
       /\ o # account[a].opening \/ desired # None
       /\ diff # 0 => kind[d] = "none"
       /\ ~StaleAccount(r, {a})
       /\ kind' = IF diff = 0 THEN kind ELSE [kind EXCEPT ![d] = "adjustment"]
       /\ row' = IF diff = 0 THEN row ELSE [row EXCEPT ![d] = w]
       /\ account' = [account EXCEPT ![a] = [opening |-> o, rev |-> @.rev + 1,
                           balance |-> IF diff = 0 THEN shifted ELSE desired]]
       /\ req' = [req EXCEPT ![r] = Idle]
       /\ Owe(IF o < account[a].opening \/ (desired # None /\ desired < 0) THEN {a} ELSE {})
       /\ UNCHANGED <<doc, ops, happened>>

\* StaleDataError: the transaction is rolled back and the user is told
Refused(r) ==
    /\ req[r].step = "ready"
    /\ \/ kind[req[r].d] \in Payments /\ req[r].op \in {"edit", "delete", "restore"} /\ ~Current(r)
       \/ StaleAccount(r, Accounts)
    /\ req' = [req EXCEPT ![r] = Idle]
    /\ UNCHANGED <<account, kind, doc, row, ops, owing, happened>>

LedgerNext ==
    \E r \in Requests :
        \/ PostForm(r) \/ CheckVoid(r) \/ CheckEntryEdit(r) \/ Abandon(r)
        \/ EditPayment(r) \/ DeletePayment(r) \/ RestorePayment(r)
        \/ EditRow(r) \/ DeleteRow(r) \/ EditEntry(r) \/ VoidEntry(r) \/ RestoreEntry(r)
        \/ Refused(r)
        \/ \E d \in Docs : \/ OpenForm(r, d) \/ LoadEntryEdit(r, d)
                            \/ \E op \in {"delete", "restore", "row edit", "row delete"} :
                                    LoadDocument(r, d, op)
        \/ \E k \in Payments \cup {"manual", "direct"}, d \in Docs : WriteNew(r, k, d)
        \/ \E m \in Movements :
                \/ NewClientPayment(r, m) \/ NewSupplierPayment(r, m) \/ NewDriverPayment(r, m)
                \/ NewEntry(r, m) \/ NewDirectEntry(r, m) \/ NewTransfer(r, m)
                \/ CheckEdit(r, m) \/ CheckRow(r, m)
        \/ \E a \in Accounts : CheckAccount(r, a)
        \/ \E o \in Openings, desired \in Openings \cup {None}, d \in Docs : WriteAccount(r, o, desired, d)

LedgerSpec == Init /\ [][LedgerNext]_vars

---------------------------------------------------------------------------
(* Properties.                                                             *)

\* A property that is promised as long as none of these events has happened
Unless(events, P) == happened \cap events # {} \/ P

\* The stored balance of every account, written as an absolute value from a copy
\* (accounting.py:121), equals the opening balance and the active ledger rows;
\* only a ledger row loaded before and its account after another request's
\* write can break it.
BalanceMatchesLedger ==
    Unless({"entry raced"}, \A a \in Accounts : account[a].balance = LedgerBalance(a))

Follows(d) ==
    LET p == doc[d] IN
    IF p.void THEN ~row[d].live
    ELSE row[d] = [from |-> p.from, to |-> p.to, amt |-> p.amt, live |-> TRUE]

\* Every client and supplier payment has exactly the ledger row it asks for,
\* whatever overlaps.  For driver payments and cash-flow entries, which have no
\* version, it takes an overlap or an edit of the row on the Accounts page to
\* part them.
RowsFollowPayments ==
    \A d \in Docs :
        /\ kind[d] \in Versioned => Follows(d)
        /\ kind[d] = "driver" => Unless({"driver raced", "row edited"}, Follows(d))
        /\ kind[d] = "manual" => Unless({"entry raced", "row edited"}, Follows(d))

\* Two editors of one client or supplier payment: the revision is compared before
\* the first write (payments_crud.py:314), and still an edit never overwrites a
\* version other than the one its form was filled from.
NoLostEdit ==
    [][\A r \in Requests :
         (req[r].step = "ready" /\ req[r].op = "edit" /\ kind[req[r].d] \in Versioned
            /\ req'[r].step = "idle" /\ doc' # doc)
         => doc[req[r].d] = req[r].form]_vars

\* Money that was compared with a balance is still there when it is taken: every
\* account below zero is there since it was opened in credit or a request took out
\* of it what the code never compares (a receipt cut or deleted, a refund restored,
\* a row edited on the Accounts page, an outgoing entry restored, a lower opening, a
\* counted balance below zero), and it has not been above zero since.
NoOverdraft == \A a \in Accounts : account[a].balance < 0 => a \in owing

\* A ledger row as its type shows it: a receipt only comes in and an expense only
\* goes out, whatever other account an edit has added
AsPosted(d) == [row[d] EXCEPT !.from = IF doc[d].from = None THEN None ELSE @,
                              !.to = IF doc[d].to = None THEN None ELSE @]

\* Faulty variant: the mirror rows of cash-flow entries are counted as well
OnBoardTwice(d, a) ==
    CASE kind[d] = "manual" -> Effect(Projection(doc[d]), a) + Effect(row[d], a)
      [] kind[d] = "client" -> IF a \in CashAccounts THEN Effect(Projection(doc[d]), a) ELSE 0
      [] kind[d] = "supplier" -> Effect(Projection(doc[d]), a)
      [] kind[d] \in {"driver", "direct"} -> Effect(AsPosted(d), a)
      [] OTHER -> 0

\* What the daily cash board counts of a document: cash-flow entries, cash payments
\* of clients and supplier payments from their own tables, driver payments and
\* direct entries from the ledger; bank payments of clients and adjustments never
OnBoard(d, a) ==
    CASE kind[d] = "manual" -> Effect(Projection(doc[d]), a)
      [] kind[d] = "client" -> IF a \in CashAccounts THEN Effect(Projection(doc[d]), a) ELSE 0
      [] kind[d] = "supplier" -> Effect(Projection(doc[d]), a)
      [] kind[d] \in {"driver", "direct"} -> Effect(AsPosted(d), a)
      [] OTHER -> 0

ExpectedClosing(a) == account[a].opening + SumFunction([d \in Docs |-> OnBoard(d, a)])

\* The cash board adds the day up from the source tables, the account keeps a
\* running balance: they differ by exactly the adjustments and, on a bank
\* account, the payments of clients.  A receipt or an expense that an edit on the
\* Accounts page gives a second account moves both and counts once.
BoardAgrees ==
    Unless({"entry raced", "row edited", "row widened", "driver raced"},
        \A a \in Accounts :
            account[a].balance - ExpectedClosing(a) =
                SumFunctionOnSet([d \in Docs |-> Effect(row[d], a)],
                    {d \in Docs : kind[d] = "adjustment" \/ (kind[d] = "client" /\ a \in BankAccounts)}))
=============================================================================
