---------------------------- MODULE DriverRents ----------------------------
(***************************************************************************)
(* What the drivers of delivered sales are owed, and its settlement.       *)
(*   app/services/driver_payments.py, app/services/sales_core.py,          *)
(*   app/blueprints/ops/delivery.py, app/blueprints/ledgers/               *)
(*   delivery_person.py, blueprints/accounts/transactions.py               *)
(*                                                                         *)
(* A sale keeps one row for each of its drivers and one rent under the     *)
(* name of the first, from before there were rows; that rent counts only   *)
(* while the sale has no live row of the same driver.  A settlement is     *)
(* spread over the open rows, oldest first, then over such rents, and what *)
(* remains names nothing.  Requests read in autocommit and write in one    *)
(* transaction; paying out of an account writes the account, which carries *)
(* a version.  Accounts, dates and closed periods are in AccountLedger and *)
(* AccountClosing.                                                         *)
(***************************************************************************)
EXTENDS Integers, Sequences, FiniteSets, FiniteSetsExt, Functions

CONSTANTS
    Clerks,         \* requests under way at one time
    Drivers,
    SaleDates,      \* sales, numbered by their dates
    RentChoices,    \* the rent of one driver for one sale
    Openings,       \* opening balances a driver may have
    Sums,           \* what one request may pay or waive
    Accounts,       \* cash and bank accounts
    Waived,         \* the settlement is waived: no account
    Forms,          \* submission tokens
    MaxMoves,       \* bound: changes and requests started
    MaxPayments     \* bound

ASSUME RentsAssumption ==
    /\ SaleDates \subseteq Nat \ {0} /\ RentChoices \cup Sums \subseteq Nat \ {0}
    /\ Openings \subseteq Int /\ 0 \in Openings
    /\ Waived \notin Accounts \cup Forms /\ "none" \notin Forms
    /\ {MaxMoves, MaxPayments} \subseteq Nat

VARIABLES
    owing,      \* opening balance of each driver
    share,      \* the sales, and what each owes its drivers
    oldRent,    \* DeliveryRent: sale -> driver and the rent of the whole sale
    row,        \* SaleDeliveryPerson: id -> sale, driver, rent, live
    settled,    \* DeliveryPersonPayment, in the order of the ids
    visit,      \* requests: what they loaded and read
    moves,      \* bound: changes and requests so far
    mishaps     \* events that excuse a property

rentVars == <<owing, share, oldRent, row, settled, visit, moves, mishaps>>

Away == [step |-> "away"]

RentsInit ==
    /\ owing = [d \in Drivers |-> 0]
    /\ share = <<>> /\ oldRent = <<>> /\ row = <<>> /\ settled = <<>>
    /\ visit = [c \in Clerks |-> Away]
    /\ moves = 0
    /\ mishaps = {}

---------------------------------------------------------------------------
(* What is owed.                                                           *)

LiveRows(d) == {i \in DOMAIN row : row[i].driver = d /\ row[i].live}

\* Old rents of the driver whose sale has no live row of his
Uncovered(d) ==
    {s \in DOMAIN oldRent : oldRent[s].driver = d /\ \A i \in LiveRows(d) : row[i].sale # s}

\* A payment counts unless it is void or its row is
InForce(p) == p.live /\ (p.on \in DOMAIN row => row[p.on].live)

\* driver_outstanding_minor, without the payment "own" when one is edited
Owed(d, own) ==
    owing[d]
    + SumFunctionOnSet([i \in DOMAIN row |-> row[i].rent], LiveRows(d))
    + SumFunctionOnSet([s \in DOMAIN oldRent |-> oldRent[s].sum], Uncovered(d))
    - SumFunctionOnSet([n \in DOMAIN settled |-> settled[n].sum],
          {n \in DOMAIN settled \ {own} : settled[n].driver = d /\ InForce(settled[n])})

\* A payable line: a row ("on" is its id) or an old rent (0).  What is due on it
\* when the payments are "ps", without the payment "own"
Due(line, ps, own) ==
    line.rent - SumFunctionOnSet([n \in DOMAIN ps |-> ps[n].sum],
        {n \in DOMAIN ps \ {own} :
            /\ ps[n].live /\ ps[n].on = line.on
            /\ line.on = 0 => ps[n].driver = line.driver /\ ps[n].sale = line.sale})

RowLine(i) == [on |-> i, sale |-> row[i].sale, driver |-> row[i].driver, rent |-> row[i].rent]

\* By the date of the sale, then by id
Before(k, l) == k.sale < l.sale \/ (k.sale = l.sale /\ k.on < l.on)
InOrder(L) == [n \in 1..Cardinality(L) |->
                   CHOOSE l \in L : Cardinality({k \in L : Before(k, l)}) = n - 1]

RowLines(d) == InOrder({RowLine(i) : i \in LiveRows(d)})

OldLines(d, lines) ==
    InOrder({[on |-> 0, sale |-> s, driver |-> d, rent |-> oldRent[s].sum] :
                 s \in {t \in DOMAIN oldRent : /\ oldRent[t].driver = d
                                               /\ \A n \in DOMAIN lines : lines[n].sale # t}})

---------------------------------------------------------------------------
(* The rents of the sales.                                                 *)

Assignments ==
    {<<[driver |-> d, rent |-> r]>> : d \in Drivers, r \in RentChoices} \cup
    {<<[driver |-> d, rent |-> r], [driver |-> e, rent |-> q]>> :
        d \in Drivers, e \in Drivers, r \in RentChoices, q \in RentChoices}

\* What a write does to the requests under way: one that loaded the account
\* written is stale; one that read of these drivers, or holds a row of theirs, has
\* been crossed, unless it is the same form sent twice
After(drivers, account, form) ==
    [c \in Clerks |->
        LET v == visit[c] IN
        IF v.step = "away" THEN v
        ELSE IF account \in Accounts /\ v.from = account /\ v.step \in {"loaded", "ready"}
             THEN [v EXCEPT !.stale = TRUE]
        ELSE IF (v.step = "loaded" /\ v.page # "entry") \/ v.driver \notin drivers \/ (form \in Forms /\ v.form = form)
             THEN v
        ELSE [v EXCEPT !.crossed = TRUE]]

Move(drivers, account) ==
    /\ moves < MaxMoves
    /\ moves' = moves + 1
    /\ visit' = After(drivers, account, Waived)

\* The rows that are not of the sale, with new ones for it: SQLite takes the id
\* after the greatest that is left
WithRows(s, who) ==
    LET kept == {i \in DOMAIN row : row[i].sale # s}
        top == Max(kept \cup {0})
    IN [i \in kept \cup (top + 1)..(top + Len(who)) |->
           IF i \in kept THEN row[i]
           ELSE [sale |-> s, driver |-> who[i - top].driver, rent |-> who[i - top].rent,
                 live |-> TRUE]]

Without(f, s) == [t \in DOMAIN f \ {s} |-> f[t]]
With(f, s, x) == [t \in DOMAIN f \cup {s} |-> IF t = s THEN x ELSE f[t]]

Rents(who) == SumFunction([n \in DOMAIN who |-> who[n].rent])

\* Faulty variant: a rent that is there already is left as it is
SyncRentOnce(s, who) ==
    IF s \in DOMAIN oldRent THEN oldRent
    ELSE With(oldRent, s, [driver |-> who[1].driver, sum |-> Rents(who)])

\* _sync_delivery_rent_for_sale: the rent of the whole sale under its first driver
SyncRent(s, who) ==
    With(oldRent, s, [driver |-> who[1].driver, sum |-> Rents(who)])

DriversOf(s) == {row[i].driver : i \in {j \in DOMAIN row : row[j].sale = s}}
AmongOf(who) == {who[n].driver : n \in DOMAIN who}

AddSale(s, who) ==
    /\ s \notin DOMAIN share
    /\ share' = With(share, s, who)
    /\ row' = WithRows(s, who)
    /\ oldRent' = SyncRent(s, who)
    /\ Move(AmongOf(who), Waived)
    /\ UNCHANGED <<owing, settled, mishaps>>

\* The foreign key of the payments, void ones too, holds the rows
Released(s) == \A n \in DOMAIN settled : settled[n].on \in DOMAIN row => row[settled[n].on].sale # s

\* edit_direct_sale deletes the rows and makes new ones
EditSale(s, who) ==
    /\ s \in DOMAIN share /\ who # share[s] /\ Released(s)
    /\ share' = [share EXCEPT ![s] = who]
    /\ row' = WithRows(s, who)
    /\ oldRent' = SyncRent(s, who)
    /\ Move(AmongOf(who) \cup DriversOf(s), Waived)
    /\ UNCHANGED <<owing, settled, mishaps>>

\* A payment names the sale itself, too
DeleteSale(s) ==
    /\ s \in DOMAIN share /\ Released(s)
    /\ \A n \in DOMAIN settled : settled[n].sale # s
    /\ share' = Without(share, s)
    /\ row' = WithRows(s, <<>>)
    /\ oldRent' = Without(oldRent, s)
    /\ Move(DriversOf(s), Waived)
    /\ UNCHANGED <<owing, settled, mishaps>>

\* void_delivery_rent: the row only; the old rent and the payments stay
DeleteEntry(i) ==
    /\ row[i].live
    /\ row' = [row EXCEPT ![i].live = FALSE]
    /\ Move({row[i].driver}, Waived)
    /\ UNCHANGED <<owing, share, oldRent, settled, mishaps>>

ChangeOpening(d, n) ==
    /\ owing[d] # n
    /\ owing' = [owing EXCEPT ![d] = n]
    /\ Move({d}, Waived)
    /\ UNCHANGED <<share, oldRent, row, settled, mishaps>>

---------------------------------------------------------------------------
(* Requests: the driver's page reads what is owed and then loads the       *)
(* account; the others load the account first.                             *)

Arrive(c, v) ==
    /\ visit[c].step = "away" /\ moves < MaxMoves
    /\ moves' = moves + 1
    /\ visit' = [visit EXCEPT ![c] = v]
    /\ UNCHANGED <<owing, share, oldRent, row, settled, mishaps>>

Go(c, v) ==
    /\ visit' = [visit EXCEPT ![c] = v]
    /\ UNCHANGED <<owing, share, oldRent, row, settled, moves, mishaps>>

Sheet(page, d, from, sum, form) ==
    [step |-> "loaded", page |-> page, driver |-> d, from |-> from, sum |-> sum, form |-> form,
     own |-> 0, lines |-> <<>>, rows |-> 0, first |-> 1, due |-> 0, stale |-> FALSE, crossed |-> FALSE]

\* The idempotency key of a settlement is not taken
Unused(form) == \A n \in DOMAIN settled : settled[n].form # form

\* A form sent twice is the same sheet
OneSheet(v) ==
    \A c \in Clerks : visit[c].step # "away" /\ visit[c].form = v.form
        => <<visit[c].page, visit[c].driver>> = <<v.page, v.driver>>

\* The open rows, the old rents after them, and what is due on the first payable line
Listed(v) ==
    LET rows == RowLines(v.driver)
        lines == rows \o OldLines(v.driver, rows)
        open == {n \in DOMAIN lines : Due(lines[n], settled, 0) > 0}
        first == IF open = {} THEN Len(lines) + 1 ELSE Min(open)
    IN [v EXCEPT !.lines = lines, !.rows = Len(rows), !.first = first,
                 !.due = IF open = {} THEN 0 ELSE Due(lines[first], settled, 0)]

OpenDriverPage(c, d, from, sum, form) ==
    LET v == Sheet("driver", d, from, sum, form) IN
    /\ OneSheet(v) /\ Unused(form) /\ sum <= Owed(d, 0)
    /\ Arrive(c, [Listed(v) EXCEPT !.step = "read"])

LoadAccount(c) == visit[c].step = "read" /\ Go(c, [visit[c] EXCEPT !.step = "ready"])

OpenAccountsPage(c, d, from, sum, form) ==
    LET v == Sheet("accounts", d, from, sum, form) IN
    OneSheet(v) /\ from \in Accounts /\ Arrive(c, v)

\* pay_delivery_rent: one row
OpenEntry(c, i, from, sum, form) ==
    LET v == Sheet("entry", row[i].driver, from, sum, form) IN
    /\ row[i].live /\ OneSheet(v) /\ Unused(form)
    /\ Arrive(c, [v EXCEPT !.lines = <<RowLine(i)>>])

Line(p) == IF p.on \in DOMAIN row THEN <<RowLine(p.on)>> ELSE <<>>

OpenEdit(c, n, sum) ==
    LET p == settled[n] IN
    /\ p.live /\ sum # p.sum
    /\ Arrive(c, [Sheet("edit", p.driver, p.from, sum, "none") EXCEPT !.own = n, !.lines = Line(p)])

OpenRestore(c, n) ==
    LET p == settled[n] IN
    /\ ~p.live
    /\ Arrive(c, [Sheet("restore", p.driver, p.from, p.sum, "none") EXCEPT !.own = n, !.lines = Line(p)])

\* What the request asks for is due on the row it loaded, itself left out; a payment
\* whose row was deleted is not edited, and is restored without a question
WithinRow(v) ==
    \A n \in DOMAIN v.lines :
        LET deleted == v.own # 0 /\ ~row[v.lines[n].on].live IN
        IF deleted THEN v.page = "restore" ELSE v.sum <= Due(v.lines[n], settled, v.own)

\* A restored payment is compared with its row only
MayRead(v) ==
    /\ v.page = "accounts" => Unused(v.form)
    /\ v.page # "restore" => v.sum <= Owed(v.driver, v.own)
    /\ WithinRow(v)

Read(c) ==
    LET v == visit[c] IN
    /\ v.step = "loaded" /\ MayRead(v)
    /\ Go(c, [(IF v.page = "accounts" THEN Listed(v) ELSE v) EXCEPT !.step = "ready"])

---------------------------------------------------------------------------
(* Writing.                                                                *)

\* _pick_allocation: the oldest open row, for a payment that names none
Picked(d, ps) ==
    LET rows == RowLines(d)
        open == {n \in DOMAIN rows : Due(rows[n], ps, 0) > 0}
    IN IF open = {} THEN [on |-> 0, sale |-> 0] ELSE rows[Min(open)]

Slip(v, ps, line, sum) ==
    LET pick == IF line.on = 0 THEN Picked(v.driver, ps) ELSE line
    IN [driver |-> v.driver, on |-> pick.on, sale |-> IF pick.on = 0 THEN line.sale ELSE pick.sale,
        sum |-> sum, from |-> v.from, live |-> TRUE, form |-> v.form]

\* The lines a settlement is spread over: from the first payable one as it was
\* read; the old rents are listed again once a row was paid
Payable(v) ==
    IF v.first <= v.rows
    THEN SubSeq(v.lines, v.first, v.rows) \o OldLines(v.driver, SubSeq(v.lines, 1, v.rows))
    ELSE SubSeq(v.lines, v.first, Len(v.lines))

\* What is paid on a line, when "before" is what the lines before it left
Paying(v, lines, before, n) ==
    LET due == IF n = 1 THEN v.due ELSE Due(lines[n], before.ps, 0)
        part == Min({due, before.left})
    IN IF part <= 0 THEN before
       ELSE [ps |-> Append(before.ps, Slip(v, before.ps, lines[n], part)),
             left |-> before.left - part]

\* settle_driver_fifo: oldest first, and the remainder on nothing
Spread(v) ==
    LET lines == Payable(v)
        after[n \in 0..Len(lines)] ==
            IF n = 0 THEN [ps |-> settled, left |-> v.sum]
            ELSE Paying(v, lines, after[n - 1], n)
        paid == after[Len(lines)]
    IN IF paid.left = 0 THEN paid.ps
       ELSE Append(paid.ps, Slip(v, paid.ps, [on |-> 0, sale |-> 0], paid.left))

\* The payments as the request leaves them
Result(v) ==
    CASE v.page = "edit" -> [settled EXCEPT ![v.own].sum = v.sum]
      [] v.page = "restore" -> [settled EXCEPT ![v.own].live = TRUE]
      [] v.page = "entry" -> Append(settled, Slip(v, settled, v.lines[1], v.sum))
      [] OTHER -> Spread(v)

\* Faulty variant: the account is written whatever its version
FreshAlways(v) == TRUE

\* The version of the account is the one that was loaded
Fresh(v) == ~v.stale

\* The unique index of the keys, and the foreign keys of the payments
Accepted(v, ps) ==
    /\ v.own = 0 => Unused(v.form)
    /\ \A n \in DOMAIN ps : ps[n].on \in DOMAIN row \cup {0} /\ ps[n].sale \in DOMAIN share \cup {0}

\* The driver of the row it is on, who is not always the one paid
Payees(p) == {row[i].driver : i \in {p.on} \cap DOMAIN row}

Write(c) ==
    LET v == visit[c]
        ps == Result(v)
        new == {n \in DOMAIN ps : n \in DOMAIN settled => ps[n] # settled[n]}
        paid == {v.driver} \cup UNION {Payees(ps[n]) : n \in new}
    IN /\ v.step = "ready" /\ Len(ps) <= MaxPayments
       /\ Fresh(v) /\ Accepted(v, ps)
       /\ settled' = ps
       /\ visit' = [After(paid, v.from, v.form) EXCEPT ![c] = Away]
       /\ mishaps' = mishaps \cup (IF v.crossed THEN {"crossed"} ELSE {})
       /\ UNCHANGED <<owing, share, oldRent, row, moves>>

\* Refused by a check, a version, a key or a foreign key
Leave(c) ==
    LET v == visit[c] IN
    /\ \/ v.step = "loaded" /\ ~MayRead(v)
       \/ v.step = "ready" /\ ~(Fresh(v) /\ Accepted(v, Result(v)))
    /\ Go(c, Away)

\* delete_driver_payment
VoidPayment(n) ==
    /\ settled[n].live
    /\ settled' = [settled EXCEPT ![n].live = FALSE]
    /\ Move({settled[n].driver} \cup Payees(settled[n]), settled[n].from)
    /\ UNCHANGED <<owing, share, oldRent, row, mishaps>>

RentsNext ==
    \/ \E s \in SaleDates : DeleteSale(s) \/ \E who \in Assignments : AddSale(s, who) \/ EditSale(s, who)
    \/ \E i \in DOMAIN row : DeleteEntry(i)
    \/ \E d \in Drivers, n \in Openings : ChangeOpening(d, n)
    \/ \E n \in DOMAIN settled : VoidPayment(n)
    \/ \E c \in Clerks :
          \/ LoadAccount(c) \/ Read(c) \/ Write(c) \/ Leave(c)
          \/ \E n \in DOMAIN settled : OpenRestore(c, n) \/ \E sum \in Sums : OpenEdit(c, n, sum)
          \/ \E from \in Accounts \cup {Waived}, sum \in Sums, form \in Forms :
                \/ \E d \in Drivers : \/ OpenDriverPage(c, d, from, sum, form)
                                      \/ OpenAccountsPage(c, d, from, sum, form)
                \/ \E i \in DOMAIN row : OpenEntry(c, i, from, sum, form)

RentsSpec == RentsInit /\ [][RentsNext]_rentVars

---------------------------------------------------------------------------
(* Properties.                                                             *)

PartOf(d, who) == SumFunction([n \in DOMAIN who |-> IF who[n].driver = d THEN who[n].rent ELSE 0])

\* What a driver is owed, computed from rows, old rents and payments that may name
\* nothing, is his opening, his part of the sales and no more, less what he was
\* paid (driver_payments.py:120-125), however sales are edited and payments spread,
\* while none of his entries is deleted; and a payment stays on a row of its own
\* driver.  It takes a sale replaced while a settlement is under way to part them:
\* the new row may have the id of the old one.
OwedIsEarned ==
    "crossed" \in mishaps \/
    \A d \in Drivers :
        /\ \A n \in DOMAIN settled : settled[n].driver = d /\ settled[n].on # 0
               => settled[n].on \in DOMAIN row /\ row[settled[n].on].driver = d
        /\ (\A i \in DOMAIN row : row[i].driver = d => row[i].live) =>
              Owed(d, 0) = owing[d]
                + SumFunction([s \in DOMAIN share |-> PartOf(d, share[s])])
                - SumFunctionOnSet([n \in DOMAIN settled |-> settled[n].sum],
                      {n \in DOMAIN settled : settled[n].driver = d /\ settled[n].live})

\* "Settlement may not exceed what the driver is actually owed"
\* (driver_payments.py:284): a settlement, and an edit of one, leaves the driver
\* nothing overpaid, and no row beyond its rent, although both are read before the
\* write; a form sent twice pays once.  Another account, a waive-off, a change of
\* the sales, or a write between the reading and the loading of the account on the
\* driver's page may come in between.  A restored payment is held to its row only, and
\* not when its sum was edited after it was loaded.
SettledWithinOwed ==
    [][\A c \in Clerks, d \in Drivers :
         LET v == visit[c] IN
         /\ v.step = "ready" /\ visit'[c].step = "away" /\ settled' # settled
         /\ v.driver = d /\ ~v.crossed
         /\ v.page = "restore" => v.sum = settled[v.own].sum
         => /\ v.page # "restore" => Owed(d, 0)' >= 0
            /\ \A i \in LiveRows(d) :
                  \/ Due(RowLine(i), settled, 0)' >= 0
                  \/ Due(RowLine(i), settled, 0)' >= Due(RowLine(i), settled, 0)]_rentVars
=============================================================================
