--------------------------- MODULE AccountClosing ---------------------------
(***************************************************************************)
(* One account: its dated postings, the closings that reconcile it, and    *)
(* the daily board on which its day is counted and locked.                 *)
(*   app/services/payments_crud.py (reconcile_account, _assert_period_open),*)
(*   blueprints/accounts/transactions.py, app/services/cash_flow_svc.py,   *)
(*   app/services/cash_day_recon.py                                        *)
(*                                                                         *)
(* Payments respect the closed period, cash-flow entries and entries of    *)
(* the Accounts page do not.  A request reads in autocommit and writes in  *)
(* one transaction; the account and the payment carry a version, so a      *)
(* write that changes the balance is refused when the account was loaded   *)
(* before another one.                                                     *)
(***************************************************************************)
EXTENDS Integers, Sequences, FiniteSets, FiniteSetsExt, Functions

CONSTANTS
    Actors,         \* requests under way at one time
    Postings,       \* payments and entries that may exist
    Nets,           \* what one posting may add to the account
    Opening,        \* opening balance of the account
    Counts,         \* balances somebody may count
    DayLength,      \* instants in a day
    LastInstant,    \* bound: the clock stops here
    MaxClosings,    \* bound
    MaxSteps,       \* bound: requests started
    Uncounted       \* a day that is not counted or not locked

ASSUME ClosingAssumption ==
    /\ Nets \subseteq Int \ {0} /\ Opening \in Int /\ Counts \subseteq Int
    /\ {DayLength, LastInstant} \subseteq Nat \ {0} /\ {MaxClosings, MaxSteps} \subseteq Nat
    /\ Uncounted \notin Int /\ IsFiniteSet(Postings)

Instants == 1..LastInstant
DayOf(t) == (t - 1) \div DayLength
Days == {DayOf(t) : t \in Instants}
EndOfDay(day) == (day + 1) * DayLength

VARIABLES
    clock,      \* the present instant
    posting,    \* postings: kind, instant they are dated, amount, live
    stored,     \* the account row: balance and version
    closing,    \* the closings, in the order they were made
    position,   \* the board: what was counted and frozen for each day
    dayLock,    \* the total counted of each locked day
    call,       \* requests: what they loaded and mean to write
    steps,      \* requests started
    occurred    \* events that excuse a property

closingVars == <<clock, posting, stored, closing, position, dayLock, call, steps, occurred>>

NoPosting == [kind |-> "none", at |-> 0, net |-> 0, live |-> FALSE]
NoFigures == [day |-> 0]
Quiet == [step |-> "idle", e |-> CHOOSE e \in Postings : TRUE, was |-> NoPosting,
          new |-> NoPosting, rev |-> 0, figures |-> NoFigures]
Open == [counted |-> Uncounted, expected |-> Uncounted, locked |-> FALSE]

ClosingInit ==
    /\ clock = 1
    /\ posting = [e \in Postings |-> NoPosting]
    /\ stored = [balance |-> Opening, rev |-> 1]
    /\ closing = <<>>
    /\ position = [day \in Days |-> Open]
    /\ dayLock = [day \in Days |-> Uncounted]
    /\ call = [a \in Actors |-> Quiet]
    /\ steps = 0
    /\ occurred = {}

Worth(p) == IF p.live THEN p.net ELSE 0

\* What the live postings dated in from..to add to the account
Within(p, from, to) == IF from <= p.at /\ p.at <= to THEN Worth(p) ELSE 0
Posted(from, to) == SumFunctionOnSet([e \in Postings |-> Within(posting[e], from, to)], Postings)

\* What the adjustments of closings dated after "after", through "through" add
Adjustment(c, after, through) == IF after < c.end /\ c.end <= through THEN c.difference ELSE 0
Adjusted(after, through) ==
    SumFunctionOnSet([i \in DOMAIN closing |-> Adjustment(closing[i], after, through)], DOMAIN closing)

\* _transaction_sums: the postings and the adjustments dated after "after", through "through"
TransactionSum(after, through) == Posted(after + 1, through) + Adjusted(after, through)

\* _latest_reconciliation: the last date, and of one date the last made
Latest == closing[CHOOSE i \in DOMAIN closing : \A j \in DOMAIN closing :
                    closing[j].day < closing[i].day \/ (closing[j].day = closing[i].day /\ j <= i)]
Closed(at) == closing # <<>> /\ at <= Latest.end

---------------------------------------------------------------------------
(* Payments, which respect the closed period when they read.               *)

Start(a, c) ==
    /\ call[a].step = "idle" /\ steps < MaxSteps
    /\ call' = [call EXCEPT ![a] = c]
    /\ steps' = steps + 1
    /\ UNCHANGED <<clock, posting, stored, closing, position, dayLock, occurred>>

CheckPayment(a, e, at, net) ==
    /\ posting[e].kind = "none" /\ at <= clock /\ ~Closed(at)
    /\ Start(a, [Quiet EXCEPT !.step = "payment", !.e = e, !.rev = stored.rev,
                 !.new = [kind |-> "payment", at |-> at, net |-> net, live |-> TRUE]])

\* An edit compares the old date with the closed period, not the new one
CheckEdit(a, e, at, net) ==
    LET p == posting[e]
        new == [p EXCEPT !.at = at, !.net = net]
    IN /\ p.kind = "payment" /\ p.live /\ new # p
       /\ at <= clock \/ at = p.at
       /\ ~Closed(p.at)
       /\ Start(a, [Quiet EXCEPT !.step = "payment", !.e = e, !.rev = stored.rev,
                    !.was = p, !.new = new])

\* Deleting and restoring load no account before the transaction
CheckVoid(a, e) ==
    LET p == posting[e] IN
    /\ p.kind = "payment" /\ ~Closed(p.at)
    /\ Start(a, [Quiet EXCEPT !.step = "payment", !.e = e, !.was = p, !.new = [p EXCEPT !.live = ~@]])

\* Faulty variant: the account is written whatever its version
UnchangedAlways(a, change) == TRUE

\* The UPDATE of the account finds the version that was loaded, or loads it now
Unchanged(a, change) == change = 0 \/ call[a].rev \in {0, stored.rev}

\* A posting reaches the account and moves what the locked days were computed from
PostedEvents(dates) ==
    IF \E day \in Days : position[day].locked /\ \E t \in dates : DayOf(t) <= day
    THEN {"posted into locked day"} ELSE {}

Add(change) == stored' = IF change = 0 THEN stored
                         ELSE [balance |-> stored.balance + change, rev |-> stored.rev + 1]

WritePayment(a) ==
    LET c == call[a]
        change == Worth(c.new) - Worth(c.was)
        dates == {c.was.at, c.new.at} \ {0}
    IN /\ c.step = "payment" /\ posting[c.e] = c.was /\ Unchanged(a, change)
       /\ posting' = [posting EXCEPT ![c.e] = c.new]
       /\ Add(change)
       /\ call' = [call EXCEPT ![a] = Quiet]
       /\ occurred' = occurred \cup PostedEvents(dates) \cup
            (IF ~\E t \in dates : Closed(t) THEN {}
             ELSE IF c.was.kind # "none" /\ c.was.at # c.new.at THEN {"date moved"}
             ELSE IF c.was.live # c.new.live /\ c.was.kind # "none" THEN {"late void"}
             ELSE IF Latest.difference = 0 THEN {"late posting"} ELSE {})
       /\ UNCHANGED <<clock, closing, position, dayLock, steps>>

\* StaleDataError, or the form's revision is no longer the payment's
RefusePayment(a) ==
    LET c == call[a] IN
    /\ c.step = "payment"
    /\ posting[c.e] # c.was \/ ~Unchanged(a, Worth(c.new) - Worth(c.was))
    /\ call' = [call EXCEPT ![a] = Quiet]
    /\ UNCHANGED <<clock, posting, stored, closing, position, dayLock, steps, occurred>>

---------------------------------------------------------------------------
(* Entries of the cash-flow page and of the Accounts page: any date, no    *)
(* closed period.                                                          *)

PostEntry(e, at, net, live) ==
    LET p == posting[e]
        new == [kind |-> "entry", at |-> at, net |-> net, live |-> live]
    IN /\ p.kind \in {"none", "entry"} /\ new # p /\ steps < MaxSteps
       /\ p.kind = "none" => live
       /\ ~p.live \/ ~live => p.kind = "none" \/ (at = p.at /\ net = p.net)
       /\ posting' = [posting EXCEPT ![e] = new]
       /\ Add(Worth(new) - Worth(p))
       /\ steps' = steps + 1
       /\ occurred' = occurred \cup PostedEvents({p.at, at} \ {0}) \cup
            (IF Closed(at) \/ (p.at # 0 /\ Closed(p.at)) THEN {"entry in closed period"} ELSE {})
       /\ UNCHANGED <<clock, closing, position, dayLock, call>>

---------------------------------------------------------------------------
(* Closing the account: reconcile_account.                                 *)

\* Faulty variant: the closing counts from its own instant again
PeriodStartAgain == IF closing = <<>> THEN 0 ELSE Latest.end - 1

\* A closing counts the movements after the previous one
PeriodStart == IF closing = <<>> THEN 0 ELSE Latest.end

\* The closing of a day with the balance somebody counted; "sealed" is what the
\* period holds with its adjustment
NewClosing(day, actual) ==
    LET end == IF day = DayOf(clock) THEN clock ELSE EndOfDay(day)
        before == IF closing = <<>> THEN Opening ELSE Latest.final
        later == TransactionSum(end, LastInstant)
        expected == before + TransactionSum(PeriodStart, end) + later
    IN [day |-> day, end |-> end, expected |-> expected, final |-> actual,
        difference |-> actual - expected, later |-> later,
        sealed |-> TransactionSum(0, end) + actual - expected]

ReadClosing(a, day, actual) ==
    /\ day <= DayOf(clock) /\ Len(closing) < MaxClosings
    /\ closing # <<>> => day >= Latest.day
    /\ Start(a, [Quiet EXCEPT !.step = "closing", !.rev = stored.rev, !.figures = NewClosing(day, actual)])

WriteClosing(a) ==
    LET c == call[a].figures IN
    /\ call[a].step = "closing" /\ Unchanged(a, c.difference)
    /\ closing' = Append(closing, c)
    /\ Add(c.difference)
    /\ call' = [call EXCEPT ![a] = Quiet]
    /\ occurred' = occurred
         \cup (IF c.later # 0 THEN {"later movements"} ELSE {})
         \cup (IF closing # <<>> /\ Latest.end > c.end THEN {"closings crossed"} ELSE {})
         \cup (IF c.sealed = TransactionSum(0, c.end) + c.difference THEN {}
               ELSE IF c.difference = 0 THEN {"closed over a change"}
               ELSE IF call[a].rev = stored.rev THEN {"date moved"} ELSE {})
    /\ UNCHANGED <<clock, posting, position, dayLock, steps>>

RefuseClosing(a) ==
    /\ call[a].step = "closing" /\ ~Unchanged(a, call[a].figures.difference)
    /\ call' = [call EXCEPT ![a] = Quiet]
    /\ UNCHANGED <<clock, posting, stored, closing, position, dayLock, steps, occurred>>

---------------------------------------------------------------------------
(* The daily board: it adds up the postings, not the closings.             *)

\* Faulty variant: a locked day is its own opening
LockedThrough(day) == {d \in Days : position[d].locked /\ d <= day}

LockedBefore(day) == {d \in Days : position[d].locked /\ d < day}

\* A day opens with what was counted on the last locked day before it and the
\* postings since
OpeningOf(day) ==
    IF LockedBefore(day) = {} THEN Opening + Posted(1, day * DayLength)
    ELSE LET last == Max(LockedBefore(day)) IN
         position[last].counted + Posted(EndOfDay(last) + 1, day * DayLength)

Expected(day) == OpeningOf(day) + Posted(day * DayLength + 1, EndOfDay(day))

\* The board recomputes what earlier locks carry into later locked days
CarriedEvents(day) ==
    IF \E d \in Days : d > day /\ position[d].locked THEN {"earlier day relocked"} ELSE {}

SaveCount(day, n) ==
    /\ steps < MaxSteps /\ position[day].counted # n
    /\ position' = [position EXCEPT ![day].counted = n]
    /\ steps' = steps + 1
    /\ occurred' = occurred \cup (IF position[day].locked THEN {"recounted"} ELSE {})
    /\ UNCHANGED <<clock, posting, stored, closing, dayLock, call>>

DeleteCount(day) ==
    /\ steps < MaxSteps /\ position[day] # Open
    /\ position' = [position EXCEPT ![day] = Open]
    /\ steps' = steps + 1
    /\ occurred' = occurred \cup (IF position[day].locked THEN {"recounted"} ELSE {})
    /\ UNCHANGED <<clock, posting, stored, closing, dayLock, call>>

\* Locking reads the board, then freezes what it read
ReadBoard(a, day) ==
    LET p == position[day] IN
    Start(a, [Quiet EXCEPT !.step = "locking", !.figures =
                [day |-> day, expected |-> Expected(day), was |-> p.counted,
                 counted |-> IF p.counted = Uncounted THEN Expected(day) ELSE p.counted]])

LockDay(a) ==
    LET c == call[a].figures IN
    /\ call[a].step = "locking"
    /\ position' = [position EXCEPT ![c.day] =
                        [counted |-> c.counted, expected |-> c.expected, locked |-> TRUE]]
    /\ dayLock' = [dayLock EXCEPT ![c.day] = c.counted]
    /\ call' = [call EXCEPT ![a] = Quiet]
    /\ occurred' = occurred \cup CarriedEvents(c.day)
         \cup (IF <<c.expected, c.was>> # <<Expected(c.day), position[c.day].counted>>
               THEN {"board raced"} ELSE {})
    /\ UNCHANGED <<clock, posting, stored, closing, steps>>

UnlockDay(day) ==
    /\ steps < MaxSteps /\ dayLock[day] # Uncounted
    /\ position' = [position EXCEPT ![day].locked = FALSE]
    /\ dayLock' = [dayLock EXCEPT ![day] = Uncounted]
    /\ steps' = steps + 1
    /\ occurred' = occurred \cup CarriedEvents(day)
    /\ UNCHANGED <<clock, posting, stored, closing, call>>

Tick ==
    /\ clock < LastInstant
    /\ clock' = clock + 1
    /\ UNCHANGED <<posting, stored, closing, position, dayLock, call, steps, occurred>>

ClosingNext ==
    \/ Tick
    \/ \E a \in Actors :
          \/ WritePayment(a) \/ RefusePayment(a) \/ WriteClosing(a) \/ RefuseClosing(a) \/ LockDay(a)
          \/ \E e \in Postings : \/ CheckVoid(a, e)
                                 \/ \E at \in Instants, net \in Nets :
                                        CheckPayment(a, e, at, net) \/ CheckEdit(a, e, at, net)
          \/ \E day \in Days : ReadBoard(a, day) \/ \E n \in Counts : ReadClosing(a, day, n)
    \/ \E e \in Postings, at \in Instants, net \in Nets, live \in BOOLEAN : PostEntry(e, at, net, live)
    \/ \E day \in Days : DeleteCount(day) \/ UnlockDay(day) \/ \E n \in Counts : SaveCount(day, n)

ClosingSpec == ClosingInit /\ [][ClosingNext]_closingVars

---------------------------------------------------------------------------
(* Properties.                                                             *)

Except(events, P) == occurred \cap events # {} \/ P

Leaks == {"entry in closed period", "date moved", "late void", "late posting", "closed over a change",
          "closings crossed"}

\* A finalised period is immutable (payments_crud.py:144-153): what it holds with
\* its adjustment is what it was closed with, although the guard is read before
\* the write.  The version of the account sees to it whenever the closing posted
\* an adjustment; the exceptions are overlaps with a closing without a difference,
\* voids and restores, a date moved by an edit, and entries that are never compared.
ClosedPeriodKept ==
    Except(Leaks, closing # <<>> => TransactionSum(0, Latest.end) = Latest.sealed)

\* The balance a closing expects, computed along the chain of closings
\* (payments_crud.py:862-891), is the stored balance of the account: somebody who
\* counts what the account shows is told of no difference.
ExpectedIsBalance ==
    Except(Leaks \cup {"later movements"},
        \A a \in Actors : call[a].step = "closing" /\ call[a].rev = stored.rev
            => call[a].figures.expected = stored.balance)

\* What is frozen when a day is locked stays what the board would compute, and the
\* day's total is the locked count (cash_day_recon.py:187-242), until somebody
\* posts into the day, counts it again, or locks or unlocks an earlier day.
BoardFrozen ==
    Except({"posted into locked day", "recounted", "board raced", "earlier day relocked"},
        \A day \in Days :
            /\ position[day].locked = (dayLock[day] # Uncounted)
            /\ position[day].locked => position[day].expected = Expected(day)
                                       /\ dayLock[day] = position[day].counted)
=============================================================================
