--------------------------- MODULE SaleSubmission ---------------------------
(***************************************************************************)
(* Posting the direct-sale sheet: the add_direct_sale route                *)
(* (app/blueprints/sales/_direct_sales_add_direct_sale.py) with its        *)
(* duplicate-submission guard (app/services/sales_core.py) and the unique  *)
(* index on direct_sale.idempotency_key (app/services/schema.py).          *)
(*                                                                         *)
(* A request checks the key, the stock and the bill number in autocommit;  *)
(* get_next_bill_no is its first write, which takes the database's write   *)
(* lock until the commit.  The held draft is deleted by a second commit.   *)
(***************************************************************************)
EXTENDS Integers, FiniteSets, Functions, FiniteSetsExt

CONSTANTS
    Requests,      \* POSTs of the sheet; a retry or a second click is a request of its own
    SheetKeys,     \* keys the page mints when the sheet is opened
    Payloads,      \* what a form says: one value per payload hash
    NoKey,         \* the form carries no key
    Qty,           \* bags each payload sells
    Bill,          \* manual bill number of each payload, or NoBill
    NoBill,
    Backdated,     \* payloads whose sale_date lies more than 300 seconds back
    FromDraft,     \* payloads resumed from the held draft
    Stock,         \* bags in stock before the first sale
    AllowNegative, \* Settings.allow_global_negative_stock
    Overlap,       \* requests run concurrently
    Faults         \* saves fail for reasons outside this model, waits time out, workers die

ASSUME StockAssumption == Stock \in Nat /\ IsFiniteSet(Requests)
ASSUME QtyAssumption == Qty \in [Payloads -> Nat \ {0}]
ASSUME SwitchAssumption == {AllowNegative, Overlap, Faults} \subseteq BOOLEAN

VARIABLES
    sales,   \* requests whose direct_sale row is committed and not deleted
    form,    \* what each request posted
    key,     \* the idempotency key each request settled on
    old,     \* requests whose sale was created more than 300 seconds ago
    pc,      \* where each request stands
    writer,  \* the request that holds the write lock, or Nobody
    reply,   \* what the browser was told
    seen,    \* the sales each request saw when it checked stock and bill number
    made,    \* requests that ever committed a sale
    draft    \* the held draft: "held", "gone" or "discarded" by its user

vars == <<sales, form, key, old, pc, writer, reply, seen, made, draft>>

Nobody == "nobody"
NoForm == [key |-> NoKey, payload |-> "none"]
Forms == [key : SheetKeys \cup {NoKey}, payload : Payloads]
KeyOf(s) == key[s]
PayloadOf(s) == form[s].payload

\* The keys a keyless form is given: FP-<hash>, or FP-<hash>-<random>.
Fingerprint(p) == <<"FP", p>>
Disambiguated(p, r) == <<"FP", p, r>>

\* No worker is called "nobody"; a minted key is neither blank nor a fingerprint.
ASSUME NobodyAssumption == Nobody \notin Requests
ASSUME KeysAssumption ==
    /\ NoKey \notin SheetKeys
    /\ \A p \in Payloads : Fingerprint(p) \notin SheetKeys
    /\ \A p \in Payloads, r \in Requests : Disambiguated(p, r) \notin SheetKeys

\* Material.total as the last finalize_transaction rebuilt it.
Available == Stock - SumFunctionOnSet([s \in Requests |->
                        IF s \in sales THEN Qty[PayloadOf(s)] ELSE 0], Requests)

Init ==
    /\ sales = {} /\ made = {} /\ old = {}
    /\ form = [r \in Requests |-> NoForm]
    /\ key = [r \in Requests |-> NoKey]
    /\ pc = [r \in Requests |-> "idle"]
    /\ writer = Nobody
    /\ reply = [r \in Requests |-> "none"]
    /\ seen = [r \in Requests |-> [stock |-> {}, bill |-> {}]]
    /\ draft = "held"

Answer(r, what) ==
    /\ pc' = [pc EXCEPT ![r] = "done"]
    /\ reply' = [reply EXCEPT ![r] = what]

Goto(r, at) == pc' = [pc EXCEPT ![r] = at] /\ UNCHANGED reply

------------------------------------------------------------------------------
\* The browser posts the sheet: a first click, a second click or a retry.
Submit(r) ==
    /\ pc[r] = "idle"
    /\ Overlap \/ \A q \in Requests : pc[q] \in {"idle", "done"}
    /\ \E f \in Forms : form' = [form EXCEPT ![r] = f]
    /\ Goto(r, "posted")
    /\ UNCHANGED <<sales, key, old, writer, seen, made, draft>>

\* _direct_sale_idem_key_is_recent: the age of date_posted, not of the row.
\* A sale made from a held draft is posted at its save time.
IsRecent(s) ==
    s \notin old /\ (PayloadOf(s) \in Backdated => PayloadOf(s) \in FromDraft)

\* The sales that carry a key (at most one, by the unique index).
Prior(k) == {s \in sales : KeyOf(s) = k}

\* A key of the sheet: a replay of the same payload, a misuse, or new.
CheckKey(r) ==
    /\ pc[r] = "posted" /\ form[r].key # NoKey
    /\ LET prior == Prior(form[r].key)
       IN IF prior # {}
          THEN /\ IF \E s \in prior : PayloadOf(s) # PayloadOf(r)
                  THEN Answer(r, "refused") ELSE Answer(r, "replayed")
               /\ UNCHANGED key
          ELSE /\ key' = [key EXCEPT ![r] = form[r].key]
               /\ Goto(r, "keyed")
    /\ UNCHANGED <<sales, form, old, writer, seen, made, draft>>

\* Faulty variant: a prior sale of the fingerprint is never a replay.
CheckFingerprintBlind(r) ==
    /\ pc[r] = "posted" /\ form[r].key = NoKey
    /\ key' = [key EXCEPT ![r] =
                 IF Prior(Fingerprint(PayloadOf(r))) = {} THEN Fingerprint(PayloadOf(r))
                 ELSE Disambiguated(PayloadOf(r), r)]
    /\ Goto(r, "keyed")
    /\ UNCHANGED <<sales, form, old, writer, seen, made, draft>>

\* A keyless form: a recent sale of the fingerprint makes it a replay, an
\* older one a repeat order with a key of its own.
CheckFingerprint(r) ==
    /\ pc[r] = "posted" /\ form[r].key = NoKey
    /\ LET fp == Fingerprint(PayloadOf(r))
       IN IF \E s \in Prior(fp) : IsRecent(s)
          THEN Answer(r, "replayed") /\ UNCHANGED key
          ELSE /\ key' = [key EXCEPT ![r] =
                            IF Prior(fp) = {} THEN fp ELSE Disambiguated(PayloadOf(r), r)]
               /\ Goto(r, "keyed")
    /\ UNCHANGED <<sales, form, old, writer, seen, made, draft>>

\* Faulty variant: exactly the last bag and one more may be sold.
CheckStockOffByOne(r) ==
    /\ pc[r] = "keyed"
    /\ IF ~AllowNegative /\ Available + 1 < Qty[PayloadOf(r)]
       THEN Answer(r, "refused") /\ UNCHANGED seen
       ELSE Goto(r, "stocked") /\ seen' = [seen EXCEPT ![r].stock = sales]
    /\ UNCHANGED <<sales, form, key, old, writer, made, draft>>

\* The stock validation of the chargeable lines.
CheckStock(r) ==
    /\ pc[r] = "keyed"
    /\ IF ~AllowNegative /\ Available < Qty[PayloadOf(r)]
       THEN Answer(r, "refused") /\ UNCHANGED seen
       ELSE Goto(r, "stocked") /\ seen' = [seen EXCEPT ![r].stock = sales]
    /\ UNCHANGED <<sales, form, key, old, writer, made, draft>>

SameBill(p, q) == Bill[p] # NoBill /\ Bill[p] = Bill[q]

\* find_bill_conflict on the manual bill number.
CheckBill(r) ==
    /\ pc[r] = "stocked"
    /\ IF \E s \in sales : SameBill(PayloadOf(s), PayloadOf(r))
       THEN Answer(r, "refused") /\ UNCHANGED seen
       ELSE Goto(r, "valid") /\ seen' = [seen EXCEPT ![r].bill = sales]
    /\ UNCHANGED <<sales, form, key, old, writer, made, draft>>

\* get_next_bill_no: INSERT OR IGNORE waits for the write lock and takes it.
TakeWriteLock(r) ==
    /\ pc[r] = "valid" /\ writer = Nobody
    /\ writer' = r
    /\ Goto(r, "saving")
    /\ UNCHANGED <<sales, form, key, old, seen, made, draft>>

\* busy_timeout runs out while another request holds the lock.
LockTimeout(r) ==
    /\ Faults /\ pc[r] = "valid" /\ writer # Nobody
    /\ Answer(r, "error")
    /\ UNCHANGED <<sales, form, key, old, writer, seen, made, draft>>

\* Another request committed the key meanwhile: the INSERT flushed at line 594
\* violates the unique index, long before the commit that expects the
\* violation, and the generic handler answers.
SaveDuplicate(r) ==
    /\ pc[r] = "saving" /\ Prior(key[r]) # {}
    /\ writer' = Nobody
    /\ Answer(r, "error")
    /\ UNCHANGED <<sales, form, key, old, seen, made, draft>>

\* Faulty variant: no unique index on the key.
SaveUnindexed(r) ==
    /\ pc[r] = "saving"
    /\ sales' = sales \cup {r} /\ made' = made \cup {r}
    /\ writer' = Nobody
    /\ Goto(r, "saved")
    /\ UNCHANGED <<form, key, old, seen, draft>>

\* The row, its items, entries and allocations, finalize_transaction, commit.
Save(r) ==
    /\ pc[r] = "saving" /\ Prior(key[r]) = {}
    /\ sales' = sales \cup {r} /\ made' = made \cup {r}
    /\ writer' = Nobody
    /\ Goto(r, "saved")
    /\ UNCHANGED <<form, key, old, seen, draft>>

\* The sale was resumed from a draft that is still there.
Resumed(r) == PayloadOf(r) \in FromDraft /\ draft = "held"

\* The second commit, a write transaction of its own: the held draft has become
\* this sale.
Finish(r) ==
    /\ pc[r] = "saved"
    /\ Resumed(r) => writer = Nobody
    /\ draft' = IF Resumed(r) THEN "gone" ELSE draft
    /\ Answer(r, "saved")
    /\ UNCHANGED <<sales, form, key, old, writer, seen, made>>

\* The second commit fails, as when the write lock is not free in time: it is
\* rolled back and the sale confirmed all the same, with its draft still held.
FinishKeepsDraft(r) ==
    /\ Faults /\ pc[r] = "saved" /\ Resumed(r)
    /\ Answer(r, "saved")
    /\ UNCHANGED <<sales, form, key, old, writer, seen, made, draft>>

\* Any other validation refuses the form or any other statement fails: rollback.
Fail(r) ==
    /\ Faults /\ pc[r] \in {"posted", "keyed", "stocked", "valid", "saving"}
    /\ writer' = IF writer = r THEN Nobody ELSE writer
    /\ Answer(r, "error")
    /\ UNCHANGED <<sales, form, key, old, seen, made, draft>>

\* The worker dies: SQLite rolls its transaction back, the browser hears nothing.
Crash(r) ==
    /\ Faults /\ pc[r] \notin {"idle", "done"}
    /\ writer' = IF writer = r THEN Nobody ELSE writer
    /\ pc' = [pc EXCEPT ![r] = "done"]
    /\ UNCHANGED <<sales, form, key, old, reply, seen, made, draft>>

\* More than 300 seconds pass after a sale.
Age(r) ==
    /\ r \in sales \ old /\ pc[r] = "done"
    /\ old' = old \cup {r}
    /\ UNCHANGED <<sales, form, key, pc, writer, reply, seen, made, draft>>

\* hard_delete_transaction of a sale: the row and its key are gone.
Delete(r) ==
    /\ r \in sales /\ pc[r] = "done" /\ writer = Nobody
    /\ sales' = sales \ {r}
    /\ UNCHANGED <<form, key, old, pc, writer, reply, seen, made, draft>>

\* delete_direct_sale_draft.
DiscardDraft ==
    /\ draft = "held" /\ writer = Nobody
    /\ draft' = "discarded"
    /\ UNCHANGED <<sales, form, key, old, pc, writer, reply, seen, made>>

\* What the thread that serves a request does by itself.
Handle(r) ==
    \/ CheckKey(r) \/ CheckFingerprint(r) \/ CheckStock(r) \/ CheckBill(r)
    \/ TakeWriteLock(r) \/ LockTimeout(r) \/ SaveDuplicate(r) \/ Save(r) \/ Finish(r)
    \/ FinishKeepsDraft(r)

Next ==
    \/ \E r \in Requests : Handle(r) \/ Submit(r) \/ Fail(r) \/ Crash(r) \/ Age(r) \/ Delete(r)
    \/ DiscardDraft

Spec == Init /\ [][Next]_vars

------------------------------------------------------------------------------
Places == {"idle", "posted", "keyed", "stocked", "valid", "saving", "saved", "done"}

TypeOK ==
    /\ sales \subseteq made /\ made \subseteq Requests /\ old \subseteq made
    /\ form \in [Requests -> Forms \cup {NoForm}]
    /\ pc \in [Requests -> Places]
    /\ writer \in Requests \cup {Nobody}
    /\ \A r \in Requests : writer = r <=> pc[r] = "saving"
    /\ reply \in [Requests -> {"none", "saved", "replayed", "refused", "error"}]
    /\ seen \in [Requests -> [stock : SUBSET Requests, bill : SUBSET Requests]]
    /\ draft \in {"held", "gone", "discarded"}

\* One sheet gives one sale: clicks, retries and crashes notwithstanding, no
\* two sales exist that were posted with the key of the same sheet.
OneSalePerSheet ==
    \A s, t \in sales : form[s].key # NoKey /\ form[s].key = form[t].key => s = t

\* What the browser is told is true: "saved" means that this request's sale
\* was committed, "already saved" that a sale of the same payload was, and a
\* request that was refused, failed or answered by replay committed nothing.
ReplyTruthful ==
    \A r \in Requests :
        /\ reply[r] = "saved" => r \in made
        /\ reply[r] = "replayed" => \E s \in made : PayloadOf(s) = PayloadOf(r)
        /\ reply[r] \in {"replayed", "refused", "error"} => r \notin made

\* The abstract register, as the browser and the database see it.
Register == INSTANCE SaleRegister WITH book <- sales, ever <- made, asked <- form, told <- reply

\* The route implements the register: concurrent clicks, retries, refusals,
\* failures and crashes at any point leave one standing sale per sheet, answers
\* that are true, and a draft that left only into a committed sale.  That the
\* draft of a confirmed sale has left the register promises of a faultless store
\* only: lines 697-704 swallow the failure of the second commit.
ImplementsRegister == Register!RegisterSpec

\* Two sales of one keyless payload, both made within the last 300 seconds.
KeylessTwins(s, t) ==
    /\ s # t /\ form[s].key = NoKey /\ form[t].key = NoKey
    /\ PayloadOf(s) = PayloadOf(t)
    /\ s \notin old /\ t \notin old

\* The fingerprint guard fails in two cases only: an earlier sale of the same
\* payload had aged, so that repeat orders are not compared with each other,
\* or the sale is backdated, so that its own age is misread.
TwinsNeedOlderSale ==
    \A s, t \in sales : KeylessTwins(s, t) =>
        \/ PayloadOf(s) \in Backdated \ FromDraft
        \/ \E q \in old : form[q].key = NoKey /\ PayloadOf(q) = PayloadOf(s)

\* Two sales share a manual bill number only if neither was committed when the
\* other looked: no order of checks and commits lets a visible one through.
BillTwinsOverlapped ==
    \A s, t \in sales : s # t /\ SameBill(PayloadOf(s), PayloadOf(t)) =>
        s \notin seen[t].bill /\ t \notin seen[s].bill

\* What the checks in autocommit let through, they let through to sales that
\* overlapped only: a bill number used twice, and bags sold beyond the stock
\* (without the permission to go negative) by two sales neither of which was
\* committed when the other looked.
ConflictsNeedOverlap ==
    /\ BillTwinsOverlapped
    /\ AllowNegative \/ Available >= 0 \/
           \E s, t \in sales : s # t /\ s \notin seen[t].stock /\ t \notin seen[s].stock

\* A held draft is gone only when its user discarded it or a sale of its
\* payload was committed: no failure and no crash loses it.
DraftBecomesSale ==
    draft = "gone" => \E s \in made : PayloadOf(s) \in FromDraft
=============================================================================
