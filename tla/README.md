# Verification project for the cement-dealer ERP

TLA+ models, TLC runs and TLAPS proofs for the parts of this Flask/SQLite
application whose correctness depends on the order in which requests, writes,
crashes and retries happen. Paths are relative to the repository root.

    tlc -workers 2 -config MCGrnLots.cfg MCGrnLots.tla
    tlapm LotsAndNumbers_proofs.tla

`PROJECT.json` lists components, runs, mutants, hazards, findings and theorems,
and maps every definition to the source lines it models. Definitions whose
comment starts with "Faulty variant" belong to no specification: each is a
plausible bug, and a run detects it when it replaces the definition it varies.

## 1. Inventory

The application is one Flask process (threaded `app.run`, or several workers
under a WSGI host) over one SQLite file. All components share that database; there
is no message queue. Components interact by calls inside one request and by what
earlier requests have committed. Three facts about the stack shape every model:

* **Reads before the first write are not in the write's transaction.** pysqlite
  opens a transaction at the first INSERT/UPDATE/DELETE, so what a request reads
  before it is read in autocommit and may be overwritten by another request's
  commit. From the first write on the request holds the only write lock.
* **The ORM writes changed columns only.** An attribute set to the value that was
  loaded is not part of the UPDATE. An object loaded once keeps its attributes
  through later queries of the request. `Account`, `Payment` and `SupplierPayment`
  carry a version that every UPDATE compares.
* **Foreign keys are on** (`app/__init__.py`) and checked at the end of each
  statement, so a row that is still referenced cannot be deleted.

| Component | State | Operations | Hard behaviour | Correct when | Module |
|---|---|---|---|---|---|
| System lock (`app/services/locks.py`) | `system_lock` row | acquire, reclaim, release | check-then-act, crash, TTL | one holder; a dead holder's lock is reclaimed | `SystemLock` |
| GRN lots (`sales_core.py`, `void_rebuild.py`, GRN pages) | `grn_item`, `grn_allocation` | receive, edit, delete; sale post, edit, delete, restore | plan read before the write, restore after re-sale | flag = use, nothing dangles, oldest first | `GrnLots` |
| Posting a direct sale | `direct_sale`, idempotency key, held draft | check, save, retry | double click, lost answer, two commits | one sale per sheet, truthful answer | `SaleSubmission`, `SaleRegister` |
| Document numbers (`billing.py`) | `bill_counter`, numbers of seven tables | draw, type, ask, edit, restore, search | asked before or after the own number is flushed, or never | automatic numbers once; twins explained; search finds | `BillNumbers` |
| Bookings, deliveries, returns, stock | `booking_item`, `booking_allocation`, `entry`, `material.total` | book, deliver, cancel, take back, return, edit, delete | two accounts of one balance, absolute writes of stale copies | nothing delivered beyond the booking, one balance, stock = entries | `BookingPool` |
| Pending bills (`void_rebuild.py`, payments, returns) | `pending_bill`, `payment` | sync, settle, rebuild, hand edits | derived rows edited by hand, payments replayed | a rebuild restores the exact debt | `PendingBills` |
| Client statements (`financial_ledgers.py`, ledger pages) | none, computed | balance, payables, remaining, page | five formulas over documents tied by bill numbers | they agree | `ClientStatement` |
| Client masters and attribution | `client`, name and code copies in ten tables | add, rename, suspend, transfer, reclaim | copies rewritten by name or by code | documents follow their client | `ClientIdentity` |
| Payments and balances | `account`, `payment`, ledger rows | post, edit, void, restore, adjust | read-modify-write, two sides of one movement | balance = opening + rows; rows follow documents | `AccountLedger` |
| Closings and the daily board | reconciliations, day positions and locks | close, count, lock, unlock | guard read before the write, late postings | a closed period and a locked day stay | `AccountClosing` |
| Delivery rents (`driver_payments.py`, `ops/delivery.py`) | rows and rents of sales, drivers' payments | add, edit, delete sales; settle by three pages; edit, void, restore | read before the account is loaded, rows made anew, two records of one rent | owed = earned less paid; nothing overpaid | `DriverRents` |
| Import jobs (`import_jobs.py`, `engine.py`) | upload, job, rows | upload, start, cancel, delete, purge | cancel against a running engine, death | a job's end tells what landed | `ImportJobs` |
| Backups and restore (`maintenance.py`) | lock directory, archives, temp directories | back up, prune, restore, clean up | stale lock, failure after publishing | exclusive; the restore reports what it did | `BackupRestore` |
| Deployer (`deploy/deployer.py`) | working tree, preserve directory, state file | deploy, roll back | users write meanwhile, copies that stop midway, per-process lock | users' writes stay, rollback undoes the last | `GitDeploy` |
| Data Center (`data_ops/`) | archives, plan | export, plan, merge, verify | plan before the transaction, verification after it | merge is honest; an own archive changes nothing | `DataRestore` |
| Data wipe (`_wipe_delete_selected_data.py`, `wipe.py`, `health.py`) | all tables, health snapshot | wipe boxes, wipe accounts domain, start | foreign keys between hundreds of statements | what it says is what it did | `DataWipe` |
| Module loader | specs, prefix owners, blueprints | discover, resolve, override, mount | cycles, failures while mounting | dependencies first, nothing skipped | `ModuleRegistry` |
| Database update pipeline (`dbupdate/`) | schema, ledger, version | check, back up, apply, undo, record | crash between three commits | nothing unrecorded, converges | `UpdatePipeline` |

Left out: permissions, users, reports, PDF, notifications, the plant registry (plain
forms, reading and rendering) and one-off migration tools. `PROJECT.json` gives the
status of each component and what a partly modelled one lacks.

## 2. What is modelled

Each action is one stretch of code between two points where another request can
commit. A write transaction is one step; reads before it are steps of their own
where the code acts on them later. Models keep history variables (`happened`,
`occurred`, `seen`, `note`, `events`): sets of names of events that a property
excuses. An excuse is never the absence of a check: each names the code path that
breaks the property, and each was confirmed necessary by dropping it.

**`SystemLock`.** `row` is the lock row, `saw` what each request's SELECT loaded, and
`Delta` the UPDATE the session flushes from it. `AcquireRead`/`AcquireInsert`/
`AcquireUpdate` are the two halves of `acquire_system_lock`, `ReleaseRead`/
`ReleaseWrite` those of `release_system_lock`; `Expire` lets the TTL run out and
`Crash` kills a worker. `stale`, `raced` and `overran` are history: they remember a
load that was overwritten, a commit made from one, and a holder that was too slow.

**`GrnLots`.** One material. `lot`, `sale` and `alloc` are the tables, `req` what a
request has read and not written yet: a FIFO plan (`PlanSale`, `PlanEditSale`) or a
passed lock check (`CheckGrn`). `WriteSale`, `DeleteSale`, `RestoreSale`, `WriteGrn`,
`DeleteGrn` are the transactions. A position in `Lots` stands for (date, GRN id, item
id); a new GRN may be dated between others, so any free position may be taken.
**`GrnHistory`** adds `events`, which remembers what the planner cannot be blamed for: rows
that changed under a request that had read, and restored sales.

**`SaleSubmission`** implements **`SaleRegister`**. One request is one run of
`add_direct_sale`: the key check, the stock check, the bill check (each in
autocommit), the write lock taken by `get_next_bill_no`, the save under the unique
index, and the second commit that drops the held draft. That commit takes the write lock
again and may fail, which the code swallows (lines 697-704): `FinishKeepsDraft` answers
"saved" and the draft stays, and so may the register's `Confirm` where `Faults` are
allowed. `SaveDuplicate` is the path in
which the INSERT meets the unique index: the flush at line 594 raises, so the generic
handler answers with an error and the replay handler at 684-696 is never reached. `Age`
is the passing of the 300-second window, `Fail` any other validation or failing
statement, `Crash` the worker's death. The register has atomic actions only: `Ask`,
`Record`, `Confirm`, `Replay`, `Decline`, `Remove`, `Discard`.

**`BillNumbers`.** `doc` holds documents of seven tables with their automatic and manual
number; `page` a request that has asked for a conflict and not written yet. The pages
fall into four classes: those that ask in autocommit and write later (`AskToPost`,
`AskToEdit`), the GRN page that draws first (`DrawForGrn`), those whose own assignment
is flushed by the first query of the check (`FlushThenCheck`) and so meet themselves
first, and those that ask nobody (`EditUnchecked`, `GiveBack`).

**`BookingPool`.** One client and one material. `alloc` and the entries (`sold`,
`returned`, `cancels`) are the two accounts of what is left; `Plan` are the two passes of
`_allocate_booking`. Reads and writes of a page are separate steps where the write uses
what was read: `SaleRead`/`SaleWrite`, `CancelRead`/`CancelWrite`, `RevertRead`/
`RevertLoad`/`RevertWrite`, `ReturnRead`/`ReturnWrite`, `EditBookingRead`/
`EditBookingWrite`. An edit that changes the booking's header too takes the write lock with
its first query, before it reads the lines: that is `EditBooking`, one step.

**`PendingBills`.** One client. `src` holds sales and bookings, `rows` the
`pending_bill` rows in id order, `pay` payments and returns. `SyncSale`, `SyncBooking`,
`Settle` and `Rebuild` are the functions of `void_rebuild.py`; a loop over sources or
payments is a recursive function (`Derived`, `Replayed`), and a query ordered by id is
`Ascending`. The actions are the pages
that call them, and the pages that change a row behind their back (edit, delete, mark
paid, restore, cancel a booking and take it back). Requests are sequential here: each is
one transaction, and the hazard is the sequence of calls, not their overlap.

**`ClientStatement`.** The same client seen by the ledger (`ClosingBalance`), the list of
payables (`SummaryBalance`), what is left of the bills (`Remaining`) and the client's
page (`PageBalance`). The actions are the pages that part a cancellation's entry from
its booking: renumbering, moving, deleting, editing the bill; bills by hand; payments.

**`ClientIdentity`.** `master` is the client table, `doc` what a document says of its
client (name, code or id), each kind with the columns its table has. `EditClient`,
`Transfer`, `Reclaim`, `Suspend`, `ActivateAll` rewrite them table by table as the pages
do. `Ledger` is the attribution of the list of all clients, `LedgerOfOne` that of one.

**`AccountLedger`.** `account` rows with balance and version, `doc` the source documents
(client, supplier and driver payments, cash-flow entries, direct entries, adjustments),
`row` the ledger row of each, `owing` the accounts that something never compared with a
balance took below zero. A request loads copies (`LoadAccounts`, `LoadDocument`), then writes in one
transaction; a stale version is refused where the table has one.

**`AccountClosing`.** `posting` is dated, `closing` the chain of reconciliations,
`position` and `dayLock` the daily board. Guards (`_assert_period_open`, the day's
figures) are read in a step of their own.

**`DriverRents`.** `row` (the drivers of each sale, by id), `oldRent` (one per sale, under
the first driver's name) and `settled` (payments), with `share` the truth they are compared
with. `visit` is a settlement between its reads and its write: the driver's page reads and
then loads the account, the Accounts page and the rent page load it first. `Spread` is the
oldest-first allocation, `WithRows` gives new rows the ids SQLite gives them.
Runs with `AccountClosing` in `MCAccountClosing`; a behaviour exercises one of the two.

**`ImportJobs`, `BackupRestore`, `GitDeploy`, `DataRestore`, `DataWipe`** are the
operator's tools, composed in `MCOperations`. Import: the engine row by row inside the
request that started it; most sheets' rows are SAVEPOINTs that commit, four sheets are read
without, so their rows and all later ones wait in `pend` for the next commit; `Fates` says
what may become of a row (in, in with a complaint, rejected, skipped, blank). Backups: lock directory with stale
recovery, stages of a backup and of a restore, retention. Deploy: preserve, fetch,
reset, copy back, validate, restart, record; each copy has a beginning and an end, between which
users write and the run dies or fails, and `whole` says whether the live files belong together. Merge: `BuildPlan` computes orphans and id
remapping from archive and database, `ApplyPlan` is the one transaction, `Verified` is asked after
its commit. Wipe: `Datasets` is the registry with each box's statements in order, rows
are classes tied by foreign keys, `Expanded` is one level deep as in the code; the health
snapshot and the start-up guard follow.

**`ModuleRegistry`.** `status`, `problems` and `owner` of each module through discovery,
two passes of resolution around the overrides, waves and mounting.

**`UpdatePipeline`.** `run` is where each process stands; `applied` counts committed
upgrades, `ledger` what the migration ledger says, `partial` what a failed upgrade left
behind. The upgrade, the schema version and the ledger row are three commits and three
actions. `Fault` bounds failures and deaths. `lost` remembers revisions whose
application the ledger missed; `unbacked` a schema change made without a backup.
## 3. Runs

| Run | Shows |
|---|---|
| `lock_holds` | Three requests, crashes, expiry: exclusion is lost only to a commit from an overwritten SELECT or to a holder outliving its TTL; a lock left by a dead worker expires unless such a race touched it. Backups and restores of two processes under the directory lock, with deaths and failures |
| `lock_mutex` (violation) | two requests both take the lock |
| `lots` | two requests with arbitrary stale reads, two new sales and a legacy void one: flags and references stay right, locked lots keep their stock, oldest first and never too much until rows change under a reader |
| `sale_concurrent` | three overlapping requests of three payloads implement the register of sales; what each exception to the weaker guards must rest on; and which numbers can come to name two documents |
| `goods` | overlapping bookings, deliveries, returns and cancellations: delivered stays within booked, the three computations of what is left agree, stock is the sum of the entries |
| `bills_owed` | from every reachable state a rebuild leaves one row per source, the exact debt, oldest bills settled first; the client's statements agree |
| `clients` | every order of renaming, transferring, suspending and reclaiming: whose ledger shows which document |
| `money` | overlapping payments, entries and adjustments: balances, rows, documents and the board agree |
| `closings` | closings and day locks against overlapping postings; driver rents against overlapping settlements and edits of sales |
| `operations` | import jobs, merges, deployments and wipes, with deaths and failures at every stage |
| `modules` | every dependency graph of three modules with broken, disabled and overridden manifests |
| `update_restarts` | three revisions, three faults anywhere, releases that break and mend a revision, every policy: ledger exact and convergence |

Several runs compose models that share no state through one variable (`view`,
`tool`): a behaviour exercises one of them, and the run explores all.

### Bounds and why they are enough

* `lock_holds`: three requests for the row. A breach takes two; the third can be
  reclaiming while a late holder releases. Two backup processes, retention 2, four
  stamps, two faults (a failed restore and its failed recovery), followed until the second
  excused event; deadlock is not checked because the stamps run out.
* `lots`: two lots, three sales, two requests, quantities 1 and 2. The flag of a lot
  depends on two writers at most, which the theorem lifts to any number; a sale can
  exhaust one lot and go on to the next, and a third can find nothing open. A
  behaviour is followed until it has raced and restored; the theorem on the flag has no such end.
* `sale_concurrent`: three requests (an original, a double and a competitor), two plain
  payloads that share a manual bill number and one resumed from the draft, one sheet key
  plus keyless forms, stock for two bags; at most one request fails, dies or loses its
  sale again (`OneMishap`). Numbers: two editors, three documents, one manual number,
  three writes, and two old databases (a duplicated automatic number, a number ahead of
  its counter): a twin needs two writes and a race a third.
* `goods`: two booking lines, two sales, two returns, quantities up to 2, one
  cancellation; requests overlap while there is one booking (`SmallNext`), and a
  behaviour is followed until a race or the second excused event (`Followed`).
* `bills_owed`: one sale, one booking dated before it that a legacy database holds as
  void, one payment of 3 or a refund of 1 against dues of 0 and 2 (a payment that covers
  one bill and part of the next), two rows (`MaxRows`), either both sources under their
  automatic numbers or one active source whose number changes; the rebuild evaluated in each
  state may exceed two rows. Statements: two bookings, two cancellations, a payment with
  a discount or a refund, one bill by hand, six changes (`MaxWrites`).
* `clients`: two clients and a third, one document of any kind; documents do not affect
  each other except a sale its pending bill. Nothing is followed after an emptied name.
* `money`: one cash and one bank account, openings of -1, 0 and 2 (in credit, empty, in
  funds), the first document moving cash from an account in funds or to an empty one, two
  documents, amounts 1 and 2, two requests, followed until two excused events; `closings`:
  two days of two instants, two postings, two closings, until the first excused event; two
  drivers, two sales with up to two rows, payments of 1 and 2 from one account or waived,
  three moves, or five for one sale of one driver (paid, voided, paid again, restored).
* `operations`: three rows, one blank and the last waiting behind one of a sheet without
  SAVEPOINTs, and two requests per import, until the second excused event (a start without
  the file not counted); two deployers, two commits and two writes of users, until two runs
  overlap; databases of at most three clients with one row per other table and three foreign
  archives; every box, all boxes, and accounts with what they need, two wipes in a row.
* `modules`: all graphs on three modules: a cycle of two with a third that depends on it,
  chains and diamonds without a join.
* `update_restarts`: three revisions give a first, a middle and a last; one may break,
  one declares `undo`. Two processes start runs in turn. Three faults allow a failed
  upgrade, a failed undo and a failed record in a row. `MaxFaults` bounds them.

### Fairness

* `SystemLock`: weak fairness of each request's next step (a running thread continues)
  and of `Expire` (time passes). Nothing forces a request to start.
* `BackupRestore` (in `MCLocks`): weak fairness of a process's own next step, of
  `LockAges` (time passes), and of `BackupBegin` while backups are the tool in use (the
  maintenance schedule comes round). `LockRecovered` rests on it; deaths are never fair.
* `UpdatePipeline`: weak fairness of `Proceed`: a run is one thread, and a new start of
  the application begins another. Failures, deaths and releases are never fair.

Deadlock checking is off where the system may rest: all requests answered, all
bounded documents entered, the application started.

## 4. Findings

`lock_mutex` is the violation run: `acquire_system_lock` reads the row in autocommit and
writes it without a re-check (locks.py:104 against its docstring, line 99).

The exceptions that the properties name are behaviours of the code as well. The most
consequential ones, and others seen while modelling:

* **Sales and lots.** Two concurrent sales plan the same lot and over-consume it, and so
  do two lines of one material in one form and a void sale restored after its lot was
  sold again; a GRN edit rewrites a lot that was locked after its check. A keyless double
  post makes two sales once an earlier sale of the payload has aged, which the comment at
  `_direct_sales_add_direct_sale.py:130` excludes. A failing second commit is answered as
  success and leaves the held draft, which may be resumed again (lines 697-704).
* **Numbers.** A page that flushes its own number first meets itself and does not see a
  document of a later table; a booking's number edited on the client ledger, and anything
  restored, is not compared at all; the table of supplier payments is never searched;
  "SB NO.12" typed there is stored as "MB NO.12" and looked for as something else. The
  check's first query flushes inside a `try` that rolls back (billing.py:413-434), so a
  lock timeout or a stale revision is swallowed and the page answers that it has updated.
* **Goods.** A partial cancellation can take a line below its allocations, and so can an
  edit of the lines that overlaps a delivery (bookings.py:82-139); deleting a
  booking drops the allocations of active sales; deleting or cutting a return after its
  goods were delivered again leaves more delivered than booked; cancelling after a full
  return is refused although `booking_cancel.py:15` says otherwise; after a redelivery an
  unchanged edit of a sale is refused.
* **Bills and statements.** Bills by hand are settled again by every rebuild; a cancellation
  parts from its booking when the booking is renumbered or moved or its bill is edited;
  `edit_booking` asks for a conflict after its own number was flushed; deleting or
  restoring a payment does not rebuild. The client's page leaves out bills by hand.
* **Clients.** Renaming a client takes along the sales and bookings of a same-named
  master; a reclaim takes rows the target owned or had lent from others; a suspended
  client activated by "activate all" can no longer reclaim; the parity the docstring at
  financial_ledgers.py:357 guarantees fails when masters share a name.
* **Money.** Every client payment posted with an idempotency key fails
  (`payment.client_code` does not exist); an outgoing receipt edit, deletion or restored
  refund can overdraw, and so can a credit opening, a lower one or a counted balance below
  zero (accounts_crud.py:463, 516); an edit on the Accounts page may give a receipt or an expense
  a second account, which moves both and counts once on the cash board
  (transactions.py:154, cash_flow_svc.py:1368); driver rows can be edited alone on the Accounts page although
  models/delivery.py:36 keeps them 1:1; cash-flow and direct entries check no closed
  period; the closing of a past day counts later movements, and the next counts them
  again (comment at payments_crud.py:885).
* **Drivers.** A settlement from another account, or a waive-off, overpays a driver when it
  overlaps another; on the driver's page also one from the same account, committed before
  the account is loaded. A sale edited meanwhile gives the ids of its rows to new ones, and
  the payment lands on another driver's row. Deleting the entry of a sale's first driver
  makes him owed the rent of the whole sale, paid or not (delivery.py:153). Restoring a
  payment that names no row compares it with nothing.
* **Operations.** A start is not refused for a deleted or imported upload, and a missing
  file counts as success; rows the engine skips are no errors, so the job completes and the
  workbook they are in is discarded (import_jobs.py:223); a failed import keeps the rows that
  waited for the final commit, because the failure is recorded without a rollback; writes committed between preserve and copy back are lost
  (deployer.py:177 against 160); a copy back that breaks off leaves a torn live database, is only
  logged and the deployment goes on (deployer.py:182, against DEPLOYMENT.md:186 "Live data is never
  overwritten"), and the next run removes the only good copy before it copies the torn files aside (140); a failed deployment is not recorded, so a rollback goes
  two commits back; `_requirements_changed` compares after the reset; two backup processes
  may both recover a stale lock; a double failure of a restore loses the uploads.
* **Merge and wipe.** A renamed client's payment is given to a new orphan at every restore
  of the same archive (backup_ops.py:136 "Safe to run twice"); a payment whose client is in
  neither database goes to the live client of its name, and at the next restore to the one
  that came with the archive (planner.py:258, found by the proof); an archive's client replaces
  the live one of its id (docs/DATA_CENTER.md:79); a plan that was found clean fails in its transaction
  where a unique value of the archive (a driver's name, an idempotency key) is another row's
  (engine.py:95, against planner.py:15 "Everything that can fail is raised here"); a verification that fails after the
  commit is reported as rolled back, by the merge and by the accounts-domain wipe alike; a
  wipe of datasets that commits and then cannot write the health snapshot answers "no data
  was changed" (_wipe_delete_selected_data.py:534-549); a
  wipe of bills only expands to the accounts domain and zeroes all balances; the guard's
  "Refusing to start" is caught and logged.
* **Modules.** A missing dependency does not block its dependents' dependents
  (registry.py:332 against docs/MODULE_CONTRACT.md:210); the READY status is never set;
  a disabled module keeps its prefix.
* **Update.** A process that dies between the commit of an upgrade and its ledger row runs
  the upgrade again; the baseline changes the schema after a failed required backup
  (runner.py:516); `_next_schema_version` counts pending revisions (runner.py:740).

## 5. Proofs

TLAPS proves these for every value of the constants.

**`LotsAndNumbers_proofs`**, of `GrnHistory` (assumptions `LegacyAssumption`, and for the quantities
`LotsAssumption` and `QuantitiesAssumption`: a database holds finitely many sales, and
bags are counted in whole numbers): `LockFlagCorrect`, `NoDanglingAllocation`,
`QuantitiesTyped`, `LocksKeepStock`, `OldestTakenFirst`, `FirstInFirstOutHolds`. `LockMatchesUse` is not inductive alone: a stale
plan might name a lot that is gone, so that `Refresh` skips it while the allocation
exists. `IInv = Shape /\ LockMatchesUse /\ AllocationsHaveLots` closes the circle: a
touched lot exists because of the foreign key, so its flag is refreshed; a deleted lot
has no allocation, so nothing dangles. `RefreshKeeps` is the common core of the three
sale writes. That invariant says nothing about planned quantities, so its results hold
however stale or wrong a plan is. For the others `FInv` adds what `GrnHistory` lets one
say: quantities are numbers (`Typed`), while nothing has raced every unwritten plan is what
the planner would answer now and every checked GRN is still unlocked (`Fresh`), and no lot
is consumed beyond what it received (`Covered`). `QuietSteps` then leaves three kinds of
change (a lot nothing was sold from, a sale cleared, a sale written as planned from the
rows as they are), and `PlannedFacts` says what a plan is by the sums of `SumTheorems`.
`FirstInFirstOutHolds` assumes `OneLineForms`: every line of a form is planned from the same
rows, so two lines of one material may take the same bags (section 4); the order needs no
such hypothesis, as `OldestTakenFirst` shows.

In the same module, of `BillNumbers` (`OldDocumentsAssumption`: a database to start from
holds numbered documents, all old): `NumbersGivenOnce`, `NumbersTellApart`. `NumbersInv`
says that one page at most holds a number it drew, that this number lies ahead of every
number of its kind (`OneDraws`, `DrawnAhead`), and what the answer to a check is still good
for (`CheckHolds`): unless the page is late, nobody else stands with the number in a table
that is searched, or its own document already has it. That two documents share a manual
number only as explained is proved from a database where that is so already, because old
data may hold any twins; that automatic numbers are given once and that the search hides
twins only needs no such hypothesis.

In the same module, of `ImportJobs` (`LastRowAssumption`: the sheet has a number of rows, each of one of three kinds):
`JobsSettle`. `JobsInv` says that while no start or cancellation crossed another, the engine
at work is the only one (`EngineKnown`), that an engine that reported no error has committed
every row it passed, or holds it for the final commit, or skipped it (`RowsLanded`, `Whole`),
and that a workbook goes only when its rows are in, skipped or blank (`GoneIsWhole`).

**`Operations_proofs`**, of `GitDeploy`: `RollbackReturns`, `DeploymentsKeepWrites`.
A runner that has synchronised knows the commit it left
(`TargetKnown`). `DeploymentsKeepWrites` is an action property: as long as runs do not overlap and nobody writes
during a copy, the preserve directory holds the run's own copy of a whole database
(`CopyIsOwn`, `Holding`, `OneRun`), so while the copy back is half done, or after it broke
off, what was written is there, and in the live database before and after.

In the same module, of `BackupRestore` (`BackupAssumption`: the restorer is one of the
processes, and at least one backup is retained): `LockExclusive`, `RestoresTellTruth`. The
lock directory belongs to the one process inside (`LockHeld`) until a death; stamps are
never shared (`StampsOwn`), so a publication replaces nobody's archive; `Progress` says at
each stage of a restore which copies hold what. That a good backup stays is proved for
`Retention >= 2` and until two processes were inside together: with retention 1, or two
processes pruning at once, it is false, as TLC shows.

In the same module, of `SystemLock`: `TypeCorrect`, `ExclusionUnlessRaced`. As long as nothing raced
and nobody outlived its TTL, a holder implies an active row and that every request
still acquiring is marked as overwritten (`HolderShuts`), and a request whose load is
fresh saw a free row (`FreshLoadIsFree`). Both are needed: the second lets the first
holder in, the first keeps the next one out. `RowStays` is needed for types, because an
UPDATE that leaves a column alone keeps the column of an existing row.

In the same module, of `DataRestore` (`RestoreAssumption`: archives hold typed rows and
finitely many clients): `BackupRestoresHolds`, `MergeHonestHolds`. `RestoreInv` says that
every database is typed and without dangling keys, and that a plan no change overtook is
the one the planner would make now. `PlannerSound` follows the planner from table to table:
the next id lies above all it knows, so an orphan is nobody (`OrphanSound`), and a row it
has passed names a client it knows (`ResettledSound`). For a second merge `PlannedAgain`
shows that the planner makes the same plan of what the first merge left, and `MergedAgain`
that writing it again changes nothing. The first needs that no name leads to two clients,
which had been missing from the property: the attempt to prove it without failed, and with
an archive for the case TLC shows why (section 4). That the drivers keep unique names
when no clash was met (`DriversMerged`, `DriversAlone`) is what leaves a fresh plan nothing
to fail on.

**`PipelineAndRents_proofs`**, of `UpdatePipeline`: `LedgerTrue`, under the hypothesis `~Overlap` (one run at a
time, by any process); with overlapping runs it is not claimed. The invariant follows the
revision between its three commits: the ledger is right about all but the upgrade just
committed (`ExactNow`), what is still to do is not recorded (`TodoIsNew`), and what is not
to do is (`RestIsDone`); a READY verdict follows because a run not stopped ends with
nothing to do (`EndIsDone`).

In the same module, of `DriverRents` (`RentsAssumption`): `RentsTypedHolds`,
`OwedIsEarnedHolds`, `SettledWithinOwedHolds`. `RentsInv` says that the rows of a sale carry consecutive ids in the
order of its drivers (`RowsMatch`), so that the rows of a driver add up to his parts of the
sales (`RowsAreParts`), and the old rents still counted are those of sales none of whose
live rows is his (`RowsGiveWhatIsOwed`). A payment stays on a row of its driver
(`PaymentsOnOwnRows`) because an edited sale makes its rows anew only when no payment names
them, and because a request that read such a row, and has not been crossed, still has it
(`VisitsOnOwnRows`): `SpreadIsSound` follows a settlement line by line.

`SettledWithinOwed` speaks of a step that writes what was read earlier, so its invariant
(`RentsRead`) says of every request that what it read is still so (`StillSo`): the lines it
listed are those it would list now, and what it asks for is still owed and still due, unless
another write crossed it, wrote its account (`Fresh` refuses it then) or was the same form
(`Unused` does). Every write marks the requests about the drivers it touches: the one it
pays and those of the rows it pays on, who may be others after a crossed settlement. Of any
other driver nothing is changed (`Unmoved`), so what is due on his rows stays
(`UnmovedDue`) and what he is owed does not fall (`UnmovedOwed`); it may rise, when a row
that carried another driver's payment is deleted. The write itself is followed line by line
(`LineIsPaid`): the driver is charged no more than has been paid, no row goes beyond its
rent (`Spent`), and while something is left nothing is due on the rows already passed
(`Reached`), so that a remainder, which names no row, finds none to fall on. The proof found
two things the run's bounds had hidden. A payment to one driver on another's row also
touches the latter, so a write must mark his requests too. And a restored payment is
compared with its row by the sum that was loaded (driver_payments.py:406, 414-416): when
its sum is edited in between, the restored one may exceed the row, so the property leaves
that case out.

**`GoodsAndSales_proofs`**, of `BookingPool` (`GoodsAssumption`: finitely many sales and returns):
`DeliveriesWithinBooking`, `BalancesAgree`, `GoodsConserved`, `StockTrue`. None of the four
is inductive alone. `PoolInv` adds what a request loaded that no commit has overtaken
(`KnownFresh`), that two requests never post one return (`ReturnsApart`), that not more
comes back than went out (`ReturnsCovered`), and the fact the first property rests on: what
lines deliver beyond what they hold is covered by returned goods (`OverCovered`). The
program has no such check; it follows because the second pass of the allocation is only
reached for as much as the pool grants beyond what is free (`PlanCovered`). `FillUp` and
`FillDown` say of the two passes that taking line by line takes all there is or all that is
asked for; `LeftIs` says it of the cancellation screen; `BySales` and `ByLines` add the
table of allocations up both ways.

In the same module, of `SaleSubmission` (assumptions `NobodyAssumption`, `KeysAssumption`: a minted
key is neither blank nor a fingerprint; `StockAssumption`: finitely many requests):
`TypeCorrect`, `SheetSoldOnce`, `RepliesTrue`, `KeylessTwinsExplained`,
`BillTwinsConcurrent`, `OverlapNeeded`, `DraftKept`. `IInv` adds to the type invariant
where each request stands (`Progress`), how it came by its key (`KeySettled`), the
unique index (`KeysUnique`) and what its bill check saw (`SeenDiffers`). `OwnStep`
covers every step of a request without a committed sale; only `Save` relies on the
unique index. `KeylessTwinsExplained` follows because two equal fingerprints would be equal
keys, so one of the twins was disambiguated, and that happens only in the cases named.
`OverlapNeeded` needs `StockInv`: of any committed sales one was seen by none of the
others (`SomeLast`), and the bags of a request fitted beside those of the sales it saw
(`Fits`). If of any two sales one saw the other, the last one saw all the rest, so their
bags fitted together; the sums are those of `SumTheorems`.

`RegisterImplemented` is the refinement `SaleSubmission` => `SaleRegister`: `book`,
`ever`, `asked` and `told` are mapped to `sales`, `made`, `form` and `reply`; the checks,
the write lock and the faults are stuttering, `Save` is `Record`, `Finish` and
`FinishKeepsDraft` are `Confirm` with and without the draft, refusals are `Decline`. It rests on `IInv`, whose `KeysUnique` gives the guard of
`Record`. The run checks the same property on the small instance.

**`PendingBills_proofs`** (`SourcesAssumption`: finitely many sales and bookings, by
numbers; `AmountsAssumption`: dues are natural, receipts integers): `BillsSoundHolds`,
`OldestSettledFirstHolds`, `RebuildExactHolds`. Both properties speak of the rows a rebuild
makes from whatever rows there are, so the invariant of the states is small (`BillsInv`: a
row is entered by hand, or has its source, or was added by a revert and lost its booking)
and the work is in the two folds of the rebuild. Synchronising a source touches its own
rows only (`OnlyOf`) and leaves it one posted row (`Single`); the later sources leave that
as it is (`SingleStays`). A settlement lowers what is owed by its amount, down to nothing
(`SettlementTakes`), and a row it leaves open leaves all newer ones untouched
(`NewerUntouched`); `AfterPayments` carries both along the payments. For the second rebuild
`SyncedAgain` shows that every source gets back the very row it had before the payments
(`Lowered`, `Resets`), so the same payments meet the same rows. Dues and rows are added up
by a renaming of one to the other (`DerivedOwesTheDues`).

**`SumTheorems`**: what `SumFunctionOnSet` of the community modules computes over any
finite set: `SumType`, `SumPlus`, `SumChange`, `SumZero`, `SumSame`, `SumRemove`,
`SumPart`,
`SumGrows`, `SumSplit`, `SumRenamed`, and for tables `SumRows` and `SumColumns`. The library defines it by a fold over `CHOOSE`, and its induction theorems take
operators as parameters; so the fold's function is shown to exist by the size of the
subsets it reaches, with the least counterexample in place of induction. By the same means:
`GreatestAndLeast` (`Max` and `Min` of a finite set of numbers), `EachHasItsTurn` (in a
strict order of n elements the n ranks are taken once each), `UpTo` (induction up to a
number, over a set) and `StepByStep` (a function defined from its value one step before
exists), on which every fold over rows, payments and drivers rests.

**`Records_proofs`**, of `ClientIdentity` (`ClientsAssumption`): `HistoryKept`, `ListsAgree`. The
invariant says of every document what it is found by: the name or the code of some
client row (`Anchored`), so it is never orphaned; and, while no two rows share a name,
that it carries its own client's copies or, for a row that was transferred once, those of
the client it lies with (`OwnPaper`). `CodesApart` is what keeps a transfer or a reclaim
from taking a third client's rows.

In the same module, of `ClientStatement` (`NumbersAssumption`: typed numbers are not
automatic ones, amounts of documents are natural): `StatementsAgreeHolds`. That the list of
payables is the ledger's balance (`LedgerBalance`) and that what is left of the bills adds
up to it (`RemainingUpTo`, along the bills from the oldest; `AllBillsDue`) need no more of
the state than its types: they are about the formulas. That the page and the documents say
the same rests on `StatementInv`: until a request parts an entry from its booking no typed
number stands twice and every entry names a booking of the client by its present number.
Then each entry is found by one booking, under the number the page asks for alone
(`EntriesOfBooking`), so the credits of the bookings are the entries, added up both ways
(`CreditsAreEntries`), and what a cancellation took from the goods comes back as the
booking's former value (`BalanceOfDocuments`).

In the same module, of `AccountClosing` (`ClosingAssumption`: finitely many postings, a
day has an instant): `PeriodsKept`, `ClosingsExpectBalance`, `LockedDaysFrozen`.
`ClosingInv` says that the stored balance is the sum of all postings and adjustments
(`BalanceIs`); that a payment which loaded the account and is dated in a closed period is
either late for its version or meets a closing without an adjustment (`Guarded`), which is
why the guard may be read before the write; and that what a closing counted is the opening
balance and what its period holds (`Chain`), so the next may start from it. Sums over a
period are split at the ends of closings and days (`SumOfSplit`); a step that posts moves
them by what its slip counts in the period (`SumOfMoves`). What the board expects of a day
depends on the postings up to its end and the earlier locked days only (`ExpectedSame`).

**`AccountLedger_proofs`** (`LedgerAssumption`: finitely many documents, positive amounts, any
openings, cash accounts are not bank accounts): `RowsKeptInLine`, `EditsSeeTheirForm`,
`BalancesExact`, `NothingOverdrawn`, `BoardTrue`. `IInv` says that a request about to write
a payment holds a version of it that the UPDATE compares, and each document's row is in line
(`RowInLine`). `MoneyInv` adds that a copy about to be written has the stored balance or an
older version (`CopyFresh`) and that what a request compared with a balance is covered by it
(`Covers`); then a write moves the stored balance by what the row of one document moves,
which `SumChange` says of the sum. What is taken out of an account beyond what was compared
puts it among the `owing`, so `NothingOverdrawn` speaks of each account alone. `BoardTrue` adds
the sources up row by row; a direct entry keeps the sides it was posted with until an edit
widens it (`SidesKept`).

Model-checked only:

* liveness (`LockRecovered`, `Converges`, `CrashSafetyUnlessRaced`): fairness and `ENABLED`
  are out of the provers' reach;
* `RegistrySound`: its module uses `RECURSIVE` operators;
* `WipeSound`: the statements of a wipe are computed from the concrete table of datasets.

## 6. Simplifications and what is not modelled

* `GrnLots`: one line per GRN, one material; costs, suppliers' balances and stock
  entries are left out. What no lot covers allocates nothing, as in the code.
* `SaleSubmission`: categories, prices, invoices, rents and delivery rows are data of
  `Save`; editing a sale is not a request here. Stock is one number.
* `BillNumbers`: invoices and derived bills are found behind their document; entries'
  numbers and the repair of orphaned entries are left out, and so is the failure of the
  flush inside the check (section 4).
* `BookingPool`: the money of a booking and dangling allocations are left out.
* `PendingBills`: one client, no renames; hand edits act on active rows only.
  `ClientStatement`: rate 1, one line per booking, one sale, one payment, one bill by
  hand; automatic numbers are ids, and a deleted last id is used again, as SQLite does.
* `AccountLedger`: loan accounts, payments without an amount, the receipt of a sale and
  rows of a payment that was voided and created again are left out. `AccountClosing`:
  entries stand for cash-flow entries and direct postings alike. `DriverRents`: a
  settlement is all money or all waive-off, forms always carry their key, rows without
  rent are left out, voiding a payment is one step, and the row for an unallocated
  payment is picked when it is written. Sales are never void: nothing voids one and keeps it.
* `ImportJobs`: rows that wait for a commit hold the write lock; here others go on.
* `DataRestore`: one row per table besides clients and drivers, the drivers standing for every
  table with a unique column; optional references (a payment's account, a waive-off's payment) and
  their blanking when the target is missing (planner.py:343-367), coercion of values, the xlsx export
  and the snapshot that replaces the database file are left out. `DataWipe`: the
  preview and the disabled pre-wipe backups are left out.
* `ModuleRegistry`: the checks of a manifest are one fact; orphans, duplicate ids and
  blueprints the factory mounted before are left out.
* `UpdatePipeline`: the report and the content of each check are left out; the two
  read-only modes change nothing. Two overlapping runs are modelled and not run.
* `SystemLock`: the wipe is one step, and time is "below" or "above" the TTL.
* The supplier ledger, reports, the row-by-row conversion of worksheets, the older
  drawer and reconciliation pages, permissions and rendering are not modelled: they keep
  no state of their own whose correctness depends on order.

## 7. Left of the plan

1. An abstract mutex that `SystemLock` implements while nothing races, and a migration
   log as a sequence that `UpdatePipeline` implements without losses.
2. The composition of `SaleSubmission`, `GrnLots` and `BookingPool`: one save over three
   states.
