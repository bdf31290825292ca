----------------------------- MODULE DataRestore -----------------------------
(***************************************************************************)
(* Merging a JSON archive into the base database: the plan made from the   *)
(* archive and the database, the safety backup, the one transaction that   *)
(* writes the plan, and the verification after its commit (data_ops/,      *)
(* app/services/data_center_service.py).                                   *)
(*                                                                         *)
(* The tables differ in how they name their client: a payment by id and    *)
(* name, a sale by name, an FBM rental by an id of another table that is   *)
(* also called client_id.  A sale owns its item and not the allocation.    *)
(* The drivers stand for every table with a unique column besides the id:  *)
(* delivery_person.name, the idempotency keys of payments and sales.       *)
(***************************************************************************)
EXTENDS Naturals, Sequences, FiniteSets, Functions, FiniteSetsExt, SequencesExt, TLC

CONSTANTS
    Names,       \* names of clients and of drivers
    Stranger,    \* a name no client has
    Blank,       \* no name
    MaxId,       \* bound on the ids of clients: no plan is made above it
    Persons,     \* bound on the ids of FBM clients
    Foreign,     \* archives made from other databases
    MaxChanges   \* bound on what users do

VARIABLES
    base,      \* the live database
    archive,   \* the JSON file at hand
    merge,     \* where the restore stands
    answer,    \* what the page answered last: "none", "done" or "refused"
    changes    \* users' changes so far

restoreVars == <<base, archive, merge, answer, changes>>

Ids == 1..MaxId
NoRow == [on |-> FALSE, cid |-> 0, text |-> Blank, void |-> FALSE]
Paper(c, t) == [on |-> TRUE, cid |-> c, text |-> t, void |-> FALSE]
Empty == [client |-> <<>>, fbm |-> 0, payment |-> NoRow, sale |-> NoRow,
          item |-> FALSE, alloc |-> FALSE, rental |-> NoRow, driver |-> <<>>]
\* A sale of a database whose voids were soft, with its rows.
VoidSale == [Empty EXCEPT !.sale = [Paper(0, Blank) EXCEPT !.void = TRUE],
                          !.item = TRUE, !.alloc = TRUE]
OrphanName(n) == <<"Orphan1", "Orphan2", "Orphan3">>[n]

\* What the tables hold: a row that is not there is empty, a sale has no client_id
\* and a rental no name, ids are those of rows, and no two drivers have one name.
RowTyped(row) ==
    /\ row = [on |-> row.on, cid |-> row.cid, text |-> row.text, void |-> row.void]
    /\ {row.on, row.void} \subseteq BOOLEAN /\ row.cid \in Nat
    /\ ~row.on => row = NoRow
DriversTyped(f) ==
    f = [d \in DOMAIN f |-> f[d]] /\ DOMAIN f \subseteq Nat \ {0} /\ IsInjective(f)
DatabaseTyped(D) ==
    /\ D = [client |-> D.client, fbm |-> D.fbm, payment |-> D.payment, sale |-> D.sale,
            item |-> D.item, alloc |-> D.alloc, rental |-> D.rental, driver |-> D.driver]
    /\ D.client = [c \in DOMAIN D.client |-> D.client[c]]
    /\ DOMAIN D.client \subseteq Nat \ {0} /\ IsFiniteSet(DOMAIN D.client)
    /\ D.fbm \in Nat /\ {D.item, D.alloc} \subseteq BOOLEAN
    /\ RowTyped(D.payment) /\ RowTyped(D.sale) /\ RowTyped(D.rental)
    /\ D.sale.cid = 0 /\ D.rental.text = Blank
    /\ DriversTyped(D.driver)
ASSUME RestoreAssumption ==
    /\ {MaxId, Persons, MaxChanges} \subseteq Nat
    /\ \A A \in Foreign : DatabaseTyped(A)

IdleMerge == [pc |-> "idle"]

RestoreInit ==
    /\ base \in {Empty, VoidSale}
    /\ archive \in Foreign \cup {Empty}
    /\ merge = IdleMerge /\ answer = "none" /\ changes = 0

Larger(a, b) == IF a > b THEN a ELSE b
MaxKey(S) == IF S = {} THEN 0 ELSE Max(S)
\* the rows of f over those of g
With(f, g) == [x \in DOMAIN f \cup DOMAIN g |-> IF x \in DOMAIN f THEN f[x] ELSE g[x]]
NamesOf(D) == {D.client[c] : c \in DOMAIN D.client}
ClientsNamed(D, n) == {c \in DOMAIN D.client : D.client[c] = n}

------------------------------------------------------------------------------
(* The plan.                                                               *)

Kept(row) == IF row.void THEN NoRow ELSE row
VoidedSale(A) == A.sale.on /\ A.sale.void

\* Faulty variant: the archive's own clients are not looked up.
ExistingLive(A, L) == [n \in NamesOf(L) |-> Max(ClientsNamed(L, n))]

\* existing_clients: the last live row of a name, else the archive's first.
Existing(A, L) ==
    [n \in NamesOf(L) \cup NamesOf(A) |->
        IF ClientsNamed(L, n) # {} THEN Max(ClientsNamed(L, n)) ELSE Min(ClientsNamed(A, n))]

\* _client_identity
Identity(row) == IF row.text # Blank THEN row.text ELSE "id:" \o ToString(row.cid)

\* Faulty variant: the database's clients are not counted.
HighestIdInFile(A, L) == MaxKey(DOMAIN A.client)

HighestId(A, L) == MaxKey(DOMAIN L.client \cup DOMAIN A.client)

Start(A, L) == [known |-> DOMAIN L.client \cup DOMAIN A.client, index |-> Existing(A, L),
                top |-> HighestId(A, L), made |-> <<>>]

\* missing_id or missing_text
NeedsClient(s, row) ==
    row.on /\ \/ row.cid # 0 /\ row.cid \notin s.known
              \/ row.text # Blank /\ row.text \notin DOMAIN s.index

\* ensure_orphan, for a row that needs it
WithOrphan(s, row) ==
    IF ~NeedsClient(s, row) \/ Identity(row) \in DOMAIN s.index THEN s
    ELSE LET names == {Identity(row), OrphanName(Len(s.made) + 1)}
         IN [known |-> s.known \cup {s.top + 1}, top |-> s.top + 1,
             made  |-> Append(s.made, s.top + 1),
             index |-> With([n \in names |-> s.top + 1], s.index)]

\* The client a row is written for, when the table has a client_id.
Resettled(before, after, row) ==
    IF NeedsClient(before, row) THEN [row EXCEPT !.cid = after.index[Identity(row)]] ELSE row

\* build_plan, in the order of the archive's tables
BuildPlan(A, L) ==
    LET sale == Kept(A.sale)
        pay  == Kept(A.payment)
        item == A.item /\ ~VoidedSale(A)
        s0 == Start(A, L)
        s1 == WithOrphan(s0, sale)
        s2 == WithOrphan(s1, A.rental)
        s3 == WithOrphan(s2, pay)
        rental == Resettled(s1, s2, A.rental)
        orphans == [c \in Range(s3.made) |->
                       OrphanName(CHOOSE n \in DOMAIN s3.made : s3.made[n] = c)]
    IN [client |-> With(orphans, A.client), fbm |-> A.fbm, sale |-> sale, item |-> item,
        alloc |-> A.alloc, rental |-> rental, payment |-> Resettled(s2, s3, pay),
        driver |-> A.driver, made |-> Range(s3.made)]

\* Faulty variant: of an allocation only the item is looked up.
ResolvableByItem(P, L) ==
    /\ P.item \/ P.alloc => L.item \/ P.item
    /\ P.item => L.sale.on \/ P.sale.on
    /\ P.rental.on => P.rental.cid \in 1..Larger(P.fbm, L.fbm)

\* fk_forbidden: every required reference is in the file or in the database.
Resolvable(P, L) ==
    /\ P.item \/ P.alloc => L.sale.on \/ P.sale.on
    /\ P.alloc => L.item \/ P.item
    /\ P.rental.on => P.rental.cid \in 1..Larger(P.fbm, L.fbm)

------------------------------------------------------------------------------
(* The transaction.                                                        *)

Over(new, old) == IF new.on THEN new ELSE old

\* _upsert_row for every row of the plan
Merged(P, L) ==
    [client |-> With(P.client, L.client), fbm |-> Larger(P.fbm, L.fbm),
     payment |-> Over(P.payment, L.payment), sale |-> Over(P.sale, L.sale),
     item |-> P.item \/ L.item, alloc |-> P.alloc \/ L.alloc, rental |-> Over(P.rental, L.rental),
     driver |-> With(P.driver, L.driver)]

\* The upsert meets a conflict of ids only.  Rows are written in the order of their ids:
\* one whose unique name another row has by then raises.
Clash(new, old) ==
    \E d \in DOMAIN new, e \in DOMAIN old :
        new[d] = old[e] /\ e # d /\ ~(e \in DOMAIN new /\ e < d)

\* PRAGMA foreign_key_check
FkClean(D) ==
    /\ D.payment.cid \in DOMAIN D.client \cup {0}
    /\ D.rental.cid \in 0..D.fbm
    /\ D.item => D.sale.on
    /\ D.alloc => D.sale.on /\ D.item

\* verify_database takes every client_id for a client's.
OddRental(D) == D.rental.cid \notin DOMAIN D.client \cup {0}
Verified(D) == FkClean(D) /\ ~OddRental(D)

\* The transaction reaches its commit.
Lands(P, L) == ~Clash(P.driver, L.driver) /\ FkClean(Merged(P, L))

------------------------------------------------------------------------------
\* execute_restore: the plan is made in autocommit, before the safety backup.
PlanRestore ==
    /\ merge.pc = "idle" /\ DOMAIN base.client \subseteq Ids
    /\ LET P == BuildPlan(archive, base)
       IN IF Resolvable(P, base)
          THEN merge' = [pc |-> "planned", plan |-> P, stale |-> FALSE] /\ answer' = "none"
          ELSE answer' = "refused" /\ UNCHANGED merge
    /\ UNCHANGED <<base, archive, changes>>

\* An unknown table or column, a newer format or a bad value; or the safety backup fails.
RestoreRefused ==
    /\ merge.pc \in {"idle", "planned"}
    /\ merge' = IdleMerge /\ UNCHANGED base /\ answer' = "refused"
    /\ UNCHANGED <<archive, changes>>

\* apply_plan: commit and verification, or rollback.
ApplyPlan ==
    /\ merge.pc = "planned"
    /\ LET D == Merged(merge.plan, base)
       IN IF Lands(merge.plan, base)
          THEN /\ base' = D
               /\ answer' = IF Verified(D) THEN "done" ELSE "refused"
          ELSE /\ UNCHANGED base /\ answer' = "refused"
    /\ merge' = IdleMerge
    /\ UNCHANGED <<archive, changes>>

\* export_json: all tables, or a group without the clients
ExportArchive(full) ==
    /\ merge.pc = "idle"
    /\ archive' = IF full THEN base ELSE [base EXCEPT !.client = <<>>]
    /\ answer' = "none"
    /\ UNCHANGED <<base, merge, changes>>

------------------------------------------------------------------------------
(* What users do meanwhile.                                                *)

UserChanges(D) ==
    /\ changes < MaxChanges /\ D # base
    /\ base' = D /\ changes' = changes + 1
    /\ merge' = IF merge.pc = "idle" THEN merge ELSE [merge EXCEPT !.stale = TRUE]
    /\ answer' = "none"
    /\ UNCHANGED archive

NewClient(n) ==
    LET c == MaxKey(DOMAIN base.client) + 1
    IN /\ c \in Ids /\ n \notin NamesOf(base)
       /\ UserChanges([base EXCEPT !.client = With([x \in {c} |-> n], @)])

\* The sales are renamed along, a payment keeps the name it was made with.
RenameClient(c, n) ==
    /\ c \in DOMAIN base.client /\ n \notin NamesOf(base)
    /\ UserChanges([base EXCEPT !.client[c] = n,
                               !.sale.text = IF base.sale.on /\ @ = base.client[c] THEN n ELSE @])

PostPayment(c) ==
    /\ ~base.payment.on /\ c \in DOMAIN base.client
    /\ UserChanges([base EXCEPT !.payment = Paper(c, base.client[c])])
PostSale(t, booked) ==
    /\ ~base.sale.on
    /\ UserChanges([base EXCEPT !.sale = Paper(0, t), !.item = TRUE, !.alloc = booked])
RentOut(p) ==
    /\ ~base.rental.on /\ p \in {base.fbm, base.fbm + 1} \cap (1..Persons)
    /\ UserChanges([base EXCEPT !.fbm = p, !.rental = Paper(p, Blank)])
NewDriver(n) ==
    LET d == MaxKey(DOMAIN base.driver) + 1
    IN /\ d \in Ids /\ n \notin Range(base.driver)
       /\ UserChanges([base EXCEPT !.driver = With([x \in {d} |-> n], @)])
RenameDriver(d, n) ==
    /\ d \in DOMAIN base.driver /\ n \notin Range(base.driver)
    /\ UserChanges([base EXCEPT !.driver[d] = n])
RemovePayment == base.payment.on /\ UserChanges([base EXCEPT !.payment = NoRow])
RemoveSale ==
    base.sale.on /\ UserChanges([base EXCEPT !.sale = NoRow, !.item = FALSE, !.alloc = FALSE])

RestoreNext ==
    \/ PlanRestore \/ RestoreRefused \/ ApplyPlan
    \/ \E full \in BOOLEAN : ExportArchive(full)
    \/ \E n \in Names : \/ NewClient(n) \/ \E c \in Ids : RenameClient(c, n)
                       \/ NewDriver(n) \/ \E d \in Ids : RenameDriver(d, n)
    \/ \E c \in Ids : PostPayment(c)
    \/ \E t \in NamesOf(base) \cup {Stranger}, b \in BOOLEAN : PostSale(t, b)
    \/ \E p \in 1..Persons : RentOut(p)
    \/ RemovePayment \/ RemoveSale

RestoreSpec == RestoreInit /\ [][RestoreNext]_restoreVars

------------------------------------------------------------------------------
\* A row that a plan gives to an orphan: it names nobody, or is a rental.
Strays(D) ==
    \/ \E row \in {Kept(D.payment), Kept(D.sale)} : row.text \notin NamesOf(D) \cup {Blank}
    \/ OddRental(D)

\* A driver of the archive has the name of another one of the database.
NameTaken(A, L) == \E d \in DOMAIN A.driver, e \in DOMAIN L.driver : A.driver[d] = L.driver[e] /\ d # e

\* What a run answers is so.  "Restore was rolled back (nothing changed)"
\* (_pages_dc_restore.py:142) is true unless an FBM rental's client_id is no client's, which
\* the verification finds after the commit (engine.py:130-147).  Unless the database
\* changed under it, the id chosen for an orphan being a new client's by then, a plan is
\* written in full once it was made (planner.py:15-16), but for a unique value that another
\* row has, which nobody looks for (engine.py:95), and replaces no client that the archive
\* does not hold (docs/DATA_CENTER.md:79).
MergeHonest ==
    [][ApplyPlan =>
          /\ answer' = "refused" /\ base' # base => OddRental(base')
          /\ ~merge.stale =>
                /\ base' = Merged(merge.plan, base) \/ NameTaken(archive, base)
                /\ \A c \in DOMAIN base.client \ DOMAIN archive.client :
                       base'.client[c] = base.client[c]]_restoreVars

Restored(A, L) == Merged(BuildPlan(A, L), L)
Overwrites(A, L) == \E c \in DOMAIN A.client \cap DOMAIN L.client : A.client[c] # L.client[c]
WithoutVoids(D) ==
    [D EXCEPT !.payment = Kept(@), !.sale = Kept(@), !.item = @ /\ ~VoidedSale(D)]
Takes(A, L) == LET P == BuildPlan(A, L) IN Resolvable(P, L) /\ ~Clash(P.driver, L.driver)

\* A row whose id is nobody's is given to its name's client: to the live one at the
\* first merge, to the one that came with the archive at the second.
Ambiguous(A, L) ==
    \E row \in {Kept(A.payment), A.rental} :
        /\ row.cid \notin DOMAIN A.client \cup DOMAIN L.client \cup {0}
        /\ \E c, d \in ClientsNamed(A, Identity(row)) \cup ClientsNamed(L, Identity(row)) : c # d

\* A merge can be repeated (backup_ops.py:136 "Safe to run twice"): the second changes
\* nothing, unless the first made an orphan, put a client in the place of another, or
\* found a client by a name that two have.
\* A backup merged into the database it was taken from changes nothing, and brings
\* back all that was not void to an emptied one, unless a document strays or a void
\* sale has allocations.
BackupRestores ==
    /\ LET P == BuildPlan(archive, base)
           D == Merged(P, base)
       IN Takes(archive, base) /\ P.made = {} /\ ~(Overwrites(archive, base) \/ Ambiguous(archive, base))
              => Takes(archive, D) /\ Restored(archive, D) = D
    /\ ~Strays(base) => Takes(base, base) /\ Restored(base, base) = base
    /\ ~Strays(base) /\ ~(VoidedSale(base) /\ base.alloc)
           => Takes(base, Empty) /\ Restored(base, Empty) = WithoutVoids(base)
=============================================================================
