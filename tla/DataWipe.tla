------------------------------ MODULE DataWipe ------------------------------
(***************************************************************************)
(* Erasing chosen datasets (_wipe_delete_selected_data.py), the emergency  *)
(* wipe of the accounts domain, and the start-up guard against lost rows   *)
(* (services/wipe.py, services/health.py).                                 *)
(*                                                                         *)
(* A class of rows is a table, or the part of one that a filter of the     *)
(* wipe tells apart; a database is the classes that hold rows and the      *)
(* foreign keys that rows use.  Foreign keys are checked by SQLite at the  *)
(* end of each statement.  Accounts have no opening balance.               *)
(***************************************************************************)
EXTENDS Naturals, Sequences, FiniteSets, SequencesExt

CONSTANTS
    Selections,  \* the selections of datasets that are tried
    MaxWipes     \* bound on the wipes

VARIABLES
    store,     \* the database
    wipe,      \* the request
    baseline,  \* what the health snapshot counted
    wipes      \* wipes so far

wipeVars == <<store, wipe, baseline, wipes>>

------------------------------------------------------------------------------
(* The database.                                                           *)

Pending == {"bill of a sale", "bill of a booking", "bill of a payment", "bill by hand"}
Movements == {"entry of a sale", "entry of a return", "entry of a GRN", "received", "dispatched"}
Entries == Movements \cup {"cancelled booking"}
SalePosting == "posting of a driver payment on sale"
DriverPostings == {SalePosting, "posting of a driver payment"}
CashPosting == "posting of a cash entry"
Ledger == DriverPostings \cup {CashPosting, "posting of a payment", "posting by hand"}
DriverPayments == {"driver payment on sale", "driver payment"}
ClientPayments == {"payment", "payment of a return"}
Invoices == {"invoice of a sale", "invoice of an entry"}
Waivers == {"waiver", "waiver of a return"}
Drawer == {"drawer", "drawer category"}

\* Nullable references that wipes may unlink, and references that need their row.
Optional ==
    ({"sale"} \X {"invoice of a sale", "account"})
    \cup ({"received"} \X Invoices)
    \cup {<<"sale item", "GRN item">>, <<"rent", "sale">>, <<"return", "payment of a return">>,
          <<"posting by hand", "reconciliation">>,
          <<"material", "material category">>}
    \cup ({"cash entry"} \X {"account", "cash category", CashPosting})
    \cup ({"GRN"} \X {"supplier", "account"})
    \cup ({"account"} \X {"client", "supplier"})
    \cup (ClientPayments \X {"client"})
    \cup ((ClientPayments \cup DriverPayments \cup {"supplier payment", "rental", "booking"} \cup Ledger)
             \X {"account"})
Required ==
    ({"follow-up"} \X Pending)
    \cup ({"lot use", "booking use"} \X {"sale", "sale item"})
    \cup {<<"waiver", "payment">>, <<"waiver of a return", "payment of a return">>}
    \cup (DriverPayments \X {"driver"})
    \cup ({"rental"} \X {"renter", "rental item"})
    \cup {<<"lot use", "GRN item">>, <<"booking use", "booking item">>, <<"sale item", "sale">>,
          <<"booking item", "booking">>, <<"GRN item", "GRN">>, <<"return item", "return">>,
          <<"on duty", "sale">>, <<"on duty", "driver">>,
          <<"driver payment on sale", "sale">>, <<"driver payment on sale", "on duty">>,
          <<"supplier payment", "supplier">>, <<"reconciliation", "account">>,
          <<"cash audit", "cash entry">>, <<"difference audit", "difference">>,
          <<"delivery item", "delivery">>}

Classes ==
    {r[1] : r \in Optional \cup Required} \cup {r[2] : r \in Optional \cup Required}
    \cup Entries \cup Drawer
    \cup {"draft", "basket", "staff e-mail", "account category", "locked day"}

\* A filled database: every class has rows, every reference but `spare` is used.
Filled(spare) ==
    [rows |-> Classes, refs |-> (Optional \cup Required) \ spare,
     balanced |-> TRUE,    \* balances are the sums of the ledger
     counted  |-> TRUE]    \* material totals are the sums of the movements

\* The references that only some databases have.
Spares ==
    {{}} \cup
    { {"follow-up"} \X Pending, {<<"received", "invoice of a sale">>},
      ({"follow-up"} \X Pending) \cup {<<"received", "invoice of a sale">>},
      {<<"difference audit", "difference">>, <<"cash entry", CashPosting>>},
      {<<"difference audit", "difference">>, <<"cash entry", CashPosting>>}
          \cup ({"sale", "GRN", "rental"} \X {"account"}) }

------------------------------------------------------------------------------
(* Statements.                                                             *)

NoEffect == [drop |-> {}, cut |-> {}, effect |-> "none", quiet |-> FALSE]
Delete(S) == [NoEffect EXCEPT !.drop = S]
Unlink(R) == [NoEffect EXCEPT !.cut = R]
VoidThenDelete(S) == [NoEffect EXCEPT !.drop = S, !.effect = "reversed"]   \* _void_account_tx first
ResetBalances == [NoEffect EXCEPT !.effect = "zero"]
RebuildTotals == [NoEffect EXCEPT !.effect = "totals"]
Quiet(s) == [s EXCEPT !.quiet = TRUE]     \* try: ... except: pass

\* A row that stays needs one that goes.
Refused(s, db) ==
    \E r \in db.refs : r[1] \in db.rows \ s.drop /\ r[2] \in db.rows \cap s.drop

Executed(s, db) ==
    LET rows == db.rows \ s.drop
        lost == db.rows \cap s.drop
    IN [rows |-> rows,
        refs |-> {r \in db.refs \ s.cut : r[1] \in rows},
        balanced |-> CASE s.effect = "zero" -> rows \cap Ledger = {}
                       [] s.effect = "reversed" -> db.balanced
                       [] OTHER -> db.balanced /\ lost \cap Ledger = {},
        counted |-> s.effect = "totals" \/ (db.counted /\ lost \cap Movements = {})]

\* The statements one after the other; the first refused one ends the transaction.
RunScript(script, db) ==
    FoldLeft(LAMBDA x, s : IF x.failed THEN x
                           ELSE IF ~Refused(s, x.db) THEN [x EXCEPT !.db = Executed(s, x.db)]
                           ELSE IF s.quiet THEN x ELSE [x EXCEPT !.failed = TRUE],
             [db |-> db, failed |-> FALSE], script)
------------------------------------------------------------------------------
(* The scripts.                                                            *)

\* Faulty variant: the postings go without a reversal.
PurgeUnreversed(payments, postings) == <<Delete(postings), Delete(payments)>>

\* _purge_driver_payment_ledger, and then the payments themselves
PurgeDrivers(payments, postings) == <<VoidThenDelete(postings), Delete(payments)>>

\* Follow-ups before the bills they are about.
DropFollowUps == Delete({"follow-up"})

\* The statements of each dataset, in the order of the page: documents and masters...
Documents == <<
    <<"pending_bills",   <<DropFollowUps, Delete(Pending)>>>>,
    <<"notifications",   <<DropFollowUps, Delete({"staff e-mail"})>>>>,
    <<"dispatching",     <<Delete({"dispatched", "entry of a sale"}), Delete({"delivery item"}),
                           Delete({"delivery"})>>>>,
    <<"receiving",       <<Delete({"received", "entry of a return", "entry of a GRN"})>>>>,
    <<"grn",             <<Delete({"lot use"}), Unlink({<<"sale item", "GRN item">>}),
                           Delete({"GRN item"}), Delete({"GRN"})>>>>,
    <<"entry",           <<Delete(Entries)>>>>,
    <<"supplier_payments", <<Delete({"supplier payment"})>>>>,
    <<"suppliers",       <<Unlink({"GRN", "account"} \X {"supplier"}),
                           Delete({"supplier payment"}), Delete({"supplier"})>>>>,
    <<"direct_sales",    PurgeDrivers({"driver payment on sale"}, {SalePosting})
                         \o <<Delete({"rent"}), Delete({"on duty"}), Delete({"lot use"}),
                              Delete({"booking use"}), Delete({"sale item"}), Delete({"sale"}),
                              Delete({"entry of a sale"}), Delete({"bill of a sale"}),
                              Delete({"invoice of a sale"})>>>>,
    <<"material_returns", <<Delete({"return item"}), Delete({"return"}),
                           Delete({"entry of a return"}),
                           Delete({"waiver of a return"}),
                           Delete({"payment of a return"})>>>>,
    <<"payments",        <<Unlink({<<"return", "payment of a return">>}), Delete(Waivers),
                           Delete(ClientPayments), Delete({"bill of a payment"})>>>>,
    <<"delivery_rents",  PurgeDrivers(DriverPayments, DriverPostings)
                         \o <<Delete({"rent"}), Delete({"on duty"})>>>>,
    <<"delivery_persons", PurgeDrivers(DriverPayments, DriverPostings)
                         \o <<Delete({"on duty"}), Delete({"driver"})>>>>,
    <<"bookings",        <<Delete({"booking use"}), Delete({"booking item"}), Delete({"booking"}),
                           Delete({"bill of a booking"})>>>>,
    <<"invoices",        <<Unlink({"sale", "received"} \X Invoices), Delete(Invoices)>>>>,
    <<"materials",       <<Delete({"material"})>>>>,
    <<"material_categories", <<Unlink({<<"material", "material category">>}),
                           Delete({"material category"})>>>>,
    <<"clients",         <<Unlink({<<"account", "client">>}), Delete({"client"}),
                           Delete({"basket"})>>>> >>

\* ... and then cash, rentals and accounts.
CashAndAccounts == <<
    <<"cash_reconciliation_audit", <<Delete({"difference audit"})>>>>,
    <<"cash_reconciliation_data", <<Delete({"difference audit"}), Delete({"difference"})>>>>,
    <<"account_transactions", <<Unlink({<<"cash entry", CashPosting>>}), Delete(Ledger)>>>>,
    <<"account_reconciliations", <<Unlink({<<"posting by hand", "reconciliation">>}),
                           Delete({"reconciliation"})>>>>,
    <<"cash_flow_entries", <<Delete({"cash audit"}), Delete({"cash entry"})>>>>,
    <<"cash_flow_categories", <<Unlink({<<"cash entry", "cash category">>}),
                           Delete({"cash category"})>>>>,
    <<"cash_drawer_entries", <<Delete({"drawer"})>>>>,
    <<"cash_drawer_categories", <<Delete({"drawer category"})>>>>,
    <<"delivery_person_payments", PurgeDrivers(DriverPayments, DriverPostings)>>,
    <<"direct_sale_drafts", <<Delete({"draft"})>>>>,
    <<"fbm_rentals",     <<Delete({"rental"})>>>>,
    <<"fbm_rental_clients", <<Delete({"rental"}), Delete({"renter"})>>>>,
    <<"fbm_rental_items", <<Delete({"rental"}), Delete({"rental item"})>>>>,
    <<"account_categories", <<Delete({"account category"})>>>>,
    <<"accounts",        <<Unlink((ClientPayments \cup {"supplier payment", "GRN", "sale", "rental"})
                                      \X {"account"}),
                           Quiet(Delete(Ledger)), Quiet(Delete({"drawer"})),
                           Quiet(Delete({"difference audit"})), Quiet(Delete({"difference"})),
                           Unlink({<<"cash entry", CashPosting>>}), ResetBalances>>>>,
    <<"accounts_domain_wipe", <<Quiet(Unlink({<<"cash entry", CashPosting>>})),
                           Quiet(Delete(Ledger)), Quiet(Delete({"drawer"})),
                           Quiet(Delete({"drawer category"})),
                           Quiet(Delete({"difference audit"})), Quiet(Delete({"difference"})),
                           Unlink((ClientPayments \cup {"supplier payment"}) \X {"account"}),
                           ResetBalances>>>> >>

Datasets == Documents \o CashAndAccounts

\* What a dataset brings along, one level deep.
WipeRegistry(t) ==
    CASE t = "clients" -> {"bookings", "pending_bills", "payments", "direct_sales", "entry",
             "fbm_rental_clients", "accounts", "account_transactions", "accounts_domain_wipe"}
      [] t = "suppliers" ->
             {"grn", "supplier_payments", "payments", "invoices", "accounts_domain_wipe"}
      [] t = "direct_sales" -> {"entry", "invoices", "delivery_person_payments", "pending_bills",
             "payments", "accounts_domain_wipe"}
      [] t = "accounts" -> {"account_transactions", "account_reconciliations",
             "cash_flow_entries", "payments", "supplier_payments", "grn", "direct_sales",
             "fbm_rentals"}
      [] t = "payments" -> {"supplier_payments", "delivery_person_payments", "pending_bills",
             "account_transactions", "accounts_domain_wipe"}
      [] t = "invoices" -> {"direct_sales", "entry", "pending_bills", "accounts_domain_wipe"}
      [] t = "bookings" -> {"pending_bills", "accounts_domain_wipe"}
      [] t \in {"pending_bills", "supplier_payments"} -> {"accounts_domain_wipe"}
      [] OTHER -> {}

Expanded(sel) == sel \cup UNION {WipeRegistry(t) : t \in sel}

FullSet == {"clients", "suppliers", "supplier_payments", "pending_bills", "dispatching",
            "receiving", "grn", "materials", "material_categories", "direct_sales",
            "material_returns", "delivery_rents", "delivery_persons", "invoices", "payments",
            "bookings", "notifications"}

\* Everything, children before the rows they need.
FullScript ==
    <<DropFollowUps, Delete({"staff e-mail"}), Delete(Pending), Delete({"delivery item"}),
      Delete({"delivery"}), Delete(Entries), Delete({"lot use"}), Delete({"booking use"}),
      Delete({"sale item"}), Delete({"GRN item"}), Delete({"GRN"})>>
    \o PurgeDrivers(DriverPayments, DriverPostings)
    \o <<Delete({"on duty"}), Delete({"rent"}), Delete(Waivers), Delete({"return item"}),
         Delete({"return"}), Delete(ClientPayments), Delete({"supplier payment"}),
         Delete({"sale"}), Delete({"draft"}), Delete({"booking item"}), Delete({"booking"}),
         Delete(Invoices), Delete({"basket"}), Delete({"rental"}), Delete({"renter"}),
         Delete({"rental item"}), Delete({"cash audit"}), Delete({"cash entry"}),
         Delete(Ledger), Delete({"reconciliation"}), Delete({"drawer"}),
         Delete({"drawer category"}), Delete({"difference audit"}), Delete({"difference"}),
         Delete({"cash category"}), Delete({"account category"}), Delete({"account"}),
         Delete({"supplier"}), Delete({"client"}), Delete({"driver"}), Delete({"material"}),
         Delete({"material category"})>>

\* Invoices that neither a sale nor an entry names are cleaned up after every wipe.
OrphanInvoices(db) == {i \in Invoices : ~\E r \in db.refs : r[2] = i}

SelectiveScript(targets) ==
    FlattenSeq([n \in DOMAIN Datasets |->
                   IF Datasets[n][1] \in targets THEN Datasets[n][2] ELSE <<>>])

\* What the request makes of the database.
Wiped(targets, db) ==
    IF FullSet \subseteq targets THEN RunScript(FullScript, db)
    ELSE LET x == RunScript(SelectiveScript(targets), db)
             clean == Executed(Delete(OrphanInvoices(x.db)), x.db)
         IN IF x.failed THEN x
            ELSE [failed |-> FALSE,
                  db |-> IF targets \cap {"entry", "direct_sales", "grn", "materials", "material_returns"} # {}
                         THEN Executed(RebuildTotals, clean) ELSE clean]

\* execute_domain_wipe('accounts_domain') and accounts_domain_post_reset
DomainScript ==
    <<Delete(Ledger), Delete({"drawer"}), Delete({"drawer category"}), Delete({"difference"}),
      Delete({"difference audit"}),
      Unlink((ClientPayments \cup {"supplier payment"}) \X {"account"}), ResetBalances>>

\* verify_accounts_domain_wipe_integrity
DomainVerified(db) ==
    /\ db.rows \cap (Ledger \cup Drawer \cup {"difference", "difference audit"}) = {}
    /\ ~\E r \in db.refs : /\ r[2] = "account"
                           /\ r[1] \in ClientPayments \cup {"supplier payment", "sale", "GRN", "rental"}

------------------------------------------------------------------------------
(* The request.                                                            *)

Forbidden == {"clients", "materials", "pending_bills", "dispatching", "receiving",
              "direct_sales", "material_returns", "payments", "bookings", "invoices",
              "delivery_person_payments", "fbm_rental_clients", "fbm_rentals"}

\* late: history, what failed after the commit
IdleWipe(reply) ==
    [pc |-> "idle", reply |-> reply, kind |-> "none", targets |-> {}, late |-> "nothing"]
Begun(kind, targets) == [IdleWipe("none") EXCEPT !.pc = "begun", !.kind = kind, !.targets = targets]

\* What the health snapshot counts.
CountedRows(db) == db.rows \cap (Entries \cup Pending \cup {"client", "booking", "sale"})

WipeInit ==
    /\ \E spare \in Spares : store = Filled(spare)
    /\ wipe = IdleWipe("none") /\ baseline = CountedRows(store) /\ wipes = 0

\* delete_selected_data until its transaction
RequestWipe(sel, hard) ==
    /\ wipe.pc = "idle" /\ wipes < MaxWipes
    /\ wipes' = wipes + 1
    /\ wipe' = IF Expanded(sel) \cap Forbidden # {} /\ ~hard THEN IdleWipe("blocked")
               ELSE Begun("datasets", Expanded(sel))
    /\ UNCHANGED <<store, baseline>>

\* admin_accounts_domain_wipe with its lock taken
RequestDomainWipe ==
    /\ wipe.pc = "idle" /\ wipes < MaxWipes
    /\ wipes' = wipes + 1
    /\ wipe' = Begun("domain", {})
    /\ UNCHANGED <<store, baseline>>

\* The transaction.
RunWipe ==
    /\ wipe.pc = "begun"
    /\ LET x == IF wipe.kind = "domain" THEN RunScript(DomainScript, store)
                ELSE Wiped(wipe.targets, store)
       IN IF x.failed
          THEN wipe' = [wipe EXCEPT !.pc = "idle", !.reply = "failed"] /\ UNCHANGED store
          ELSE wipe' = [wipe EXCEPT !.pc = "committed"] /\ store' = x.db
    /\ UNCHANGED <<baseline, wipes>>

\* The verification of a domain wipe fails after its commit: there is no backup to go
\* back to.  Otherwise the health snapshot is taken again; if that fails, the old one is
\* there or one that cannot be read, and a wipe of datasets is answered like one that
\* was rolled back.
FinishWipe(written) ==
    /\ wipe.pc = "committed"
    /\ LET late == IF wipe.kind = "domain" /\ ~DomainVerified(store) THEN "verification"
                   ELSE IF ~written THEN "snapshot" ELSE "nothing"
           told == late = "nothing" \/ (late = "snapshot" /\ wipe.kind = "domain")
       IN /\ baseline' \in CASE late = "nothing" -> {CountedRows(store)}
                             [] late = "snapshot" -> {baseline, {}}
                             [] late = "verification" -> {baseline}
          /\ wipe' = [wipe EXCEPT !.pc = "idle", !.reply = IF told THEN "done" ELSE "failed",
                                  !.late = late]
    /\ UNCHANGED <<store, wipes>>

WipeDies ==
    /\ wipe.pc \in {"begun", "committed"}
    /\ wipe' = [wipe EXCEPT !.pc = "idle", !.reply = "none"]
    /\ UNCHANGED <<store, baseline, wipes>>

\* _db_health_check_after_bootstrap: a drop below the snapshot keeps the snapshot.
Alarm == ~(baseline \subseteq store.rows)
StartUp ==
    /\ wipe.pc = "idle" /\ wipe.reply # "alarm"
    /\ wipe' = IdleWipe(IF Alarm THEN "alarm" ELSE "none")
    /\ baseline' = IF Alarm THEN baseline ELSE CountedRows(store)
    /\ UNCHANGED <<store, wipes>>

WipeNext ==
    \/ \E sel \in Selections, hard \in BOOLEAN : RequestWipe(sel, hard)
    \/ RequestDomainWipe \/ RunWipe \/ WipeDies \/ StartUp
    \/ \E written \in BOOLEAN : FinishWipe(written)

WipeSpec == WipeInit /\ [][WipeNext]_wipeVars


------------------------------------------------------------------------------
\* Rows that were made for others, and the others.
DerivedFrom ==
    {<<"bill of a sale", "sale">>, <<"bill of a booking", "booking">>, <<"bill of a payment", "payment">>,
     <<"entry of a sale", "sale">>, <<"entry of a return", "return">>, <<"entry of a GRN", "GRN">>,
     <<"payment of a return", "return">>, <<"cancelled booking", "booking">>,
     <<SalePosting, "driver payment on sale">>, <<"posting of a driver payment", "driver payment">>,
     <<"posting of a payment", "payment">>, <<"posting of a payment", "supplier payment">>,
     <<CashPosting, "cash entry">>}
Bereft(db) == {d \in DerivedFrom : d[1] \in db.rows /\ d[2] \notin db.rows}

\* Left behind knowingly: totals are taken "from the surviving entries", and cash
\* entries can be erased without the ledger.
Tolerated == {<<"entry of a GRN", "GRN">>, <<"cancelled booking", "booking">>, <<CashPosting, "cash entry">>}

\* A wipe is whole, and what its answer says is true with one exception.  It fails on a reference only when accounts or
\* suppliers bring the bills or invoices along without what names them, or, in the
\* accounts domain, when cash entries or audits name what is deleted first.  One that
\* commits leaves no row without the row it was made for, balances that are the sums of
\* the ledger unless the ledger alone was chosen, and stock totals that follow the
\* movements unless only those were (the page's comment at 525-527 promises them
\* always); the full wipe leaves nothing but the locked days.  One that is reported
\* failed, "no data was changed", has changed nothing, unless what failed came after the
\* commit: the health snapshot of a wipe of datasets, or the verification of the accounts
\* domain (_wipe_delete_selected_data.py:534-549).  One that is reported done does not
\* alarm the next start (_wipe_admin_accounts_domain_wipe.py:108-110), unless the domain's
\* snapshot could not be written.
WipeSound ==
    [][/\ wipe.pc = "begun" /\ wipe'.reply = "failed" =>
             IF wipe.kind = "domain"
             THEN \E r \in store.refs : r[2] \in {CashPosting, "difference"}
             ELSE /\ wipe.targets \cap {"accounts", "suppliers"} # {}
                  /\ \E r \in store.refs : \/ r[1] = "follow-up"
                                           \/ r = <<"received", "invoice of a sale">>
       /\ wipe.pc = "begun" /\ wipe'.pc = "committed" =>
             /\ Bereft(store') \subseteq Bereft(store) \cup Tolerated
             /\ store.balanced /\ ~store'.balanced /\ "account" \in store'.rows =>
                   /\ "account_transactions" \in wipe.targets
                   /\ wipe.targets \cap {"accounts", "accounts_domain_wipe"} = {}
             /\ store.counted /\ ~store'.counted /\ "material" \in store'.rows =>
                   wipe.targets \cap {"dispatching", "receiving"} # {}
             /\ FullSet \subseteq wipe.targets => store'.rows = {"locked day"}
       /\ wipe.pc # "idle" /\ wipe'.reply = "failed" =>
             \/ store' = store /\ wipe.pc = "begun"
             \/ wipe.kind = "datasets" /\ wipe'.late = "snapshot"
             \/ wipe.kind = "domain" /\ ~DomainVerified(store')
       /\ wipe'.pc = "idle" /\ wipe'.reply = "done" =>
             ~Alarm' \/ (wipe.kind = "domain" /\ wipe'.late = "snapshot")]_wipeVars
=============================================================================
