---------------------------- MODULE BillNumbers ----------------------------
(***************************************************************************)
(* The numbers of documents (app/services/billing.py): an automatic one    *)
(* drawn from the counter of its kind, and a manual one that users type    *)
(* and that find_bill_conflict looks for in one table after another.       *)
(*                                                                         *)
(* Pages differ in when they ask: before they write, after they hold the   *)
(* write lock, after their own number is flushed, or never.                *)
(*                                                                         *)
(* Left out: invoices and the derived bill of a sale or booking, which     *)
(* carry their document's number and are found behind it.                  *)
(***************************************************************************)
EXTENDS Integers, FiniteSets, Sequences, SequencesExt, FiniteSetsExt

CONSTANTS
    Editors,        \* requests that may overlap
    ManualNumbers,  \* manual numbers that users type
    OldDocuments,   \* the databases to start from: documents by id
    MaxDocs,        \* bound on the ids
    MaxEdits        \* bound on the writes

Blank == 0        \* no manual number
NoPage == [stage |-> "none"]
ASSUME BillNumbersAssumption == {MaxDocs, MaxEdits} \subseteq Nat /\ ManualNumbers \subseteq Nat \ {Blank}

VARIABLES
    doc,      \* documents by id: kind, auto, manual, void, old (from before), how (it got its manual number)
    counter,  \* bill_counter by kind
    indexed,  \* the tables whose unique index on automatic numbers could be created
    page,     \* the request of each editor
    nextId,   \* id of the next document
    edits     \* writes so far

numberVars == <<doc, counter, indexed, page, nextId, edits>>

\* the tables in the order in which find_bill_conflict reads them
Searched == <<"sale", "booking", "payment", "return", "grn", "pending">>
Numbered == (ToSet(Searched) \ {"pending"}) \cup {"supplier"}
Kinds == ToSet(Searched) \cup {"supplier"}
Rank(kind) == CHOOSE i \in DOMAIN Searched : Searched[i] = kind

\* The databases to start from hold numbered documents, all of them old.
Ways == {"checked", "flushed", "typed", "unchecked", "late", "restored"}
OldForm == [kind : Kinds, auto : Nat, manual : Nat, void : BOOLEAN, old : {TRUE}, how : Ways]
ASSUME OldDocumentsAssumption ==
    \A docs \in OldDocuments :
        /\ IsFiniteSet(DOMAIN docs) /\ DOMAIN docs \subseteq Nat \ {0}
        /\ docs \in [DOMAIN docs -> OldForm]

Docs == DOMAIN doc
Standing == {d \in Docs : ~doc[d].void}

\* The first table with a hit decides, and any of its rows may come first.
\* Manual numbers are stored in one form, whatever form was typed.
Carriers(docs, kind, S, except) ==
    {d \in DOMAIN docs \ except : ~docs[d].void /\ docs[d].kind = kind /\ docs[d].manual \in S}
FirstHitsIn(docs, S, except) ==
    LET tables == {i \in DOMAIN Searched : Carriers(docs, Searched[i], S, except) # {}}
    IN  IF tables = {} THEN {} ELSE Carriers(docs, Searched[Min(tables)], S, except)
FirstHits(S, except) == FirstHitsIn(doc, S, except)

\* Faulty variant: the counter is not brought ahead of the numbers in use.
CounterOnly(kind) == counter[kind]

\* get_next_bill_no, under the write lock.  Other kinds have other prefixes,
\* so the conflict check on the number itself finds nothing.
NextNumber(kind) ==
    Max({counter[kind]} \cup {doc[d].auto + 1 : d \in {x \in Docs : doc[x].kind = kind}})

Asking(e) == page[e].stage = "asked"
Drawn(e) == page[e].stage = "drawn"
Writes == edits < MaxEdits /\ edits' = edits + 1
Free == \A e \in Editors : ~Drawn(e)
Asked(kind, id, number) ==
    [stage |-> "asked", kind |-> kind, id |-> id, number |-> number,
     auto |-> 0, stale |-> FALSE, late |-> FALSE]

\* A write of d overtakes the editors that have loaded it, and a number that
\* is taken after a check has passed is not seen by it.
Overtaken(d, n) ==
    [e \in Editors |->
        IF page[e].stage = "none" THEN NoPage
        ELSE [page[e] EXCEPT !.stale = @ \/ page[e].id = d,
                             !.late = @ \/ (n # Blank /\ page[e].number = n)]]

-----------------------------------------------------------------------------
(* Posting.  Sales, bookings, payments, returns and bills by hand look for  *)
(* a conflict before their first write; a GRN draws its number first.       *)

AskToPost(e) ==
    /\ page[e].stage = "none" /\ nextId <= MaxDocs
    /\ \E kind \in Kinds \ {"grn"}, n \in ManualNumbers \cup {Blank} :
          /\ n = Blank => kind # "pending"
          /\ n # Blank => FirstHits({n}, {}) = {}
          /\ page' = [page EXCEPT ![e] = Asked(kind, 0, n)]
    /\ UNCHANGED <<doc, counter, indexed, nextId, edits>>

\* get_next_bill_no takes the write lock and then reads
DrawNumber(e) ==
    /\ Asking(e) /\ page[e].id = 0 /\ page[e].kind # "pending" /\ Free
    /\ page' = [page EXCEPT ![e].stage = "drawn", ![e].auto = NextNumber(page[e].kind)]
    /\ UNCHANGED <<doc, counter, indexed, nextId, edits>>

DrawForGrn(e) ==
    /\ page[e].stage = "none" /\ Free /\ nextId <= MaxDocs
    /\ \E n \in ManualNumbers \cup {Blank} :
          /\ n # Blank => FirstHits({n}, {}) = {}
          /\ page' = [page EXCEPT ![e] = [Asked("grn", 0, n) EXCEPT
                                             !.stage = "drawn", !.auto = NextNumber("grn")]]
    /\ UNCHANGED <<doc, counter, indexed, nextId, edits>>

\* the row is written with the numbers drawn and typed, and committed
SavePost(e) ==
    LET r == page[e]
        new == [kind |-> r.kind, auto |-> r.auto, manual |-> r.number, void |-> FALSE,
                old |-> FALSE, how |-> IF r.late THEN "late" ELSE "checked"]
    IN  /\ Drawn(e) \/ (Asking(e) /\ r.kind = "pending" /\ Free)
        /\ nextId <= MaxDocs
        /\ r.kind \in indexed => \A d \in Docs : doc[d].kind = r.kind => doc[d].auto # r.auto
        /\ doc' = [d \in Docs \cup {nextId} |-> IF d = nextId THEN new ELSE doc[d]]
        /\ counter' = [k \in Numbered |-> IF k = r.kind THEN r.auto + 1 ELSE counter[k]]
        /\ page' = [Overtaken(nextId, r.number) EXCEPT ![e] = NoPage]
        /\ nextId' = nextId + 1 /\ Writes
        /\ UNCHANGED indexed

-----------------------------------------------------------------------------
(* Editing.  The sale page and the payment pages check before they write;   *)
(* the other pages assign the number, and the check's first query flushes   *)
(* it.  A document that keeps its number keeps how it came by it.           *)

Renumbered(d, n, way) ==
    [doc EXCEPT ![d].manual = n, ![d].how = IF doc[d].manual = n THEN @ ELSE way]

\* a sale is not asked about itself; a payment may be the first that is found
AskToEdit(e) ==
    /\ page[e].stage = "none"
    /\ \E d \in Standing, n \in ManualNumbers \cup {Blank} :
          /\ doc[d].kind \in {"sale", "payment", "supplier"}
          /\ LET hits == FirstHits({n}, IF doc[d].kind = "sale" THEN {d} ELSE {})
             IN  n = Blank \/ hits = {} \/ d \in hits
          /\ page' = [page EXCEPT ![e] = Asked(doc[d].kind, d, n)]
    /\ UNCHANGED <<doc, counter, indexed, nextId, edits>>

\* payments carry a revision
SaveEdit(e) ==
    LET r == page[e]
    IN  /\ Asking(e) /\ Free /\ r.id \in Standing
        /\ r.stale => r.kind = "sale"
        /\ doc' = Renumbered(r.id, r.number, IF r.late THEN "late" ELSE "checked")
        /\ page' = [Overtaken(r.id, r.number) EXCEPT ![e] = NoPage]
        /\ Writes
        /\ UNCHANGED <<counter, indexed, nextId>>

\* Booking, GRN and bill pages, and the client ledger's edit of a payment.
\* That of a sale checks the text as typed, which an automatic prefix hides.
FlushThenCheck(d) ==
    \E n \in ManualNumbers \cup {Blank}, prefixed \in BOOLEAN :
        LET flushed == Renumbered(d, n, IF prefixed THEN "typed" ELSE "flushed")
            hits == FirstHitsIn(flushed, IF prefixed THEN {} ELSE {n}, {})
        IN  /\ Free /\ d \in Standing /\ doc[d].kind \notin {"return", "supplier"}
            /\ prefixed => doc[d].kind = "sale" /\ n # Blank
            /\ n = Blank \/ hits = {} \/ d \in hits
            /\ doc' = flushed
            /\ page' = Overtaken(d, n)
            /\ Writes
            /\ UNCHANGED <<counter, indexed, nextId>>

\* the client ledger's edit of a booking asks nobody
EditUnchecked(d) ==
    /\ Free /\ d \in Standing /\ doc[d].kind = "booking"
    /\ \E n \in ManualNumbers \cup {Blank} :
          /\ doc' = Renumbered(d, n, "unchecked")
          /\ page' = Overtaken(d, n)
    /\ Writes
    /\ UNCHANGED <<counter, indexed, nextId>>

-----------------------------------------------------------------------------
(* Taking away and giving back.                                             *)

\* payments and bills by hand stay in the table
Voided == {"payment", "supplier", "pending"}

TakeAway(d) ==
    /\ Free /\ d \in Standing
    /\ doc' = IF doc[d].kind \in Voided THEN [doc EXCEPT ![d].void = TRUE]
              ELSE [x \in Docs \ {d} |-> doc[x]]
    /\ page' = Overtaken(d, Blank)
    /\ Writes
    /\ UNCHANGED <<counter, indexed, nextId>>

\* restore pages ask nobody about the number
GiveBack(d) ==
    /\ Free /\ d \in Docs \ Standing
    /\ doc' = [doc EXCEPT ![d].void = FALSE, ![d].how = "restored"]
    /\ page' = Overtaken(d, doc[d].manual)
    /\ Writes
    /\ UNCHANGED <<counter, indexed, nextId>>

\* the request fails otherwise, or its worker dies
Leave(e) ==
    /\ page[e].stage # "none"
    /\ page' = [page EXCEPT ![e] = NoPage]
    /\ UNCHANGED <<doc, counter, indexed, nextId, edits>>

-----------------------------------------------------------------------------
NumbersInit ==
    /\ doc \in OldDocuments
    /\ counter = [k \in Numbered |-> 1]
    /\ indexed = {k \in Numbered : \A d, e \in Docs :
                     d # e /\ doc[d].kind = k /\ doc[e].kind = k => doc[d].auto # doc[e].auto}
    /\ page = [e \in Editors |-> NoPage]
    /\ nextId = Max(Docs \cup {0}) + 1
    /\ edits = 0

NumbersNext ==
    \/ \E e \in Editors :
          \/ AskToPost(e) \/ DrawNumber(e) \/ DrawForGrn(e) \/ SavePost(e)
          \/ AskToEdit(e) \/ SaveEdit(e) \/ Leave(e)
    \/ \E d \in Docs : FlushThenCheck(d) \/ EditUnchecked(d) \/ TakeAway(d) \/ GiveBack(d)

NumbersSpec == NumbersInit /\ [][NumbersNext]_numberVars

-----------------------------------------------------------------------------
(* Looking a document up by its number: _lookup_bill takes the newest of    *)
(* each table, and a bill row is offered only when nothing else is found.   *)

LookedUp == <<"booking", "payment", "sale", "grn", "pending">>
Newest(kind, n) == LET S == Carriers(doc, kind, {n}, {}) IN IF S = {} THEN {} ELSE {Max(S)}
Found(n) == UNION {Newest(k, n) : k \in ToSet(LookedUp)}
Offered(n) ==
    LET primary == {d \in Found(n) : doc[d].kind # "pending"}
    IN  IF primary # {} THEN primary ELSE Found(n)

\* The numbers tell documents apart.
\*  - An automatic number is given once, even to a document that is void or
\*    deleted later, whatever an old database holds (billing.py:218-229,
\*    schema.py:547-553).
\*  - Two active documents share a manual number only if a supplier's payment
\*    is one of them (its table is never searched), one was restored or edited
\*    on the ledger page unasked, one took the number while the other had
\*    passed its check, one was typed with an automatic prefix, or one met
\*    itself first and the other stands in the same or a later table
\*    (billing.py:460-552).
\*  - A search by number hides an active document only behind a newer one of
\*    its own table or, for a bill, behind a document (billing.py:751-829).
AutoGivenOnce ==
    \A d, e \in Docs :
        d # e /\ doc[d].kind = doc[e].kind /\ doc[d].kind \in Numbered /\ doc[d].auto = doc[e].auto
            => doc[d].old /\ doc[e].old
Twins == {p \in Standing \X Standing : p[1] # p[2] /\ doc[p[1]].manual = doc[p[2]].manual
                                     /\ doc[p[1]].manual # Blank}
MayShare(d, e) ==
    \/ doc[d].kind = "supplier"
    \/ doc[d].how \in {"restored", "unchecked", "late", "typed"}
    \/ doc[d].how = "flushed" /\ doc[e].kind # "supplier" /\ Rank(doc[e].kind) >= Rank(doc[d].kind)
TwinsExplained == \A p \in Twins : MayShare(p[1], p[2]) \/ MayShare(p[2], p[1])
SearchHidesTwinsOnly ==
    \A d \in Standing :
        doc[d].kind \in ToSet(LookedUp) /\ doc[d].manual # Blank /\ d \notin Offered(doc[d].manual)
            => \E e \in Offered(doc[d].manual) :
                  (doc[e].kind = doc[d].kind /\ e > d) \/ doc[d].kind = "pending"
NumbersIdentify == AutoGivenOnce /\ TwinsExplained /\ SearchHidesTwinsOnly
=============================================================================
