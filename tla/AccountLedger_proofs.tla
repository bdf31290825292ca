------------------------- MODULE AccountLedger_proofs -------------------------
(***************************************************************************)
(* Proofs about payments and their ledger rows, for any number of          *)
(* accounts, documents and overlapping requests.                           *)
(***************************************************************************)
EXTENDS AccountLedger, SumTheorems, TLAPS

Kinds == Payments \cup {"manual", "direct", "adjustment", "none"}
Ends == Accounts \cup {None}
Documents == [from : Ends, to : Ends, amt : Nat, void : BOOLEAN, rev : Nat]
LiveRows == {[from |-> m.from, to |-> m.to, amt |-> m.amt, live |-> TRUE] : m \in Movements}
Fields == {"step", "op", "d", "form", "doc", "row", "want", "seen"}

TablesTyped ==
    /\ Docs # {} /\ kind \in [Docs -> Kinds] /\ doc \in [Docs -> Documents]
    /\ DOMAIN row = Docs /\ row = [d \in Docs |-> row[d]]

\* What a request holds fits the document it is about, and is of that document's
\* present version or of an earlier one.
RequestTyped(r) ==
    /\ DOMAIN req[r] = Fields /\ req[r].d \in Docs
    /\ req[r].form \in Documents /\ req[r].doc \in Documents
OpFits(r) ==
    LET q == req[r]
        k == kind[q.d] IN
    /\ q.step = "form" => q.op = "edit" /\ k \in Payments /\ ~q.form.void
    /\ q.step \in {"loaded", "ready"} =>
          /\ q.op = "edit" => k \in Payments /\ ~q.doc.void /\ (k \in Versioned => q.doc = q.form)
          /\ q.op \in {"delete", "restore"} => k \in Payments \cup {"manual"}
                                               /\ q.doc.void = (q.op = "restore")
          /\ q.op \in {"row edit", "row delete"} => k \in {"driver", "manual", "direct", "adjustment"}
          /\ q.op = "entry edit" => k = "manual" /\ ~q.doc.void /\ q.want \in LiveRows
    /\ q.step = "ready" /\ q.op \in Payments \cup {"manual", "direct", "edit"} => q.want \in LiveRows
Earlier(p, d) == p.rev <= doc[d].rev /\ (p.rev = doc[d].rev => p = doc[d])
Versions(r) ==
    LET q == req[r] IN
    kind[q.d] \in Versioned =>
        /\ q.step = "form" => Earlier(q.form, q.d)
        /\ q.step \in {"loaded", "ready"} /\ q.op \in {"edit", "delete", "restore"}
              => Earlier(q.doc, q.d)
RequestsFit == /\ req = [r \in Requests |-> req[r]]
               /\ \A r \in Requests : RequestTyped(r) /\ OpFits(r) /\ Versions(r)

\* A cash-flow entry that is void keeps its row, with the accounts and the amount.
RowInLine(d) ==
    /\ kind[d] \in Versioned => Follows(d)
    /\ kind[d] = "driver" => Unless({"driver raced", "row edited"}, Follows(d))
    /\ kind[d] = "manual" => Unless({"entry raced", "row edited"},
          row[d] = [from |-> doc[d].from, to |-> doc[d].to, amt |-> doc[d].amt, live |-> ~doc[d].void])

IInv == TablesTyped /\ RequestsFit /\ \A d \in Docs : RowInLine(d)

\* What a request does before it writes.
Reads(r) ==
    \/ PostForm(r) \/ CheckVoid(r) \/ CheckEntryEdit(r) \/ Abandon(r) \/ Refused(r)
    \/ \E d \in Docs : \/ OpenForm(r, d) \/ LoadEntryEdit(r, d)
                       \/ \E op \in {"delete", "restore", "row edit", "row delete"} :
                               LoadDocument(r, d, op)
    \/ \E m \in Movements : \/ CheckEdit(r, m) \/ CheckRow(r, m)
                            \/ \E k \in Payments \cup {"manual", "direct"} : CheckNew(r, k, m)
    \/ \E a \in Accounts : CheckAccount(r, a)

\* What it writes.
Writes(r) ==
    \/ EditPayment(r) \/ DeletePayment(r) \/ RestorePayment(r) \/ EditRow(r) \/ DeleteRow(r)
    \/ EditEntry(r) \/ VoidEntry(r) \/ RestoreEntry(r)
    \/ \E k \in Payments \cup {"manual", "direct"}, d \in Docs : WriteNew(r, k, d)
    \/ \E o \in Openings, desired \in Openings \cup {None}, d \in Docs : WriteAccount(r, o, desired, d)

LEMMA NextCases == LedgerNext => \E r \in Requests : Reads(r) \/ Writes(r)
BY DEF LedgerNext, Reads, Writes, NewClientPayment, NewSupplierPayment, NewDriverPayment, NewEntry,
       NewDirectEntry, NewTransfer, Payments, Versioned

\* Reading touches nothing but the request.
LEMMA ReadsOnly ==
    ASSUME NEW r \in Requests, Reads(r), RequestsFit
    PROVE  /\ UNCHANGED <<kind, doc, row, owing, happened>>
           /\ req' = [q \in Requests |-> req'[q]] /\ \A q \in Requests \ {r} : req'[q] = req[q]
<1>1. UNCHANGED <<kind, doc, row, owing, happened>>
  BY DEF Reads, PostForm, CheckVoid, CheckEntryEdit, Abandon, Refused, OpenForm, LoadEntryEdit,
         LoadDocument, CheckEdit, CheckRow, CheckNew, CheckAccount, Ready
<1>2. req' = [q \in Requests |-> req'[q]] /\ \A q \in Requests \ {r} : req'[q] = req[q]
  <2>1. req = [q \in Requests |-> req[q]]
    BY DEF RequestsFit
  <2>2. CASE PostForm(r) \/ Abandon(r) \/ Refused(r)
    BY <2>1, <2>2 DEF PostForm, Abandon, Refused
  <2>3. CASE CheckVoid(r) \/ CheckEntryEdit(r) \/ \E m \in Movements : CheckEdit(r, m) \/ CheckRow(r, m)
    BY <2>1, <2>3 DEF CheckVoid, CheckEntryEdit, CheckEdit, CheckRow, Ready
  <2>4. CASE \E d \in Docs : OpenForm(r, d) \/ LoadEntryEdit(r, d)
    BY <2>1, <2>4, ZenonT(60) DEF OpenForm, LoadEntryEdit
  <2>5. CASE \E d \in Docs, op \in {"delete", "restore", "row edit", "row delete"} : LoadDocument(r, d, op)
    BY <2>1, <2>5, ZenonT(60) DEF LoadDocument
  <2>6. CASE \E m \in Movements, k \in Payments \cup {"manual", "direct"} : CheckNew(r, k, m)
    BY <2>1, <2>6 DEF CheckNew
  <2>7. CASE \E a \in Accounts : CheckAccount(r, a)
    BY <2>1, <2>7 DEF CheckAccount
  <2>8. QED BY <2>2, <2>3, <2>4, <2>5, <2>6, <2>7 DEF Reads
<1>3. QED BY <1>1, <1>2

LEMMA IdleFits ==
    ASSUME NEW r \in Requests, Docs # {}, req'[r] = Idle
    PROVE  (RequestTyped(r) /\ OpFits(r) /\ Versions(r))'
<1>1. (CHOOSE d \in Docs : TRUE) \in Docs
  OBVIOUS
<1>2. NoDoc \in Documents
  BY DEF NoDoc, Documents, Ends
<1>3. QED BY <1>1, <1>2 DEF Idle, RequestTyped, OpFits, Versions, Fields, Payments, Versioned

\* What a request loads and prepares fits its document, as it is or as it was.
LEMMA ReadFits ==
    ASSUME NEW r \in Requests, IInv, Reads(r)
    PROVE  (RequestTyped(r) /\ OpFits(r) /\ Versions(r))'
<1>0. UNCHANGED <<kind, doc, row>>
  BY ReadsOnly DEF IInv
<1>a. /\ RequestTyped(r) /\ OpFits(r) /\ Versions(r) /\ Docs # {}
      /\ kind \in [Docs -> Kinds] /\ doc \in [Docs -> Documents] /\ r \in DOMAIN req
  BY DEF IInv, TablesTyped, RequestsFit
<1>b. \A m \in Movements : RowOf(m) \in LiveRows
  BY DEF LiveRows, RowOf
<1>c. \A d \in Docs : doc[d].rev \in Nat
  BY <1>a DEF Documents
<1>d. \A d \in Docs : Earlier(doc[d], d)'
  BY <1>0, <1>c DEF Earlier
<1>1. CASE PostForm(r)
  <2>1. CASE req'[r] = Idle
    BY <2>1, <1>a, IdleFits
  <2>2. CASE req'[r] # Idle
    <3>1. /\ req[r].step = "form" /\ doc[req[r].d].rev = req[r].form.rev
          /\ req' = [req EXCEPT ![r].step = "loaded", ![r].doc = doc[req[r].d]]
          /\ ~doc[req[r].d].void
      BY <1>1, <1>a, <2>2 DEF PostForm
    <3>2. /\ DOMAIN req'[r] = Fields /\ req'[r].step = "loaded" /\ req'[r].doc = doc[req[r].d]
          /\ req'[r].op = req[r].op /\ req'[r].d = req[r].d /\ req'[r].form = req[r].form
      BY <3>1, <1>a DEF RequestTyped, Fields
    <3>3. QED BY <1>0, <1>a, <1>c, <3>1, <3>2 DEF RequestTyped, OpFits, Versions, Earlier
  <2>3. QED BY <2>1, <2>2
<1>2. CASE Abandon(r) \/ Refused(r)
  BY <1>2, <1>a, IdleFits DEF Abandon, Refused
<1>3. CASE \E d \in Docs : OpenForm(r, d)
  <2>1. PICK d \in Docs : OpenForm(r, d)
    BY <1>3
  <2>2. /\ DOMAIN req'[r] = Fields /\ req'[r].step = "form" /\ req'[r].form = doc[d]
        /\ req'[r].op = "edit" /\ req'[r].d = d /\ req'[r].doc = req[r].doc
    BY <2>1, <1>a DEF OpenForm, RequestTyped, Fields
  <2>3. kind[d] \in Payments /\ ~doc[d].void
    BY <2>1 DEF OpenForm
  <2>4. Earlier(doc[d], d)'
    BY <1>d
  <2>5. QED BY <1>0, <1>a, <2>2, <2>3, <2>4 DEF RequestTyped, OpFits, Versions, Payments, Versioned
<1>4. CASE \E d \in Docs, op \in {"delete", "restore", "row edit", "row delete"} : LoadDocument(r, d, op)
  <2>1. PICK d \in Docs, op \in {"delete", "restore", "row edit", "row delete"} : LoadDocument(r, d, op)
    BY <1>4
  <2>2. /\ DOMAIN req'[r] = Fields /\ req'[r].step = "loaded" /\ req'[r].doc = doc[d]
        /\ req'[r].op = op /\ req'[r].d = d /\ req'[r].form = req[r].form
    BY <2>1, <1>a DEF LoadDocument, RequestTyped, Fields
  <2>3. /\ op \in {"delete", "restore"} => kind[d] \in Payments \cup {"manual"}
                                             /\ doc[d].void = (op = "restore")
        /\ op \in {"row edit", "row delete"} => kind[d] \in {"driver", "manual", "direct", "adjustment"}
    <3>1. doc[d].void \in BOOLEAN
      BY <1>a DEF Documents
    <3>2. QED BY <2>1, <3>1 DEF LoadDocument
  <2>4. Earlier(doc[d], d)'
    BY <1>d
  <2>5. QED BY <1>0, <1>a, <2>2, <2>3, <2>4 DEF RequestTyped, OpFits, Versions, Payments, Versioned
<1>5. CASE \E d \in Docs : LoadEntryEdit(r, d)
  <2>1. PICK d \in Docs : LoadEntryEdit(r, d)
    BY <1>5
  <2>2. PICK m \in MovementsOf("manual") :
           req' = [req EXCEPT ![r].step = "loaded", ![r].op = "entry edit", ![r].d = d,
                              ![r].doc = doc[d], ![r].want = RowOf(m),
                              ![r].seen = LoadAccounts(r, AccountsOf(m))]
    BY <2>1 DEF LoadEntryEdit
  <2>3. m \in Movements
    BY <2>2 DEF MovementsOf, In, Out, Transfers
  <2>4. /\ DOMAIN req'[r] = Fields /\ req'[r].step = "loaded" /\ req'[r].doc = doc[d]
        /\ req'[r].op = "entry edit" /\ req'[r].d = d /\ req'[r].form = req[r].form
        /\ req'[r].want = RowOf(m)
    BY <2>2, <1>a DEF RequestTyped, Fields
  <2>5. kind[d] = "manual" /\ ~doc[d].void
    BY <2>1 DEF LoadEntryEdit
  <2>6. QED BY <1>0, <1>a, <1>b, <2>3, <2>4, <2>5 DEF RequestTyped, OpFits, Versions, Versioned
<1>6. CASE \E m \in Movements, k \in Payments \cup {"manual", "direct"} : CheckNew(r, k, m)
  <2>1. PICK m \in Movements, k \in Payments \cup {"manual", "direct"} : CheckNew(r, k, m)
    BY <1>6
  <2>2. /\ DOMAIN req'[r] = Fields /\ req'[r].step = "ready" /\ req'[r].doc = req[r].doc
        /\ req'[r].op = k /\ req'[r].d = req[r].d /\ req'[r].form = req[r].form
        /\ req'[r].want = RowOf(m)
    BY <2>1, <1>a DEF CheckNew, RequestTyped, Fields
  <2>3. QED BY <1>0, <1>a, <1>b, <2>1, <2>2 DEF RequestTyped, OpFits, Versions, Versioned, Payments
<1>7. CASE \E a \in Accounts : CheckAccount(r, a)
  <2>1. /\ DOMAIN req'[r] = Fields /\ req'[r].step = "ready" /\ req'[r].doc = req[r].doc
        /\ req'[r].op = "account" /\ req'[r].d = req[r].d /\ req'[r].form = req[r].form
    BY <1>7, <1>a DEF CheckAccount, RequestTyped, Fields
  <2>2. QED BY <1>0, <1>a, <2>1 DEF RequestTyped, OpFits, Versions, Versioned, Payments
<1>8. CASE CheckVoid(r) \/ CheckEntryEdit(r) \/ \E m \in Movements : CheckEdit(r, m) \/ CheckRow(r, m)
  <2>1. PICK want, seen, w : Ready(r, want, seen, w)
    BY <1>8 DEF CheckVoid, CheckEntryEdit, CheckEdit, CheckRow
  <2>2. /\ DOMAIN req'[r] = Fields /\ req'[r].step = "ready" /\ req'[r].doc = req[r].doc
        /\ req'[r].op = req[r].op /\ req'[r].d = req[r].d /\ req'[r].form = req[r].form
        /\ req'[r].want = want
    BY <2>1, <1>a DEF Ready, RequestTyped, Fields
  <2>3. req[r].step = "loaded" /\ req[r].op \in {"edit", "delete", "restore", "entry edit", "row edit", "row delete"}
    BY <1>8 DEF CheckVoid, CheckEntryEdit, CheckEdit, CheckRow
  <2>4. req[r].op = "edit" => want \in LiveRows
    <3>1. SUFFICES ASSUME req[r].op = "edit" PROVE req'[r].want \in LiveRows
      BY <2>2
    <3>2. PICK m \in Movements : CheckEdit(r, m)
      BY <3>1, <1>8 DEF CheckVoid, CheckEntryEdit, CheckRow
    <3>3. req'[r].want = RowOf(m)
      BY <3>2, <1>a DEF CheckEdit, Ready, RequestTyped, Fields
    <3>4. QED BY <3>3, <1>b
  <2>5. req[r].op = "entry edit" => want = req[r].want
    <3>1. SUFFICES ASSUME req[r].op = "entry edit" PROVE req'[r].want = req[r].want
      BY <2>2
    <3>2. CheckEntryEdit(r)
      BY <3>1, <1>8 DEF CheckVoid, CheckEdit, CheckRow
    <3>3. QED BY <3>2, <1>a DEF CheckEntryEdit, Ready, RequestTyped, Fields
  <2>6. QED BY <1>0, <1>a, <2>2, <2>3, <2>4, <2>5 DEF RequestTyped, OpFits, Versions, Versioned, Payments, Earlier
<1>9. QED BY <1>1, <1>2, <1>3, <1>4, <1>5, <1>6, <1>7, <1>8 DEF Reads

------------------------------------------------------------------------------
\* An UPDATE of a row that nobody changed in the meantime writes what was meant.
LEMMA UpdateTyped ==
    ASSUME NEW p \in Documents, NEW n \in Documents
    PROVE  /\ \A q \in Documents : Write(p, q, n) \in Documents
           /\ Write(p, p, n) = n
<1>1. DOMAIN p = {"from", "to", "amt", "void", "rev"}
  BY DEF Documents
<1>2. ASSUME NEW q \in Documents
      PROVE  Write(p, q, n) = [from |-> IF n.from = q.from THEN p.from ELSE n.from,
                               to   |-> IF n.to = q.to THEN p.to ELSE n.to,
                               amt  |-> IF n.amt = q.amt THEN p.amt ELSE n.amt,
                               void |-> IF n.void = q.void THEN p.void ELSE n.void,
                               rev  |-> IF n.rev = q.rev THEN p.rev ELSE n.rev]
  BY <1>1 DEF Write
<1>3. \A q \in Documents : Write(p, q, n) \in Documents
  BY <1>2 DEF Documents
<1>4. n = [from |-> n.from, to |-> n.to, amt |-> n.amt, void |-> n.void, rev |-> n.rev]
  BY DEF Documents
<1>5. Write(p, p, n) = n
  BY <1>2, <1>4
<1>6. QED BY <1>3, <1>5

LEMMA LiveRowTyped ==
    ASSUME NEW w \in LiveRows
    PROVE  /\ w.from \in Ends /\ w.to \in Ends /\ w.amt \in Nat
           /\ w = [from |-> w.from, to |-> w.to, amt |-> w.amt, live |-> TRUE]
<1>1. PICK m \in Movements : w = [from |-> m.from, to |-> m.to, amt |-> m.amt, live |-> TRUE]
  BY DEF LiveRows
<1>2. m.from \in Ends /\ m.to \in Ends /\ m.amt \in Nat
  BY LedgerAssumption DEF Movements, Ends
<1>3. QED BY <1>1, <1>2

\* The document an edit, a deletion or a restore means to write.
LEMMA EditedTyped ==
    ASSUME NEW r \in Requests, IInv, req[r].step = "ready", req[r].op \in {"edit", "delete", "restore"}
    PROVE  /\ Edited(r) \in Documents /\ Edited(r).rev = req[r].doc.rev + 1
           /\ Edited(r).void = (req[r].op = "delete")
<1>1. /\ req[r].doc \in Documents /\ req[r].doc.rev \in Nat
      /\ req[r].op = "edit" => req[r].want \in LiveRows
  BY DEF IInv, RequestsFit, RequestTyped, OpFits, Documents
<1>3. CASE req[r].op = "edit"
  <2>1. Edited(r) = [from |-> req[r].want.from, to |-> req[r].want.to, amt |-> req[r].want.amt,
                     void |-> FALSE, rev |-> req[r].doc.rev + 1]
    BY <1>3 DEF Edited
  <2>2. req[r].want.from \in Ends /\ req[r].want.to \in Ends /\ req[r].want.amt \in Nat
    BY <1>1, <1>3, LiveRowTyped
  <2>3. Edited(r) \in Documents /\ Edited(r).rev = req[r].doc.rev + 1 /\ Edited(r).void = FALSE
    BY <1>1, <2>1, <2>2 DEF Documents
  <2>4. QED BY <1>3, <2>3
<1>4. CASE req[r].op = "delete"
  <2> DEFINE q == [req[r].doc EXCEPT !.void = TRUE]
  <2>1. q \in Documents /\ q.rev = req[r].doc.rev /\ q.void = TRUE
    BY <1>1 DEF Documents
  <2>2. Edited(r) = [q EXCEPT !.rev = @ + 1]
    BY <1>4 DEF Edited
  <2> HIDE DEF q
  <2>3. Edited(r) \in Documents /\ Edited(r).rev = q.rev + 1 /\ Edited(r).void = q.void
    BY <2>1, <2>2 DEF Documents
  <2>4. QED BY <1>4, <2>1, <2>3
<1>5. CASE req[r].op = "restore"
  <2> DEFINE q == [req[r].doc EXCEPT !.void = FALSE]
  <2>1. q \in Documents /\ q.rev = req[r].doc.rev /\ q.void = FALSE
    BY <1>1 DEF Documents
  <2>2. Edited(r) = [q EXCEPT !.rev = @ + 1]
    BY <1>5 DEF Edited
  <2> HIDE DEF q
  <2>3. Edited(r) \in Documents /\ Edited(r).rev = q.rev + 1 /\ Edited(r).void = q.void
    BY <2>1, <2>2 DEF Documents
  <2>4. QED BY <1>5, <2>1, <2>3
<1>6. QED BY <1>3, <1>4, <1>5

\* Every write ends the request.
LEMMA WritesEnd ==
    ASSUME NEW r \in Requests, RequestsFit, Writes(r)
    PROVE  /\ req[r].step = "ready" /\ req' = [req EXCEPT ![r] = Idle]
           /\ req'[r] = Idle /\ \A q \in Requests \ {r} : req'[q] = req[q]
           /\ req' = [q \in Requests |-> req'[q]]
<1>1. req[r].step = "ready" /\ req' = [req EXCEPT ![r] = Idle]
  BY ZenonT(60) DEF Writes, EditPayment, DeletePayment, RestorePayment, WritePayment, EditRow, DeleteRow, OnPage,
         WriteRow, EditEntry, VoidEntry, RestoreEntry, WithEntry, WriteNew, WriteAccount, Done
<1>2. req = [q \in Requests |-> req[q]]
  BY DEF RequestsFit
<1>3. QED BY <1>1, <1>2

\* A document stays what it is; only a new one gets a kind.
LEMMA KindsStay ==
    ASSUME NEW r \in Requests, IInv, Writes(r)
    PROVE  /\ kind' \in [Docs -> Kinds]
           /\ \A d \in Docs : kind[d] # "none" => kind'[d] = kind[d]
<1>1. kind \in [Docs -> Kinds]
  BY DEF IInv, TablesTyped
<1>2. CASE kind' = kind
  BY <1>1, <1>2
<1>3. CASE kind' # kind
  <2>1. PICK d \in Docs, k \in Payments \cup {"manual", "direct", "adjustment"} :
           kind[d] = "none" /\ kind' = [kind EXCEPT ![d] = k]
    <3>1. CASE \E k \in Payments \cup {"manual", "direct"}, d \in Docs : WriteNew(r, k, d)
      BY <3>1 DEF WriteNew
    <3>2. CASE \E o \in Openings, desired \in Openings \cup {None}, d \in Docs : WriteAccount(r, o, desired, d)
      <4>1. PICK o \in Openings, desired \in Openings \cup {None}, d \in Docs : WriteAccount(r, o, desired, d)
        BY <3>2
      <4>2. kind[d] = "none" /\ kind' = [kind EXCEPT ![d] = "adjustment"]
        BY <4>1, <1>3 DEF WriteAccount
      <4>3. QED BY <4>2
    <3>3. QED
      BY <3>1, <3>2, <1>3
      DEF Writes, EditPayment, DeletePayment, RestorePayment, WritePayment, EditRow, DeleteRow,
          OnPage, WriteRow, EditEntry, VoidEntry, RestoreEntry, WithEntry
  <2>2. k \in Kinds
    BY <2>1 DEF Kinds
  <2>3. QED BY <1>1, <2>1, <2>2
<1>4. QED BY <1>2, <1>3

\* A payment is written through its version or not at all.
LEMMA PaymentWritten ==
    ASSUME NEW r \in Requests, NEW checked, NEW old, IInv, WritePayment(r, checked, old),
           req[r].op \in {"edit", "delete", "restore"}
    PROVE  /\ req[r].d \in Docs /\ doc' \in [Docs -> Documents]
           /\ \A d \in Docs \ {req[r].d} : doc'[d] = doc[d] /\ row'[d] = row[d]
           /\ row'[req[r].d] = Synced(row[req[r].d], Edited(r))
           /\ kind[req[r].d] \in Versioned => doc[req[r].d] = req[r].doc
           /\ doc[req[r].d] = req[r].doc => doc'[req[r].d] = Edited(r)
           /\ doc[req[r].d] # req[r].doc => "driver raced" \in happened'
           /\ happened \subseteq happened'
<1> DEFINE d == req[r].d
<1>1. /\ req[r].step = "ready" /\ Current(r)
      /\ doc' = [doc EXCEPT ![d] = Write(@, req[r].doc, Edited(r))]
      /\ row' = [row EXCEPT ![d] = Synced(@, Edited(r))]
      /\ doc[d] # req[r].doc => "driver raced" \in happened'
      /\ happened \subseteq happened'
  BY DEF WritePayment, Done
<1>2. /\ d \in Docs /\ req[r].doc \in Documents /\ doc \in [Docs -> Documents]
      /\ DOMAIN row = Docs /\ row = [e \in Docs |-> row[e]]
  BY DEF IInv, TablesTyped, RequestsFit, RequestTyped
<1>3. Edited(r) \in Documents
  BY <1>1, EditedTyped
<1>4. Write(doc[d], req[r].doc, Edited(r)) \in Documents
  BY <1>2, <1>3, UpdateTyped
<1>5. doc' \in [Docs -> Documents] /\ doc'[d] = Write(doc[d], req[r].doc, Edited(r))
      /\ \A e \in Docs \ {d} : doc'[e] = doc[e]
  BY <1>1, <1>2, <1>4
<1>6. row'[d] = Synced(row[d], Edited(r)) /\ \A e \in Docs \ {d} : row'[e] = row[e]
  BY <1>1, <1>2
<1>7. kind[d] \in Versioned => doc[d] = req[r].doc
  BY <1>1 DEF IInv, RequestsFit, Versions, Earlier, Current
<1>8. doc[d] = req[r].doc => doc'[d] = Edited(r)
  BY <1>2, <1>3, <1>5, UpdateTyped
<1>9. QED BY <1>1, <1>2, <1>5, <1>6, <1>7, <1>8

\* The same for the columns of a ledger row.
LEMMA RowUpdated ==
    ASSUME NEW w, NEW n, w = [from |-> w.from, to |-> w.to, amt |-> w.amt, live |-> w.live],
           n = [from |-> n.from, to |-> n.to, amt |-> n.amt, live |-> n.live]
    PROVE  Write(w, w, n) = n
<1>1. DOMAIN w = {"from", "to", "amt", "live"}
  OBVIOUS
<1>2. Write(w, w, n) = [from |-> IF n.from = w.from THEN w.from ELSE n.from,
                        to   |-> IF n.to = w.to THEN w.to ELSE n.to,
                        amt  |-> IF n.amt = w.amt THEN w.amt ELSE n.amt,
                        live |-> IF n.live = w.live THEN w.live ELSE n.live]
  BY <1>1 DEF Write
<1>3. QED BY <1>2

\* A cash-flow entry and its row are written as they were meant, or the request was overtaken.
LEMMA EntryWritten ==
    ASSUME NEW r \in Requests, NEW op, NEW entry \in Documents, NEW checked, IInv,
           WithEntry(r, op, entry, checked)
    PROVE  /\ req[r].d \in Docs /\ kind[req[r].d] = "manual" /\ req[r].step = "ready" /\ req[r].op = op
           /\ doc' \in [Docs -> Documents]
           /\ \A d \in Docs \ {req[r].d} : doc'[d] = doc[d] /\ row'[d] = row[d]
           /\ \/ "entry raced" \in happened'
              \/ /\ doc[req[r].d] = req[r].doc /\ row[req[r].d] = req[r].row
                 /\ doc'[req[r].d] = [entry EXCEPT !.rev = @ + 1]
                 /\ row'[req[r].d] = Write(req[r].row, req[r].row, Reworked(r))
           /\ happened \subseteq happened'
<1> DEFINE d == req[r].d
           n == [entry EXCEPT !.rev = @ + 1]
<1>1. /\ kind[d] = "manual" /\ req[r].step = "ready" /\ req[r].op = op
      /\ doc' = [doc EXCEPT ![d] = Write(@, req[r].doc, n)]
      /\ row' = [row EXCEPT ![d] = Write(@, req[r].row, Reworked(r))]
      /\ row[d] # req[r].row \/ doc[d] # req[r].doc => "entry raced" \in happened'
      /\ happened \subseteq happened'
  BY DEF WithEntry, WriteRow, Done
<1>2. /\ d \in Docs /\ req[r].doc \in Documents /\ doc \in [Docs -> Documents]
      /\ DOMAIN row = Docs /\ row = [e \in Docs |-> row[e]]
  BY DEF IInv, TablesTyped, RequestsFit, RequestTyped
<1>3. n \in Documents
  BY DEF Documents
<1> HIDE DEF n
<1>4. /\ Write(doc[d], req[r].doc, n) \in Documents
      /\ Write(doc[d], doc[d], n) = n
  BY <1>2, <1>3, UpdateTyped
<1>5. /\ doc' \in [Docs -> Documents] /\ doc'[d] = Write(doc[d], req[r].doc, n)
      /\ \A e \in Docs \ {d} : doc'[e] = doc[e]
  BY <1>1, <1>2, <1>4
<1>6. row'[d] = Write(row[d], req[r].row, Reworked(r)) /\ \A e \in Docs \ {d} : row'[e] = row[e]
  BY <1>1, <1>2
<1>7. QED BY <1>1, <1>2, <1>4, <1>5, <1>6 DEF n

LEMMA WriteCases ==
    ASSUME NEW r \in Requests, Writes(r)
    PROVE  \/ req[r].op \in {"edit", "delete", "restore"} /\ \E checked, old : WritePayment(r, checked, old)
           \/ \E op \in {"row edit", "row delete"} : OnPage(r, op)
           \/ EditEntry(r) \/ VoidEntry(r) \/ RestoreEntry(r)
           \/ \E k \in Payments \cup {"manual", "direct"}, d \in Docs : WriteNew(r, k, d)
           \/ \E o \in Openings, desired \in Openings \cup {None}, d \in Docs : WriteAccount(r, o, desired, d)
BY DEF Writes, EditPayment, DeletePayment, RestorePayment, EditRow, DeleteRow

\* What an entry's request makes of the entry.
LEMMA EntryMeant ==
    ASSUME NEW r \in Requests, IInv, EditEntry(r) \/ VoidEntry(r) \/ RestoreEntry(r)
    PROVE  \E entry, op, checked :
              /\ entry \in Documents /\ WithEntry(r, op, entry, checked)
              /\ CASE op = "entry edit" -> /\ entry.from = req[r].want.from /\ entry.to = req[r].want.to
                                           /\ entry.amt = req[r].want.amt /\ entry.void = req[r].doc.void
                   [] op \in {"delete", "restore"} ->
                          /\ entry.from = req[r].doc.from /\ entry.to = req[r].doc.to
                          /\ entry.amt = req[r].doc.amt /\ entry.void = (op = "delete")
                   [] OTHER -> FALSE
<1>1. req[r].doc \in Documents /\ (req[r].op = "entry edit" /\ req[r].step = "ready" => req[r].want \in LiveRows)
  BY DEF IInv, RequestsFit, RequestTyped, OpFits
<1>2. CASE EditEntry(r)
  <2> DEFINE w == req[r].want
             p == req[r].doc
             q == [p EXCEPT !.from = w.from]
             s == [q EXCEPT !.to = w.to]
             entry == [s EXCEPT !.amt = w.amt]
  <2>1. req[r].op = "entry edit" /\ req[r].step = "ready"
    BY <1>2 DEF EditEntry, WithEntry, WriteRow, Done
  <2>2. w.from \in Ends /\ w.to \in Ends /\ w.amt \in Nat
    BY <1>1, <2>1, LiveRowTyped
  <2>3. q \in Documents /\ q.from = w.from /\ q.void = p.void
    BY <1>1, <2>2 DEF Documents
  <2>4. s \in Documents /\ s.from = w.from /\ s.to = w.to /\ s.void = p.void
    <3> HIDE DEF q
    <3> QED BY <2>2, <2>3 DEF Documents
  <2>5. /\ entry \in Documents /\ entry.from = w.from /\ entry.to = w.to
        /\ entry.amt = w.amt /\ entry.void = p.void
    <3> HIDE DEF s
    <3> QED BY <2>2, <2>4 DEF Documents
  <2>6. entry = [p EXCEPT !.from = w.from, !.to = w.to, !.amt = w.amt]
    OBVIOUS
  <2>7. WithEntry(r, "entry edit", entry, w)
    BY <1>2, <2>6 DEF EditEntry
  <2> HIDE DEF entry
  <2>8. QED BY <2>5, <2>7
<1>3. CASE VoidEntry(r)
  <2> DEFINE entry == [req[r].doc EXCEPT !.void = TRUE]
  <2>1. /\ entry \in Documents /\ entry.from = req[r].doc.from /\ entry.to = req[r].doc.to
        /\ entry.amt = req[r].doc.amt /\ entry.void = ("delete" = "delete")
    BY <1>1 DEF Documents
  <2>2. WithEntry(r, "delete", entry, NoRow)
    BY <1>3 DEF VoidEntry
  <2> HIDE DEF entry
  <2>3. QED BY <2>1, <2>2
<1>4. CASE RestoreEntry(r)
  <2> DEFINE entry == [req[r].doc EXCEPT !.void = FALSE]
  <2>1. /\ entry \in Documents /\ entry.from = req[r].doc.from /\ entry.to = req[r].doc.to
        /\ entry.amt = req[r].doc.amt /\ entry.void = ("restore" = "delete")
    BY <1>1 DEF Documents
  <2>2. WithEntry(r, "restore", entry, NoRow)
    BY <1>4 DEF RestoreEntry
  <2> HIDE DEF entry
  <2>3. QED BY <2>1, <2>2
<1>5. QED BY <1>2, <1>3, <1>4

LEMMA WritesTyped ==
    ASSUME NEW r \in Requests, IInv, Writes(r)
    PROVE  /\ TablesTyped'
           /\ \A d \in Docs : kind[d] \in Versioned => doc'[d] = doc[d] \/ doc'[d].rev = doc[d].rev + 1
<1>1. /\ Docs # {} /\ doc \in [Docs -> Documents] /\ DOMAIN row = Docs
      /\ row = [d \in Docs |-> row[d]]
  BY DEF IInv, TablesTyped
<1>2. kind' \in [Docs -> Kinds]
  BY KindsStay
<1>3. DOMAIN row' = Docs /\ row' = [d \in Docs |-> row'[d]]
  <2>1. row' = row \/ \E d \in Docs : \E w : row' = [row EXCEPT ![d] = w]
    <3>1. req[r].d \in Docs
      BY DEF IInv, RequestsFit, RequestTyped
    <3>2. CASE \E checked, old : WritePayment(r, checked, old)
      BY <3>1, <3>2 DEF WritePayment
    <3>3. CASE EditEntry(r) \/ VoidEntry(r) \/ RestoreEntry(r) \/ \E op \in {"row edit", "row delete"} : OnPage(r, op)
      BY <3>1, <3>3 DEF EditEntry, VoidEntry, RestoreEntry, WithEntry, OnPage, WriteRow
    <3>4. CASE \E k \in Payments \cup {"manual", "direct"}, d \in Docs : WriteNew(r, k, d)
      BY <3>4 DEF WriteNew
    <3>5. ASSUME NEW o \in Openings, NEW desired \in Openings \cup {None}, NEW d \in Docs,
                 WriteAccount(r, o, desired, d)
          PROVE  row' = row \/ \E w : row' = [row EXCEPT ![d] = w]
      BY <3>5 DEF WriteAccount
    <3>6. QED BY <3>2, <3>3, <3>4, <3>5, WriteCases
  <2>2. QED BY <1>1, <2>1
<1>4. /\ doc' \in [Docs -> Documents]
      /\ \A d \in Docs : kind[d] \in Versioned => doc'[d] = doc[d] \/ doc'[d].rev = doc[d].rev + 1
  <2>1. ASSUME NEW checked, NEW old, WritePayment(r, checked, old), req[r].op \in {"edit", "delete", "restore"}
        PROVE  <1>4!:
    BY <2>1, PaymentWritten, EditedTyped, ZenonT(60) DEF WritePayment, Done
  <2>2. CASE EditEntry(r) \/ VoidEntry(r) \/ RestoreEntry(r)
    <3>1. PICK entry, op, checked : entry \in Documents /\ WithEntry(r, op, entry, checked)
      BY <2>2, EntryMeant
    <3>2. QED BY <3>1, EntryWritten DEF Versioned
  <2>3. ASSUME NEW k \in Payments \cup {"manual", "direct"}, NEW d \in Docs, WriteNew(r, k, d)
        PROVE  <1>4!:
    <3>1. /\ req[r].step = "ready" /\ req[r].op = k /\ kind[d] = "none"
          /\ doc' = [doc EXCEPT ![d] = [from |-> req[r].want.from, to |-> req[r].want.to,
                        amt |-> req[r].want.amt, void |-> FALSE, rev |-> 1]]
      BY <2>3 DEF WriteNew, Done
    <3>2. req[r].want \in LiveRows
      BY <3>1 DEF IInv, RequestsFit, OpFits
    <3>3. [from |-> req[r].want.from, to |-> req[r].want.to, amt |-> req[r].want.amt,
           void |-> FALSE, rev |-> 1] \in Documents
      BY <3>2, LiveRowTyped DEF Documents
    <3>4. QED BY <1>1, <3>1, <3>3 DEF Versioned
  <2>4. CASE doc' = doc
    BY <1>1, <2>4
  <2>5. QED BY <2>1, <2>2, <2>3, <2>4, WriteCases, ZenonT(60) DEF OnPage, WriteAccount
<1>5. QED BY <1>1, <1>2, <1>3, <1>4 DEF TablesTyped

\* A document that a write leaves alone stays in line with its row.
LEMMA LineFrame ==
    ASSUME NEW d \in Docs, RowInLine(d), doc'[d] = doc[d], row'[d] = row[d], kind'[d] = kind[d],
           happened \subseteq happened'
    PROVE  RowInLine(d)'
BY DEF RowInLine, Follows, Unless

\* A payment is written with the row it asks for.
LEMMA PaymentInLine ==
    ASSUME NEW r \in Requests, NEW checked, NEW old, IInv, WritePayment(r, checked, old),
           req[r].op \in {"edit", "delete", "restore"}, NEW d, d = req[r].d, NEW p, p = Edited(r)
    PROVE  RowInLine(d)'
<1>1. /\ d \in Docs /\ row'[d] = Synced(row[d], p) /\ kind[d] \in Payments /\ kind' = kind
      /\ kind[d] \in Versioned => doc[d] = req[r].doc
      /\ doc[d] = req[r].doc => doc'[d] = p
      /\ doc[d] # req[r].doc => "driver raced" \in happened'
      /\ happened \subseteq happened' /\ req[r].step = "ready"
  BY PaymentWritten DEF WritePayment, Done
<1>2. /\ p.void = (req[r].op = "delete")
      /\ req[r].op = "delete" => ~req[r].doc.void
  <2>1. req[r].op = "delete" => req[r].doc.void = FALSE
    BY <1>1 DEF IInv, RequestsFit, OpFits
  <2>2. QED BY <1>1, <2>1, EditedTyped
<1>3. RowInLine(d)
  BY <1>1 DEF IInv
<1>4. ASSUME doc[d] = req[r].doc, Follows(d) PROVE Follows(d)'
  <2>1. CASE req[r].op = "delete"
    <3>1. row[d] = [from |-> doc[d].from, to |-> doc[d].to, amt |-> doc[d].amt, live |-> TRUE]
      BY <1>2, <1>4, <2>1 DEF Follows
    <3>2. row'[d] = [row[d] EXCEPT !.live = FALSE] /\ doc'[d].void
      BY <1>1, <1>2, <1>4, <2>1 DEF Synced
    <3>3. row'[d].live = FALSE
      BY <3>1, <3>2
    <3>4. QED BY <3>2, <3>3 DEF Follows
  <2>2. CASE req[r].op # "delete"
    <3>1. p.void = FALSE /\ doc'[d] = p
      BY <1>1, <1>2, <1>4, <2>2
    <3>2. CASE row[d].live /\ <<row[d].from, row[d].to, row[d].amt>> = <<p.from, p.to, p.amt>>
      <4>1. row[d] = [from |-> doc[d].from, to |-> doc[d].to, amt |-> doc[d].amt, live |-> TRUE]
        BY <3>2, <1>4 DEF Follows
      <4>2. row[d] = [from |-> p.from, to |-> p.to, amt |-> p.amt, live |-> TRUE]
        BY <3>2, <4>1
      <4>3. row'[d] = row[d]
        BY <1>1, <3>1, <3>2 DEF Synced
      <4>4. QED BY <3>1, <4>2, <4>3 DEF Follows
    <3>3. CASE ~(row[d].live /\ <<row[d].from, row[d].to, row[d].amt>> = <<p.from, p.to, p.amt>>)
      <4>1. row'[d] = [from |-> p.from, to |-> p.to, amt |-> p.amt, live |-> TRUE]
        BY <1>1, <3>1, <3>3 DEF Synced
      <4>2. QED BY <3>1, <4>1 DEF Follows
    <3>4. QED BY <3>2, <3>3
  <2>3. QED BY <2>1, <2>2
<1>5. CASE kind[d] \in Versioned
  BY <1>1, <1>3, <1>4, <1>5 DEF RowInLine, Versioned
<1>6. CASE kind[d] = "driver"
  BY <1>1, <1>3, <1>4, <1>6 DEF RowInLine, Versioned, Unless
<1>7. QED BY <1>1, <1>5, <1>6 DEF Payments

\* A cash-flow entry is written with its row.
LEMMA EntryInLine ==
    ASSUME NEW r \in Requests, IInv, EditEntry(r) \/ VoidEntry(r) \/ RestoreEntry(r),
           NEW d, d = req[r].d
    PROVE  RowInLine(d)'
<1>1. PICK entry, op, checked :
              /\ entry \in Documents /\ WithEntry(r, op, entry, checked)
              /\ CASE op = "entry edit" -> /\ entry.from = req[r].want.from /\ entry.to = req[r].want.to
                                           /\ entry.amt = req[r].want.amt /\ entry.void = req[r].doc.void
                   [] op \in {"delete", "restore"} ->
                          /\ entry.from = req[r].doc.from /\ entry.to = req[r].doc.to
                          /\ entry.amt = req[r].doc.amt /\ entry.void = (op = "delete")
                   [] OTHER -> FALSE
  BY EntryMeant
<1>2. /\ d \in Docs /\ kind[d] = "manual" /\ req[r].step = "ready" /\ req[r].op = op /\ kind' = kind
      /\ \/ "entry raced" \in happened'
         \/ /\ doc[d] = req[r].doc /\ row[d] = req[r].row
            /\ doc'[d] = [entry EXCEPT !.rev = @ + 1]
            /\ row'[d] = Write(req[r].row, req[r].row, Reworked(r))
      /\ happened \subseteq happened'
  <2>1. kind' = kind
    BY <1>1 DEF WithEntry, WriteRow
  <2>2. entry \in Documents /\ WithEntry(r, op, entry, checked)
    BY <1>1
  <2>3. /\ req[r].d \in Docs /\ kind[req[r].d] = "manual" /\ req[r].step = "ready" /\ req[r].op = op
        /\ \/ "entry raced" \in happened'
           \/ /\ doc[req[r].d] = req[r].doc /\ row[req[r].d] = req[r].row
              /\ doc'[req[r].d] = [entry EXCEPT !.rev = @ + 1]
              /\ row'[req[r].d] = Write(req[r].row, req[r].row, Reworked(r))
        /\ happened \subseteq happened'
    BY <2>2, EntryWritten
  <2>4. QED BY <2>1, <2>3
<1>3. SUFFICES ASSUME ~("entry raced" \in happened'), ~("row edited" \in happened')
      PROVE  row'[d] = [from |-> doc'[d].from, to |-> doc'[d].to, amt |-> doc'[d].amt, live |-> ~doc'[d].void]
  BY <1>2 DEF RowInLine, Unless, Versioned
<1>4. /\ row[d] = [from |-> doc[d].from, to |-> doc[d].to, amt |-> doc[d].amt, live |-> ~doc[d].void]
      /\ doc[d] = req[r].doc /\ row[d] = req[r].row
      /\ row'[d] = Write(req[r].row, req[r].row, Reworked(r))
  BY <1>2, <1>3, ZenonT(60) DEF IInv, RowInLine, Unless
<1>5. /\ doc'[d].from = entry.from /\ doc'[d].to = entry.to /\ doc'[d].amt = entry.amt
      /\ doc'[d].void = entry.void
  BY <1>1, <1>2, <1>3 DEF Documents
<1>6. CASE op = "entry edit"
  <2>1. req[r].want \in LiveRows /\ req[r].doc.void = FALSE
    BY <1>2, <1>6 DEF IInv, RequestsFit, OpFits, RequestTyped, Documents
  <2>2. Reworked(r) = req[r].want
    BY <1>2, <1>6 DEF Reworked
  <2>3. row'[d] = req[r].want
    BY <1>4, <2>1, <2>2, LiveRowTyped, RowUpdated
  <2>4. QED BY <1>1, <1>5, <1>6, <2>1, <2>3, LiveRowTyped, ZenonT(60)
<1>7. ASSUME NEW v \in BOOLEAN, op = IF v THEN "restore" ELSE "delete"
      PROVE  row'[d] = [from |-> doc'[d].from, to |-> doc'[d].to, amt |-> doc'[d].amt, live |-> ~doc'[d].void]
  <2>1. Reworked(r) = [req[r].row EXCEPT !.live = v]
    BY <1>2, <1>7 DEF Reworked
  <2>2. Reworked(r) = [from |-> doc[d].from, to |-> doc[d].to, amt |-> doc[d].amt, live |-> v]
    BY <1>4, <2>1
  <2>3. row'[d] = Reworked(r)
    BY <1>4, <2>2, RowUpdated
  <2>4. entry.from = doc[d].from /\ entry.to = doc[d].to /\ entry.amt = doc[d].amt /\ entry.void = ~v
    BY <1>1, <1>4, <1>7
  <2>5. QED BY <1>5, <2>2, <2>3, <2>4
<1>8. QED BY <1>1, <1>6, <1>7

LEMMA LinesKept ==
    ASSUME NEW r \in Requests, IInv, Writes(r), NEW d \in Docs
    PROVE  RowInLine(d)'
<1>1. RowInLine(d) /\ (kind[d] # "none" => kind'[d] = kind[d]) /\ req[r].d \in Docs
  BY KindsStay DEF IInv, RequestsFit, RequestTyped
<1>2. happened \subseteq happened'
  BY ZenonT(60) DEF Writes, EditPayment, DeletePayment, RestorePayment, WritePayment, EditRow, DeleteRow, OnPage,
         WriteRow, EditEntry, VoidEntry, RestoreEntry, WithEntry, WriteNew, WriteAccount, Done
<1>3. ASSUME NEW checked, NEW old, WritePayment(r, checked, old), req[r].op \in {"edit", "delete", "restore"}
      PROVE  RowInLine(d)'
  <2>1. CASE d = req[r].d
    BY <1>3, <2>1, PaymentInLine
  <2>2. CASE d # req[r].d
    <3>1. doc'[d] = doc[d] /\ row'[d] = row[d] /\ kind' = kind
      BY <1>3, <2>2, PaymentWritten DEF WritePayment
    <3>2. QED BY <1>1, <1>2, <3>1, LineFrame
  <2>3. QED BY <2>1, <2>2
<1>4. CASE EditEntry(r) \/ VoidEntry(r) \/ RestoreEntry(r)
  <2>1. CASE d = req[r].d
    BY <1>4, <2>1, EntryInLine
  <2>2. CASE d # req[r].d
    <3>1. doc'[d] = doc[d] /\ row'[d] = row[d] /\ kind' = kind
      <4>1. PICK entry, op, checked : entry \in Documents /\ WithEntry(r, op, entry, checked)
        BY <1>4, EntryMeant
      <4>2. QED BY <4>1, <2>2, EntryWritten DEF WithEntry, WriteRow
    <3>2. QED BY <1>1, <1>2, <3>1, LineFrame
  <2>3. QED BY <2>1, <2>2
<1>5. ASSUME NEW op \in {"row edit", "row delete"}, OnPage(r, op) PROVE RowInLine(d)'
  <2>1. /\ doc' = doc /\ kind' = kind /\ req[r].op = op /\ req[r].step = "ready"
        /\ row' = [row EXCEPT ![req[r].d] = Write(@, req[r].row, Reworked(r))]
        /\ kind[req[r].d] \in {"driver", "manual"} => "row edited" \in happened'
    BY <1>5 DEF OnPage, WriteRow, Done
  <2>2. CASE d = req[r].d
    <3>1. kind[d] \in {"driver", "manual", "direct", "adjustment"}
      BY <2>1, <2>2 DEF IInv, RequestsFit, OpFits
    <3>2. QED BY <2>1, <2>2, <3>1 DEF RowInLine, Unless, Versioned
  <2>3. CASE d # req[r].d
    <3>1. row'[d] = row[d]
      BY <2>1, <2>3 DEF IInv, TablesTyped
    <3>2. QED BY <1>1, <1>2, <2>1, <3>1, LineFrame
  <2>4. QED BY <2>2, <2>3
<1>6. ASSUME NEW k \in Payments \cup {"manual", "direct"}, NEW e \in Docs, WriteNew(r, k, e)
      PROVE  RowInLine(d)'
  <2> DEFINE w == req[r].want
  <2>1. /\ req[r].step = "ready" /\ req[r].op = k /\ kind' = [kind EXCEPT ![e] = k]
        /\ doc' = [doc EXCEPT ![e] = [from |-> w.from, to |-> w.to, amt |-> w.amt, void |-> FALSE, rev |-> 1]]
        /\ row' = [row EXCEPT ![e] = w]
    BY <1>6 DEF WriteNew, Done
  <2>2. w = [from |-> w.from, to |-> w.to, amt |-> w.amt, live |-> TRUE]
    BY <2>1, LiveRowTyped DEF IInv, RequestsFit, OpFits
  <2>3. kind \in [Docs -> Kinds] /\ doc \in [Docs -> Documents] /\ DOMAIN row = Docs
    BY DEF IInv, TablesTyped
  <2>4. CASE d = e
    <3>1. /\ row'[d] = [from |-> doc'[d].from, to |-> doc'[d].to, amt |-> doc'[d].amt, live |-> TRUE]
          /\ doc'[d].void = FALSE
      BY <2>1, <2>2, <2>3, <2>4
    <3>2. QED BY <3>1 DEF RowInLine, Follows, Unless
  <2>5. CASE d # e
    <3>1. doc'[d] = doc[d] /\ row'[d] = row[d] /\ kind'[d] = kind[d]
      BY <2>1, <2>3, <2>5
    <3>2. QED BY <1>1, <1>2, <3>1, LineFrame
  <2>6. QED BY <2>4, <2>5
<1>7. ASSUME NEW o \in Openings, NEW desired \in Openings \cup {None}, NEW e \in Docs,
             WriteAccount(r, o, desired, e)
      PROVE  RowInLine(d)'
  <2>1. PICK w : /\ doc' = doc
                 /\ \/ kind' = kind /\ row' = row
                    \/ kind' = [kind EXCEPT ![e] = "adjustment"] /\ row' = [row EXCEPT ![e] = w]
    BY <1>7 DEF WriteAccount
  <2>2. kind \in [Docs -> Kinds] /\ DOMAIN row = Docs
    BY DEF IInv, TablesTyped
  <2>3. CASE row' = row /\ kind' = kind
    BY <1>1, <1>2, <2>1, <2>3, LineFrame
  <2>4. CASE kind' = [kind EXCEPT ![e] = "adjustment"] /\ row' = [row EXCEPT ![e] = w]
    <3>1. CASE d = e
      BY <2>2, <2>4, <3>1 DEF RowInLine, Versioned
    <3>2. CASE d # e
      BY <1>1, <1>2, <2>1, <2>2, <2>4, <3>2, LineFrame
    <3>3. QED BY <3>1, <3>2
  <2>5. QED BY <2>1, <2>3, <2>4
<1>8. QED BY <1>3, <1>4, <1>5, <1>6, <1>7, WriteCases

\* Another request still fits: a document keeps its kind, and a versioned one changes
\* only with its version.
LEMMA OthersFit ==
    ASSUME NEW q \in Requests, RequestTyped(q), OpFits(q), Versions(q), req'[q] = req[q],
           \A d \in Docs : kind[d] # "none" => kind'[d] = kind[d],
           \A d \in Docs : kind[d] \in Versioned => doc'[d] = doc[d] \/ doc'[d].rev = doc[d].rev + 1,
           doc \in [Docs -> Documents]
    PROVE  (RequestTyped(q) /\ OpFits(q) /\ Versions(q))'
<1>1. PICK d \in Docs : d = req[q].d
  BY DEF RequestTyped
<1>2. RequestTyped(q)' /\ req'[q].d = d
  BY <1>1 DEF RequestTyped
<1>3. /\ req[q].step = "form" => kind[d] # "none"
      /\ req[q].step \in {"loaded", "ready"}
            /\ req[q].op \in {"edit", "delete", "restore", "row edit", "row delete", "entry edit"}
         => kind[d] # "none"
  BY <1>1 DEF OpFits, Payments, Versioned
<1>4. OpFits(q)'
  BY <1>1, <1>2, <1>3 DEF OpFits
<1>5. ASSUME NEW p \in Documents, kind[d] \in Versioned, Earlier(p, d) PROVE Earlier(p, d)'
  <2>1. doc[d].rev \in Nat /\ p.rev \in Nat
    BY DEF Documents
  <2>2. doc'[d] = doc[d] \/ doc'[d].rev = doc[d].rev + 1
    BY <1>5
  <2>3. QED BY <1>5, <2>1, <2>2 DEF Earlier
<1>6. Versions(q)'
  <2>1. req[q].form \in Documents /\ req[q].doc \in Documents
    BY DEF RequestTyped
  <2>2. SUFFICES ASSUME kind'[d] \in Versioned
        PROVE  /\ req[q].step = "form" => Earlier(req[q].form, d)'
               /\ req[q].step \in {"loaded", "ready"} /\ req[q].op \in {"edit", "delete", "restore"}
                     => Earlier(req[q].doc, d)'
    BY <1>2 DEF Versions, Earlier
  <2>3. ASSUME req[q].step = "form" PROVE Earlier(req[q].form, d)'
    <3>1. kind[d] \in Versioned /\ Earlier(req[q].form, d)
      BY <1>1, <1>3, <2>2, <2>3 DEF Versions
    <3>2. QED BY <1>5, <2>1, <3>1 DEF Earlier
  <2>4. ASSUME req[q].step \in {"loaded", "ready"}, req[q].op \in {"edit", "delete", "restore"}
        PROVE  Earlier(req[q].doc, d)'
    <3>1. kind[d] \in Versioned /\ Earlier(req[q].doc, d)
      BY <1>1, <1>3, <2>2, <2>4 DEF Versions
    <3>2. QED BY <1>5, <2>1, <3>1 DEF Earlier
  <2>5. QED BY <2>3, <2>4
<1>7. QED BY <1>2, <1>4, <1>6

\* The initial states: openings o and one document d of kind k, void or not, with the
\* movement m.
Opened(o, d, k, v, m) ==
    LET w == IF k = "none" \/ v THEN NoRow ELSE RowOf(m) IN
    /\ k = "none" => v
    /\ \A a \in Accounts : o[a] >= 0 => o[a] + Effect(w, a) >= 0
    /\ kind = [e \in Docs |-> IF e = d THEN k ELSE "none"]
    /\ doc = [e \in Docs |-> IF e = d /\ k # "none"
                THEN [from |-> m.from, to |-> m.to, amt |-> m.amt, void |-> v, rev |-> 1]
                ELSE NoDoc]
    /\ row = [e \in Docs |-> IF e = d /\ k # "none"
                THEN [RowOf(m) EXCEPT !.live = ~v] ELSE NoRow]
    /\ account = [a \in Accounts |->
                [opening |-> o[a], balance |-> o[a] + Effect(w, a), rev |-> 1]]
    /\ owing = {a \in Accounts : o[a] < 0 /\ o[a] + Effect(w, a) < 0}

LEMMA InitOpened ==
    Init => \E o \in [Accounts -> Openings], d \in Docs,
               k \in Payments \cup {"manual", "direct", "none"}, v \in BOOLEAN :
              \E m \in MovementsOf(k) : Opened(o, d, k, v, m)
BY Zenon DEF Init, Opened

LEMMA InitInv == Init => IInv
<1> SUFFICES ASSUME Init PROVE IInv
  OBVIOUS
<1>0. PICK o \in [Accounts -> Openings], d \in Docs,
           k \in Payments \cup {"manual", "direct", "none"}, v \in BOOLEAN :
         \E m \in MovementsOf(k) : Opened(o, d, k, v, m)
  BY InitOpened
<1>1. PICK m \in MovementsOf(k) :
         /\ kind = [e \in Docs |-> IF e = d THEN k ELSE "none"]
         /\ doc = [e \in Docs |-> IF e = d /\ k # "none"
                     THEN [from |-> m.from, to |-> m.to, amt |-> m.amt, void |-> v, rev |-> 1]
                     ELSE NoDoc]
         /\ row = [e \in Docs |-> IF e = d /\ k # "none"
                     THEN [RowOf(m) EXCEPT !.live = ~v] ELSE NoRow]
  BY <1>0 DEF Opened
<1>2. m \in Movements
  <2>1. \A j : MovementsOf(j) \subseteq Movements
    BY DEF MovementsOf, In, Out, Transfers
  <2>2. QED BY <2>1
<1>3. m.from \in Ends /\ m.to \in Ends /\ m.amt \in Nat
  BY <1>2, LedgerAssumption DEF Movements, Ends
<1>4. TablesTyped
  <2>1. NoDoc \in Documents
    BY DEF NoDoc, Documents, Ends
  <2>2. [from |-> m.from, to |-> m.to, amt |-> m.amt, void |-> v, rev |-> 1] \in Documents
    BY <1>3 DEF Documents
  <2>3. k \in Kinds /\ "none" \in Kinds
    BY DEF Kinds
  <2>4. kind \in [Docs -> Kinds]
    BY <1>1, <2>3
  <2>5. doc \in [Docs -> Documents]
    BY <1>1, <2>1, <2>2
  <2>6. DOMAIN row = Docs /\ row = [e \in Docs |-> row[e]]
    BY <1>1
  <2>7. QED BY <2>4, <2>5, <2>6 DEF TablesTyped
<1>5. RequestsFit
  <2>1. req = [r \in Requests |-> Idle]
    BY DEF Init
  <2>2. ASSUME NEW r \in Requests PROVE RequestTyped(r) /\ OpFits(r) /\ Versions(r)
    <3>1. (CHOOSE e \in Docs : TRUE) \in Docs
      BY <1>1
    <3>2. NoDoc \in Documents
      BY DEF NoDoc, Documents, Ends
    <3>3. req[r] = Idle
      BY <2>1
    <3>4. QED BY <3>1, <3>2, <3>3 DEF Idle, RequestTyped, OpFits, Versions, Fields, Payments, Versioned
  <2>3. QED BY <2>1, <2>2 DEF RequestsFit
<1>6. ASSUME NEW e \in Docs PROVE RowInLine(e)
  <2>1. CASE e = d /\ k # "none"
    <3>1. /\ doc[e] = [from |-> m.from, to |-> m.to, amt |-> m.amt, void |-> v, rev |-> 1]
          /\ row[e] = [RowOf(m) EXCEPT !.live = ~v]
      BY <1>1, <2>1
    <3>2. row[e] = [from |-> m.from, to |-> m.to, amt |-> m.amt, live |-> ~v]
      BY <3>1 DEF RowOf
    <3>3. row[e] = [from |-> doc[e].from, to |-> doc[e].to, amt |-> doc[e].amt, live |-> ~doc[e].void]
      BY <3>1, <3>2
    <3>4. Follows(e)
      <4>1. doc[e].void = v /\ row[e].live = ~v
        BY <3>1, <3>2
      <4>2. CASE v
        BY <4>1, <4>2 DEF Follows
      <4>3. CASE ~v
        <5>1. row[e] = [from |-> doc[e].from, to |-> doc[e].to, amt |-> doc[e].amt, live |-> TRUE]
          BY <3>3, <4>1, <4>3
        <5>2. QED BY <4>1, <4>3, <5>1 DEF Follows
      <4>4. QED BY <4>2, <4>3
    <3>5. QED BY <3>3, <3>4 DEF RowInLine, Unless
  <2>2. CASE ~(e = d /\ k # "none")
    <3>1. kind[e] = "none"
      BY <1>1, <2>2
    <3>2. QED BY <3>1 DEF RowInLine, Versioned
  <2>3. QED BY <2>1, <2>2
<1>7. QED BY <1>4, <1>5, <1>6 DEF IInv

LEMMA NextInv == IInv /\ [LedgerNext]_vars => IInv'
<1>1. ASSUME IInv, UNCHANGED vars PROVE IInv'
  BY <1>1, ZenonT(60) DEF vars, IInv, TablesTyped, RequestsFit, RequestTyped, OpFits, Versions, Earlier, RowInLine,
              Follows, Unless
<1>2. ASSUME IInv, NEW r \in Requests, Reads(r) PROVE IInv'
  <2>1. /\ UNCHANGED <<kind, doc, row, happened>>
        /\ req' = [q \in Requests |-> req'[q]] /\ \A q \in Requests \ {r} : req'[q] = req[q]
    BY <1>2, ReadsOnly DEF IInv
  <2>2. TablesTyped /\ doc \in [Docs -> Documents]
    BY <1>2 DEF IInv, TablesTyped
  <2>3. TablesTyped'
    BY <2>1, <2>2 DEF TablesTyped
  <2>4. ASSUME NEW q \in Requests PROVE (RequestTyped(q) /\ OpFits(q) /\ Versions(q))'
    <3>1. CASE q = r
      BY <1>2, <3>1, ReadFits
    <3>2. CASE q # r
      <4>1. RequestTyped(q) /\ OpFits(q) /\ Versions(q)
        BY <1>2 DEF IInv, RequestsFit
      <4>2. QED BY <2>1, <2>2, <3>2, <4>1, OthersFit
    <3>3. QED BY <3>1, <3>2
  <2>5. RequestsFit'
    BY <2>1, <2>4 DEF RequestsFit
  <2>6. ASSUME NEW d \in Docs PROVE RowInLine(d)'
    <3>1. RowInLine(d)
      BY <1>2 DEF IInv
    <3>2. QED BY <2>1, <3>1, LineFrame
  <2>7. QED BY <2>3, <2>5, <2>6 DEF IInv
<1>3. ASSUME IInv, NEW r \in Requests, Writes(r) PROVE IInv'
  <2>1. /\ req'[r] = Idle /\ \A q \in Requests \ {r} : req'[q] = req[q]
        /\ req' = [q \in Requests |-> req'[q]]
    BY <1>3, WritesEnd DEF IInv
  <2>2. /\ TablesTyped' /\ Docs # {} /\ doc \in [Docs -> Documents]
        /\ \A d \in Docs : kind[d] \in Versioned => doc'[d] = doc[d] \/ doc'[d].rev = doc[d].rev + 1
        /\ \A d \in Docs : kind[d] # "none" => kind'[d] = kind[d]
    BY <1>3, WritesTyped, KindsStay DEF IInv, TablesTyped
  <2>3. ASSUME NEW q \in Requests PROVE (RequestTyped(q) /\ OpFits(q) /\ Versions(q))'
    <3>1. CASE q = r
      BY <2>1, <2>2, <3>1, IdleFits
    <3>2. CASE q # r
      <4>1. RequestTyped(q) /\ OpFits(q) /\ Versions(q)
        BY <1>3 DEF IInv, RequestsFit
      <4>2. QED BY <2>1, <2>2, <3>2, <4>1, OthersFit
    <3>3. QED BY <3>1, <3>2
  <2>4. RequestsFit'
    BY <2>1, <2>3 DEF RequestsFit
  <2>5. \A d \in Docs : RowInLine(d)'
    BY <1>3, LinesKept
  <2>6. QED BY <2>2, <2>4, <2>5 DEF IInv
<1>4. QED BY <1>1, <1>2, <1>3, NextCases

LEMMA InvHolds == LedgerSpec => []IInv
BY InitInv, NextInv, PTL DEF LedgerSpec

\* RowsFollowPayments (payments_crud.py, driver_payments.py, cash_flow_svc.py): a client
\* or supplier payment has the ledger row it asks for whatever overlaps; a driver
\* payment or cash-flow entry until an overlap or an edit on the Accounts page.
THEOREM RowsKeptInLine == LedgerSpec => []RowsFollowPayments
<1>1. ASSUME IInv PROVE RowsFollowPayments
  <2>1. ASSUME NEW d \in Docs
        PROVE  /\ kind[d] \in Versioned => Follows(d)
               /\ kind[d] = "driver" => Unless({"driver raced", "row edited"}, Follows(d))
               /\ kind[d] = "manual" => Unless({"entry raced", "row edited"}, Follows(d))
    <3>1. RowInLine(d) /\ doc[d].void \in BOOLEAN
      BY <1>1 DEF IInv, TablesTyped, Documents
    <3>2. ASSUME row[d] = [from |-> doc[d].from, to |-> doc[d].to, amt |-> doc[d].amt, live |-> ~doc[d].void]
          PROVE  Follows(d)
      <4>1. CASE doc[d].void
        <5>1. doc[d].void = TRUE
          BY <3>1, <4>1
        <5>2. row[d].live = FALSE
          <6>1. row[d].live = ~doc[d].void
            BY <3>2
          <6>2. QED BY <5>1, <6>1
        <5>3. QED BY <4>1, <5>2 DEF Follows
      <4>2. CASE ~doc[d].void
        <5>1. row[d] = [from |-> doc[d].from, to |-> doc[d].to, amt |-> doc[d].amt, live |-> TRUE]
          BY <3>2, <4>2
        <5>2. QED BY <4>2, <5>1 DEF Follows
      <4>3. QED BY <4>1, <4>2
    <3>3. QED BY <3>1, <3>2 DEF RowInLine, Unless
  <2>2. QED BY <2>1 DEF RowsFollowPayments
<1>2. QED BY <1>1, InvHolds, PTL

\* NoLostEdit (payments_crud.py:314): the edit of a client or supplier payment is only
\* ever written over the version its form was filled from.
THEOREM EditsSeeTheirForm == LedgerSpec => NoLostEdit
<1>1. ASSUME IInv, [LedgerNext]_vars
      PROVE  [\A r \in Requests :
                 (req[r].step = "ready" /\ req[r].op = "edit" /\ kind[req[r].d] \in Versioned
                    /\ req'[r].step = "idle" /\ doc' # doc)
                 => doc[req[r].d] = req[r].form]_vars
  <2>1. CASE UNCHANGED vars
    BY <2>1
  <2>2. ASSUME NEW s \in Requests, Reads(s) PROVE doc' = doc
    BY <1>1, <2>2, ReadsOnly DEF IInv
  <2>3. ASSUME NEW s \in Requests, Writes(s), NEW r \in Requests, req[r].step = "ready",
               req[r].op = "edit", kind[req[r].d] \in Versioned, req'[r].step = "idle", doc' # doc
        PROVE  doc[req[r].d] = req[r].form
    <3>1. r = s
      BY <1>1, <2>3, WritesEnd DEF IInv
    <3>2. PICK checked, old : WritePayment(r, checked, old)
      <4>1. ASSUME NEW k \in Payments \cup {"manual", "direct"}, NEW d \in Docs, WriteNew(r, k, d)
            PROVE  FALSE
        BY <2>3, <4>1 DEF WriteNew, Payments, Versioned
      <4>2. QED
        BY <2>3, <3>1, <4>1, WriteCases, ZenonT(60) DEF OnPage, EditEntry, VoidEntry, RestoreEntry, WithEntry, WriteAccount
    <3>3. doc[req[r].d] = req[r].doc
      BY <1>1, <2>3, <3>2, PaymentWritten
    <3>4. req[r].doc = req[r].form
      BY <1>1, <2>3 DEF IInv, RequestsFit, OpFits
    <3>5. QED BY <3>3, <3>4
  <2>4. QED BY <1>1, <2>1, <2>2, <2>3, NextCases
<1>2. QED BY <1>1, InvHolds, PTL DEF LedgerSpec, NoLostEdit

------------------------------------------------------------------------------
(* Money.                                                                    *)

Rows == [from : Ends, to : Ends, amt : Nat, live : BOOLEAN]
AccountRows == [opening : Int, balance : Int, rev : Nat]
Copies == [balance : Int, rev : Int]
Unread == [a \in Accounts |-> NotLoaded]

MoneyTyped ==
    /\ account \in [Accounts -> AccountRows] /\ row \in [Docs -> Rows]
    /\ \A d \in Docs : kind[d] = "none" => row[d] = NoRow
HeldTyped(r) ==
    /\ req[r].row \in Rows /\ req[r].want \in Rows /\ req[r].seen \in [Accounts -> Copies]
    /\ req[r].step \in {"idle", "form"} => req[r].seen = Unread
    /\ req[r].step = "loaded" /\ req[r].op # "entry edit" => req[r].seen = Unread
    /\ req[r].step = "ready" /\ req[r].op = "account" => req[r].want.to \in Accounts

\* A copy of an account is of its present version or of an earlier one.
CopyFresh(r, a) ==
    LET s == req[r].seen[a] IN
    s # NotLoaded => s.rev <= account[a].rev /\ (s.rev = account[a].rev => s.balance = account[a].balance)

\* The copy a request keeps covers what it is about to take out.
Covers(r, a) ==
    LET q == req[r]
        has == q.seen[a].balance IN
    /\ q.step = "loaded" /\ q.op = "entry edit" => q.seen[a] # NotLoaded
    /\ q.step = "ready" =>
        /\ q.op \in Payments \cup {"manual", "direct"} => q.seen[a] # NotLoaded /\ has >= q.want.amt
        /\ q.op = "edit" => q.seen[a] # NotLoaded /\ has + GivenBack(q.doc, q.want) >= q.want.amt
        /\ q.op = "restore" /\ kind[q.d] \in {"supplier", "driver"}
              => q.seen[a] # NotLoaded /\ has >= q.want.amt
        /\ q.op = "entry edit" => q.seen[a] # NotLoaded /\ has - Effect(q.row, a) >= q.want.amt

MoneyInv ==
    /\ MoneyTyped
    /\ \A r \in Requests : HeldTyped(r) /\ \A a \in Accounts :
          CopyFresh(r, a) /\ (req[r].want.from = a => Covers(r, a))
    /\ BalanceMatchesLedger /\ NoOverdraft

LEMMA EffectType ==
    ASSUME NEW w \in Rows, NEW a \in Accounts
    PROVE  /\ Effect(w, a) \in Int /\ (w.live /\ w.from = a => Effect(w, a) >= -w.amt)
           /\ Effect(NoRow, a) = 0
<1>1. w.amt \in Nat
  BY DEF Rows
<1>2. Effect(NoRow, a) = 0
  BY DEF Effect, NoRow
<1>3. Effect(w, a) \in Int /\ (w.live /\ w.from = a => Effect(w, a) >= -w.amt)
  BY <1>1 DEF Effect
<1> QED BY <1>2, <1>3

\* A ledger row is updated like any other: to a row, and to what was meant if nobody
\* changed it in the meantime.
LEMMA RowTyped ==
    ASSUME NEW p \in Rows, NEW q \in Rows, NEW n \in Rows
    PROVE  Write(p, q, n) \in Rows /\ Write(p, p, n) = n
<1>1. DOMAIN p = {"from", "to", "amt", "live"}
  BY DEF Rows
<1>2. \A o \in Rows : Write(p, o, n) = [from |-> IF n.from = o.from THEN p.from ELSE n.from,
                                        to   |-> IF n.to = o.to THEN p.to ELSE n.to,
                                        amt  |-> IF n.amt = o.amt THEN p.amt ELSE n.amt,
                                        live |-> IF n.live = o.live THEN p.live ELSE n.live]
  BY <1>1 DEF Write
<1>3. Write(p, q, n) \in Rows
  BY <1>2 DEF Rows
<1>4. n = [from |-> n.from, to |-> n.to, amt |-> n.amt, live |-> n.live]
  BY DEF Rows
<1>5. Write(p, p, n) = n
  BY <1>2, <1>4
<1> QED BY <1>3, <1>5

LEMMA RowsOfDocuments ==
    /\ NoRow \in Rows /\ LiveRows \subseteq Rows
    /\ \A w \in Rows, v \in BOOLEAN : [w EXCEPT !.live = v] \in Rows
    /\ \A w \in Rows, p \in Documents : Synced(w, p) \in Rows
<1>1. NoRow \in Rows
  BY DEF NoRow, Rows, Ends
<1>2. ASSUME NEW w \in LiveRows PROVE w \in Rows
  <2>1. /\ w.from \in Ends /\ w.to \in Ends /\ w.amt \in Nat
        /\ w = [from |-> w.from, to |-> w.to, amt |-> w.amt, live |-> TRUE]
    BY LiveRowTyped
  <2>2. [from |-> w.from, to |-> w.to, amt |-> w.amt, live |-> TRUE] \in Rows
    BY <2>1 DEF Rows
  <2> QED BY <2>1, <2>2
<1>3. \A w \in Rows, v \in BOOLEAN : [w EXCEPT !.live = v] \in Rows
  BY DEF Rows
<1>4. ASSUME NEW w \in Rows, NEW p \in Documents PROVE Synced(w, p) \in Rows
  <2>1. [w EXCEPT !.live = FALSE] \in Rows
    BY <1>3
  <2>2. [from |-> p.from, to |-> p.to, amt |-> p.amt, live |-> TRUE] \in Rows
    BY DEF Documents, Rows
  <2> QED BY <2>1, <2>2 DEF Synced
<1> QED BY <1>1, <1>2, <1>3, <1>4

\* One row changes: the account's sum of rows moves by the difference.
RowSum(a) == SumFunction([d \in Docs |-> Effect(row[d], a)])

LEMMA RowSumMoves ==
    ASSUME NEW a \in Accounts, NEW d \in Docs, row \in [Docs -> Rows], row' \in [Docs -> Rows],
           \A e \in Docs \ {d} : row'[e] = row[e]
    PROVE  RowSum(a) \in Int /\ RowSum(a)' = RowSum(a) + Effect(row'[d], a) - Effect(row[d], a)
<1> DEFINE f == [e \in Docs |-> Effect(row[e], a)]
           h == [e \in Docs |-> Effect(row'[e], a)]
<1>1. \A e \in Docs : f[e] \in Int /\ h[e] \in Int
  BY EffectType
<1>2. \A e \in Docs \ {d} : h[e] = f[e]
  OBVIOUS
<1>3. RowSum(a) = SumFunctionOnSet(f, Docs) /\ RowSum(a)' = SumFunctionOnSet(h, Docs)
  BY DEF RowSum, SumFunction
<1>4. IsFiniteSet(Docs)
  BY LedgerAssumption
<1>5. f[d] = Effect(row[d], a) /\ h[d] = Effect(row'[d], a)
  OBVIOUS
<1> HIDE DEF f, h
<1>6. SumFunctionOnSet(f, Docs) \in Int
  BY <1>1, <1>4, SumType
<1>7. SumFunctionOnSet(h, Docs) = SumFunctionOnSet(f, Docs) + h[d] - f[d]
  BY <1>1, <1>2, <1>4, SumChange
<1> QED BY <1>3, <1>5, <1>6, <1>7

\* A balance written from a copy that is not stale moves by the change, whatever
\* other requests have done to the account.
LEMMA BalancesMove ==
    ASSUME NEW r \in Requests, MoneyInv, NEW change \in [Accounts -> Int], NEW out, NEW events,
           Done(r, change, out, events)
    PROVE  /\ account' \in [Accounts -> AccountRows]
           /\ \A a \in Accounts :
                /\ account'[a].balance = account[a].balance + change[a]
                /\ account'[a].opening = account[a].opening
                /\ account'[a] = account[a] \/ account'[a].rev = account[a].rev + 1
                /\ change[a] # 0 /\ req[r].seen[a] # NotLoaded
                      => account[a].balance = req[r].seen[a].balance
<1>1. ASSUME NEW a \in Accounts, change[a] # 0 PROVE Base(r, a) = account[a].balance
  <2>1. ~StaleAccount(r, {e \in Accounts : change[e] # 0})
    BY DEF Done
  <2>2. req[r].seen[a] = NotLoaded \/ req[r].seen[a].rev = account[a].rev
    BY <1>1, <2>1 DEF StaleAccount
  <2>3. CopyFresh(r, a)
    BY DEF MoneyInv
  <2> QED BY <2>2, <2>3 DEF CopyFresh, Base
<1>2. ASSUME NEW a \in Accounts
      PROVE  /\ account'[a] \in AccountRows
             /\ account'[a].balance = account[a].balance + change[a]
             /\ account'[a].opening = account[a].opening
             /\ account'[a] = account[a] \/ account'[a].rev = account[a].rev + 1
  <2>1. /\ account[a] \in AccountRows /\ account[a].balance \in Int /\ account[a].opening \in Int
        /\ account[a].rev \in Nat /\ change[a] \in Int
    BY DEF MoneyInv, MoneyTyped, AccountRows
  <2>2. CASE change[a] = 0
    <3>1. account'[a] = account[a]
      BY <2>2 DEF Done, Post
    <3> QED BY <2>1, <2>2, <3>1
  <2>3. CASE change[a] # 0
    <3> DEFINE p == [account[a] EXCEPT !.balance = Base(r, a) + change[a]]
    <3>1. p = [opening |-> account[a].opening, balance |-> account[a].balance + change[a],
               rev |-> account[a].rev]
      BY <1>1, <2>1, <2>3 DEF AccountRows
    <3>2. account'[a] = [p EXCEPT !.rev = @ + 1]
      BY <2>3 DEF Done, Post
    <3>3. account'[a] = [opening |-> account[a].opening, balance |-> account[a].balance + change[a],
                         rev |-> account[a].rev + 1]
      <4> HIDE DEF p
      <4> QED BY <3>1, <3>2
    <3>4. account[a].balance + change[a] \in Int /\ account[a].rev + 1 \in Nat
      BY <2>1
    <3> QED BY <2>1, <3>3, <3>4 DEF AccountRows
  <2> QED BY <2>2, <2>3
<1>3. account' \in [Accounts -> AccountRows]
  <2>1. account' = [a \in Accounts |-> account'[a]]
    BY DEF Done, Post
  <2> QED BY <1>2, <2>1
<1>4. ASSUME NEW a \in Accounts, change[a] # 0, req[r].seen[a] # NotLoaded
      PROVE  account[a].balance = req[r].seen[a].balance
  BY <1>1, <1>4 DEF Base
<1> QED BY <1>2, <1>3, <1>4

------------------------------------------------------------------------------
LEMMA CopyTyped ==
    ASSUME MoneyInv, NEW a \in Accounts
    PROVE  /\ Copy(a) \in Copies /\ Copy(a) # NotLoaded /\ Copy(a).rev = account[a].rev
           /\ Copy(a).balance = account[a].balance /\ account[a].rev \in Nat
<1>1. account[a].rev \in Nat /\ account[a].balance \in Int
  BY DEF MoneyInv, MoneyTyped, AccountRows
<1> QED BY <1>1 DEF Copies, Copy, NotLoaded

LEMMA LoadingTyped ==
    ASSUME NEW r \in Requests, MoneyInv, NEW as
    PROVE  LoadAccounts(r, as) \in [Accounts -> Copies]
<1>1. req[r].seen \in [Accounts -> Copies]
  BY DEF MoneyInv, HeldTyped
<1> QED BY <1>1, CopyTyped DEF LoadAccounts

\* An account is copied as it is, unless the request has a copy already.
LEMMA Loading ==
    ASSUME NEW r \in Requests, MoneyInv, NEW as, NEW a \in Accounts, NEW s, s = LoadAccounts(r, as)
    PROVE  /\ s[a] # NotLoaded => /\ s[a].rev <= account[a].rev
                                  /\ s[a].rev = account[a].rev => s[a].balance = account[a].balance
           /\ a \in as \/ req[r].seen[a] # NotLoaded => s[a] # NotLoaded
           /\ a \in as /\ req[r].seen = Unread => s[a].balance = account[a].balance
<1>1. CopyFresh(r, a)
  BY DEF MoneyInv
<1>2. s[a] = IF a \in as /\ req[r].seen[a] = NotLoaded THEN Copy(a) ELSE req[r].seen[a]
  BY DEF LoadAccounts
<1>3. req[r].seen = Unread => req[r].seen[a] = NotLoaded
  BY DEF Unread
<1>4. CASE a \in as /\ req[r].seen[a] = NotLoaded
  <2>1. s[a] = Copy(a)
    BY <1>2, <1>4
  <2>2. /\ s[a].rev = account[a].rev /\ s[a].balance = account[a].balance /\ s[a] # NotLoaded
        /\ account[a].rev \in Nat
    BY <2>1, CopyTyped
  <2>3. s[a].rev <= account[a].rev
    BY <2>2
  <2> HIDE DEF NotLoaded
  <2> QED BY <2>2, <2>3
<1>5. CASE ~(a \in as /\ req[r].seen[a] = NotLoaded)
  <2>1. s[a] = req[r].seen[a]
    BY <1>2, <1>5
  <2> QED BY <1>1, <1>3, <1>5, <2>1 DEF CopyFresh
<1> QED BY <1>4, <1>5

LEMMA IdleHolds ==
    ASSUME NEW r \in Requests, req'[r] = Idle
    PROVE  /\ HeldTyped(r)'
           /\ \A a \in Accounts : CopyFresh(r, a)' /\ (req'[r].want.from = a => Covers(r, a)')
<1>1. /\ Idle.step = "idle" /\ Idle.row = NoRow /\ Idle.want = NoRow /\ Idle.seen = Unread
      /\ NoRow.from = None
  BY DEF Idle, NoRow, Unread
<1>2. NotLoaded \in Copies /\ None \notin Accounts
  BY LedgerAssumption DEF NotLoaded, Copies
<1>3. Unread \in [Accounts -> Copies] /\ \A a \in Accounts : Unread[a] = NotLoaded
  BY <1>2 DEF Unread
<1>4. HeldTyped(r)'
  BY <1>1, <1>3, RowsOfDocuments DEF HeldTyped
<1>5. \A a \in Accounts : CopyFresh(r, a)' /\ req'[r].want.from # a
  BY <1>1, <1>2, <1>3 DEF CopyFresh
<1> QED BY <1>4, <1>5

LEMMA MovementRow ==
    ASSUME NEW m \in Movements
    PROVE  /\ RowOf(m) \in Rows /\ RowOf(m).from = m.from /\ RowOf(m).amt = m.amt /\ RowOf(m).live
           /\ \A a \in Accounts : m.from = a => a \in AccountsOf(m)
<1>1. RowOf(m) \in LiveRows
  BY DEF LiveRows, RowOf
<1>2. None \notin Accounts
  BY LedgerAssumption
<1> QED BY <1>1, <1>2, RowsOfDocuments DEF RowOf, AccountsOf

\* What a request copies is fresh, and covers what the request has compared with it.
LEMMA ReadHolds ==
    ASSUME NEW r \in Requests, IInv, MoneyInv, Reads(r)
    PROVE  /\ account' = account /\ HeldTyped(r)'
           /\ \A a \in Accounts : CopyFresh(r, a)' /\ (req'[r].want.from = a => Covers(r, a)')
<1>0. account' = account /\ kind' = kind
  BY DEF Reads, PostForm, CheckVoid, CheckEntryEdit, Abandon, Refused, OpenForm, LoadEntryEdit,
         LoadDocument, CheckEdit, CheckRow, CheckNew, CheckAccount, Ready
<1>a. /\ DOMAIN req[r] = Fields /\ r \in DOMAIN req /\ req[r].d \in Docs /\ OpFits(r)
      /\ doc \in [Docs -> Documents] /\ req[r].doc \in Documents
  BY DEF IInv, TablesTyped, RequestsFit, RequestTyped
<1>b. /\ HeldTyped(r) /\ \A a \in Accounts : CopyFresh(r, a) /\ (req[r].want.from = a => Covers(r, a))
      /\ account \in [Accounts -> AccountRows] /\ row \in [Docs -> Rows]
  BY DEF MoneyInv, MoneyTyped
<1>c. None \notin Accounts
  BY LedgerAssumption
<1>1. CASE req'[r] = Idle
  BY <1>0, <1>1, IdleHolds
<1>2. CASE PostForm(r) /\ req'[r] # Idle
  <2>1. req[r].step = "form" /\ req' = [req EXCEPT ![r].step = "loaded", ![r].doc = doc[req[r].d]]
    BY <1>2, <1>a DEF PostForm
  <2>2. /\ req'[r].step = "loaded" /\ req'[r].op = req[r].op /\ req'[r].row = req[r].row
        /\ req'[r].want = req[r].want /\ req'[r].seen = req[r].seen
    BY <2>1, <1>a DEF Fields
  <2>3. req[r].op = "edit"
    BY <2>1, <1>a DEF OpFits
  <2> QED BY <1>0, <1>b, <2>1, <2>2, <2>3 DEF HeldTyped, CopyFresh, Covers
<1>3. CASE \E d \in Docs : OpenForm(r, d)
  <2>1. PICK d \in Docs : OpenForm(r, d)
    BY <1>3
  <2>2. /\ req[r].step = "idle" /\ req'[r].step = "form" /\ req'[r].row = req[r].row
        /\ req'[r].want = req[r].want /\ req'[r].seen = req[r].seen
    BY <2>1, <1>a DEF OpenForm, Fields
  <2> QED BY <1>0, <1>b, <2>2 DEF HeldTyped, CopyFresh, Covers
<1>4. CASE \E d \in Docs, op \in {"delete", "restore", "row edit", "row delete"} : LoadDocument(r, d, op)
  <2>1. PICK d \in Docs, op \in {"delete", "restore", "row edit", "row delete"} : LoadDocument(r, d, op)
    BY <1>4
  <2>2. /\ req[r].step = "idle" /\ req'[r].step = "loaded" /\ req'[r].op = op /\ req'[r].row = row[d]
        /\ req'[r].want = req[r].want /\ req'[r].seen = req[r].seen
    BY <2>1, <1>a DEF LoadDocument, Fields
  <2> QED BY <1>0, <1>b, <2>2 DEF HeldTyped, CopyFresh, Covers
<1>5. CASE \E d \in Docs : LoadEntryEdit(r, d)
  <2>1. PICK d \in Docs, m \in Movements :
           /\ req[r].step = "idle"
           /\ req' = [req EXCEPT ![r].step = "loaded", ![r].op = "entry edit", ![r].d = d,
                              ![r].doc = doc[d], ![r].want = RowOf(m),
                              ![r].seen = LoadAccounts(r, AccountsOf(m))]
    BY <1>5 DEF LoadEntryEdit, MovementsOf, In, Out, Transfers
  <2>2. /\ req'[r].step = "loaded" /\ req'[r].op = "entry edit" /\ req'[r].row = req[r].row
        /\ req'[r].want = RowOf(m) /\ req'[r].seen = LoadAccounts(r, AccountsOf(m))
    BY <2>1, <1>a DEF Fields
  <2>3. HeldTyped(r)'
    BY <1>b, <2>2, MovementRow, LoadingTyped, ZenonT(60) DEF HeldTyped
  <2>4. ASSUME NEW a \in Accounts PROVE CopyFresh(r, a)' /\ (req'[r].want.from = a => Covers(r, a)')
    <3>1. CopyFresh(r, a)'
      BY <1>0, <2>2, Loading, ZenonT(60) DEF CopyFresh
    <3>2. ASSUME m.from = a PROVE Covers(r, a)'
      <4>1. LoadAccounts(r, AccountsOf(m))[a] # NotLoaded
        BY <3>2, MovementRow, Loading
      <4> QED BY <2>2, <4>1 DEF Covers
    <3> QED BY <2>2, <3>1, <3>2, MovementRow
  <2> QED BY <1>0, <2>3, <2>4
<1>6. CASE \E m \in Movements, k \in Payments \cup {"manual", "direct"} : CheckNew(r, k, m)
  <2>1. PICK m \in Movements, k \in Payments \cup {"manual", "direct"} : CheckNew(r, k, m)
    BY <1>6
  <2>2. /\ req'[r].step = "ready" /\ req'[r].op = k /\ req'[r].row = req[r].row
        /\ req'[r].want = RowOf(m) /\ req'[r].seen = LoadAccounts(r, AccountsOf(m))
        /\ req[r].step = "idle" /\ (m.from # None => account[m.from].balance >= m.amt)
    BY <2>1, <1>a DEF CheckNew, Fields
  <2>3. HeldTyped(r)'
    BY <1>b, <2>1, <2>2, MovementRow, LoadingTyped DEF HeldTyped, Payments, Versioned
  <2>4. ASSUME NEW a \in Accounts PROVE CopyFresh(r, a)' /\ (req'[r].want.from = a => Covers(r, a)')
    <3>1. CopyFresh(r, a)'
      BY <1>0, <2>2, Loading DEF CopyFresh
    <3>2. ASSUME m.from = a PROVE Covers(r, a)'
      <4>1. req[r].seen = Unread
        BY <1>b, <2>2 DEF HeldTyped
      <4>2. /\ LoadAccounts(r, AccountsOf(m))[a] # NotLoaded
            /\ LoadAccounts(r, AccountsOf(m))[a].balance = account[a].balance
        BY <3>2, <4>1, MovementRow, Loading
      <4>3. k # "edit" /\ k # "restore" /\ k # "entry edit"
        BY <2>1 DEF Payments, Versioned
      <4> QED BY <1>c, <2>2, <3>2, <4>2, <4>3, MovementRow DEF Covers
    <3> QED BY <2>2, <3>1, <3>2, MovementRow
  <2> QED BY <1>0, <2>3, <2>4
<1>7. CASE \E a \in Accounts : CheckAccount(r, a)
  <2>1. PICK b \in Accounts : CheckAccount(r, b)
    BY <1>7
  <2>2. /\ req'[r].step = "ready" /\ req'[r].op = "account" /\ req'[r].row = req[r].row
        /\ req'[r].want = [NoRow EXCEPT !.to = b] /\ req'[r].seen = LoadAccounts(r, {b})
    BY <2>1, <1>a DEF CheckAccount, Fields
  <2>3. [NoRow EXCEPT !.to = b] \in Rows /\ [NoRow EXCEPT !.to = b].to = b
    BY DEF NoRow, Rows, Ends
  <2>4. HeldTyped(r)'
    BY <1>b, <2>2, <2>3, LoadingTyped, ZenonT(60) DEF HeldTyped
  <2>5. ASSUME NEW a \in Accounts PROVE CopyFresh(r, a)' /\ Covers(r, a)'
    BY <1>0, <2>2, Loading DEF CopyFresh, Covers, Payments, Versioned
  <2> QED BY <1>0, <2>4, <2>5
<1>8. ASSUME NEW want \in Rows, NEW as, NEW w \in Rows, req[r].step = "loaded",
             Ready(r, want, LoadAccounts(r, as), w) \/ (as = {} /\ Ready(r, want, req[r].seen, w)),
             req[r].op \in {"edit", "delete", "restore", "row edit", "row delete", "entry edit"}
      PROVE  /\ req'[r].step = "ready" /\ req'[r].op = req[r].op /\ req'[r].d = req[r].d
             /\ req'[r].doc = req[r].doc /\ req'[r].row = w /\ req'[r].want = want
             /\ req'[r].seen \in {LoadAccounts(r, as), req[r].seen}
             /\ (as # {} => req'[r].seen = LoadAccounts(r, as))
             /\ HeldTyped(r)' /\ \A a \in Accounts : CopyFresh(r, a)'
  <2>1. /\ req'[r].step = "ready" /\ req'[r].op = req[r].op /\ req'[r].d = req[r].d
        /\ req'[r].doc = req[r].doc /\ req'[r].row = w /\ req'[r].want = want
        /\ req'[r].seen = LoadAccounts(r, as) \/ (as = {} /\ req'[r].seen = req[r].seen)
    <3>1. CASE Ready(r, want, LoadAccounts(r, as), w)
      BY <3>1, <1>a DEF Ready, Fields
    <3>2. CASE as = {} /\ Ready(r, want, req[r].seen, w)
      BY <3>2, <1>a DEF Ready, Fields
    <3> QED BY <1>8, <3>1, <3>2
  <2>2. req'[r].seen \in [Accounts -> Copies]
    BY <1>b, <2>1, LoadingTyped DEF HeldTyped
  <2>4. HeldTyped(r)'
    BY <1>8, <2>1, <2>2 DEF HeldTyped
  <2>3. ASSUME NEW a \in Accounts PROVE CopyFresh(r, a)'
    <3>1. CASE req'[r].seen = LoadAccounts(r, as)
      BY <1>0, <3>1, Loading, ZenonT(60) DEF CopyFresh
    <3>2. CASE req'[r].seen = req[r].seen
      BY <1>0, <1>b, <3>2 DEF CopyFresh
    <3> QED BY <2>1, <3>1, <3>2
  <2> QED BY <2>1, <2>3, <2>4
<1>9. CASE \E m \in Movements : CheckEdit(r, m)
  <2>1. PICK m \in Movements : CheckEdit(r, m)
    BY <1>9
  <2>2. /\ req[r].step = "loaded" /\ req[r].op = "edit" /\ req[r].row \in Rows /\ RowOf(m) \in Rows
        /\ Ready(r, RowOf(m), LoadAccounts(r, AccountsOf(m)), req[r].row)
        /\ m.from # None => account[m.from].balance + GivenBack(req[r].doc, m) >= m.amt
    BY <1>b, <2>1, MovementRow DEF CheckEdit, HeldTyped
  <2>3. /\ req'[r].step = "ready" /\ req'[r].op = "edit" /\ req'[r].doc = req[r].doc
        /\ req'[r].want = RowOf(m) /\ HeldTyped(r)' /\ \A a \in Accounts : CopyFresh(r, a)'
        /\ req'[r].seen = LoadAccounts(r, AccountsOf(m))
    <3>1. req'[r].seen = LoadAccounts(r, AccountsOf(m))
      BY <2>2, <1>a DEF Ready, Fields
    <3> QED BY <1>8, <2>2, <3>1
  <2>4. ASSUME NEW a \in Accounts, m.from = a PROVE Covers(r, a)'
    <3>1. req[r].seen = Unread
      BY <1>b, <2>2 DEF HeldTyped
    <3>2. /\ LoadAccounts(r, AccountsOf(m))[a] # NotLoaded
          /\ LoadAccounts(r, AccountsOf(m))[a].balance = account[a].balance
      BY <2>4, <3>1, MovementRow, Loading
    <3>3. GivenBack(req[r].doc, RowOf(m)) = GivenBack(req[r].doc, m)
      BY DEF GivenBack, RowOf
    <3> QED BY <1>c, <2>2, <2>3, <2>4, <3>2, <3>3, MovementRow DEF Covers, Payments, Versioned
  <2> QED BY <1>0, <2>3, <2>4, MovementRow
<1>10. CASE CheckVoid(r)
  <2> DEFINE p == req[r].doc
             covered == req[r].op = "restore" /\ kind[req[r].d] \in {"supplier", "driver"}
  <2>1. /\ req[r].step = "loaded" /\ req[r].op \in {"delete", "restore"}
        /\ covered => account[p.from].balance >= p.amt
        /\ Ready(r, RowOf(p), IF covered THEN LoadAccounts(r, {p.from}) ELSE req[r].seen, req[r].row)
    BY <1>10 DEF CheckVoid
  <2>2. RowOf(p) \in Rows /\ req[r].row \in Rows /\ RowOf(p).from = p.from /\ RowOf(p).amt = p.amt
    BY <1>a, <1>b DEF HeldTyped, RowOf, Documents, Rows
  <2>3. /\ req'[r].step = "ready" /\ req'[r].op = req[r].op /\ req'[r].d = req[r].d
        /\ req'[r].want = RowOf(p) /\ HeldTyped(r)' /\ \A a \in Accounts : CopyFresh(r, a)'
        /\ covered => req'[r].seen = LoadAccounts(r, {p.from})
    <3>1. CASE covered
      <4>1. Ready(r, RowOf(p), LoadAccounts(r, {p.from}), req[r].row)
        BY <2>1, <3>1
      <4> QED BY <1>8, <2>1, <2>2, <4>1
    <3>2. CASE ~covered
      <4>1. Ready(r, RowOf(p), req[r].seen, req[r].row)
        BY <2>1, <3>2
      <4> QED BY <1>8, <2>1, <2>2, <3>2, <4>1
    <3> QED BY <3>1, <3>2
  <2>4. ASSUME NEW a \in Accounts, p.from = a PROVE Covers(r, a)'
    <3>1. CASE covered
      <4>1. req[r].seen = Unread
        BY <1>b, <2>1 DEF HeldTyped
      <4>2. LoadAccounts(r, {p.from})[a] # NotLoaded /\ LoadAccounts(r, {p.from})[a].balance = account[a].balance
        BY <2>4, <4>1, Loading
      <4> QED BY <2>1, <2>2, <2>3, <2>4, <3>1, <4>2 DEF Covers, Payments, Versioned
    <3>2. CASE ~covered
      BY <1>0, <2>1, <2>3, <3>2 DEF Covers, Payments, Versioned
    <3> QED BY <3>1, <3>2
  <2> QED BY <1>0, <2>2, <2>3, <2>4
<1>11. CASE CheckEntryEdit(r)
  <2> DEFINE w == row[req[r].d]
             as == IF w.live THEN AccountsOf(w) ELSE {}
             seen == LoadAccounts(r, as)
             m == req[r].want
  <2>1. /\ req[r].step = "loaded" /\ req[r].op = "entry edit" /\ Ready(r, m, seen, w)
        /\ m.from # None => seen[m.from].balance - Effect(w, m.from) >= m.amt
    BY <1>11 DEF CheckEntryEdit
  <2>2. w \in Rows /\ m \in Rows
    BY <1>a, <1>b DEF HeldTyped
  <2>3. /\ req'[r].step = "ready" /\ req'[r].op = "entry edit" /\ req'[r].want = m /\ req'[r].row = w
        /\ HeldTyped(r)' /\ \A a \in Accounts : CopyFresh(r, a)'
        /\ req'[r].seen = seen
    <3>1. req'[r].seen = seen
      BY <2>1, <1>a DEF Ready, Fields
    <3> HIDE DEF w, as, m
    <3> QED BY <1>8, <2>1, <2>2, <3>1
  <2>4. ASSUME NEW a \in Accounts, m.from = a PROVE Covers(r, a)'
    <3>1. req[r].seen[a] # NotLoaded
      BY <1>b, <2>1, <2>4 DEF Covers
    <3>2. seen[a] # NotLoaded
      <4> HIDE DEF as
      <4> QED BY <3>1, Loading
    <3>3. seen[a].balance - Effect(w, a) >= m.amt
      BY <1>c, <2>1, <2>4
    <3> HIDE DEF w, seen, m
    <3> QED BY <2>3, <3>2, <3>3 DEF Covers, Payments, Versioned
  <2> QED BY <1>0, <2>3, <2>4
<1>12. CASE \E m \in Movements : CheckRow(r, m)
  <2>1. PICK m \in Movements : CheckRow(r, m)
    BY <1>12
  <2> DEFINE as == AccountsOf(m) \cup AccountsOf(req[r].row)
  <2>2. /\ req[r].step = "loaded" /\ Ready(r, RowOf(m), LoadAccounts(r, as), req[r].row)
        /\ \/ req[r].op \in {"row edit", "row delete"}
           \/ req[r].op \in {"delete", "restore"} /\ kind[req[r].d] = "manual"
    BY <2>1 DEF CheckRow
  <2>3. req[r].row \in Rows /\ RowOf(m) \in Rows
    BY <1>b, MovementRow DEF HeldTyped
  <2> HIDE DEF as
  <2>4. /\ req'[r].step = "ready" /\ req'[r].op = req[r].op /\ req'[r].d = req[r].d
        /\ HeldTyped(r)' /\ \A a \in Accounts : CopyFresh(r, a)'
    BY <1>8, <2>2, <2>3
  <2>5. \A a \in Accounts : Covers(r, a)'
    BY <1>0, <2>2, <2>4 DEF Covers, Payments, Versioned
  <2> QED BY <1>0, <2>4, <2>5
<1> QED
  BY <1>1, <1>2, <1>3, <1>4, <1>5, <1>6, <1>7, <1>9, <1>10, <1>11, <1>12, <1>a DEF Reads, Abandon, Refused

------------------------------------------------------------------------------
\* What a writing transaction other than the account form does to the money: one row
\* changes from "was", the accounts move by the difference, and what is taken out
\* was compared with the copy the request keeps, or the account is among the unguarded.
Moves(r, d, was, change, checked, old, events) ==
    /\ was \in Rows /\ row' \in [Docs -> Rows] /\ \A e \in Docs \ {d} : row'[e] = row[e]
    /\ change = Change(was, row'[d]) \/ "entry raced" \in events
    /\ was = row[d] \/ "entry raced" \in events
    /\ change \in [Accounts -> Int]
    /\ Done(r, change, Unguarded(change, checked, old), events)
    /\ kind'[d] # "none" /\ \A e \in Docs \ {d} : kind'[e] = kind[e]
    /\ \A a \in Accounts :
         checked.from = a /\ change[a] < 0 /\ change[a] >= GivenBack(old, checked) - checked.amt
         => req[r].seen[a] # NotLoaded /\ req[r].seen[a].balance + change[a] >= 0

LEMMA ChangeType ==
    ASSUME NEW w \in Rows, NEW n \in Rows
    PROVE  /\ Change(w, n) \in [Accounts -> Int]
           /\ \A a \in Accounts : Change(w, n)[a] = Effect(n, a) - Effect(w, a)
BY EffectType DEF Change

LEMMA NothingGiven ==
    /\ NoRow.from \notin Accounts
    /\ \A m \in Rows : m.from \in Accounts => GivenBack(NoDoc, m) = 0
BY LedgerAssumption DEF NoRow, NoDoc, GivenBack

LEMMA NewMoves ==
    ASSUME NEW r \in Requests, IInv, MoneyInv, NEW k \in Payments \cup {"manual", "direct"}, NEW d \in Docs,
           WriteNew(r, k, d)
    PROVE  \E was, change, checked, old, events : Moves(r, d, was, change, checked, old, events)
<1> DEFINE w == req[r].want
           change == Change(NoRow, w)
           out == Unguarded(change, w, NoDoc)
<1>1. /\ req[r].op = k /\ kind[d] = "none" /\ kind' = [kind EXCEPT ![d] = k]
      /\ row' = [row EXCEPT ![d] = w] /\ Done(r, change, out, {}) /\ req[r].step = "ready"
  BY DEF WriteNew, Done
<1>2. /\ w \in Rows /\ row \in [Docs -> Rows] /\ row[d] = NoRow /\ kind \in [Docs -> Kinds]
      /\ NoRow \in Rows /\ \A a \in Accounts : w.from = a => Covers(r, a)
  BY <1>1, RowsOfDocuments DEF IInv, TablesTyped, MoneyInv, MoneyTyped, HeldTyped
<1>3. row' \in [Docs -> Rows] /\ row'[d] = w /\ \A e \in Docs \ {d} : row'[e] = row[e]
  BY <1>1, <1>2
<1>4. kind'[d] # "none" /\ \A e \in Docs \ {d} : kind'[e] = kind[e]
  BY <1>1, <1>2 DEF Payments, Versioned
<1>5. change \in [Accounts -> Int]
  BY <1>2, ChangeType
<1>6. ASSUME NEW a \in Accounts, w.from = a, change[a] < 0, change[a] >= GivenBack(NoDoc, w) - w.amt
      PROVE  req[r].seen[a] # NotLoaded /\ req[r].seen[a].balance + change[a] >= 0
  <2>1. Covers(r, a)
    BY <1>2, <1>6
  <2>2. req[r].seen[a] # NotLoaded /\ req[r].seen[a].balance >= w.amt
    BY <1>1, <2>1 DEF Covers
  <2>3. GivenBack(NoDoc, w) = 0
    BY <1>2, <1>6, NothingGiven
  <2>4. req[r].seen[a].balance \in Int /\ w.amt \in Nat /\ change[a] \in Int
    BY <1>2, <1>5 DEF MoneyInv, HeldTyped, Copies, Rows
  <2> HIDE DEF w, change
  <2> QED BY <1>6, <2>2, <2>3, <2>4
<1>7. change = Change(NoRow, row'[d])
  BY <1>3
<1> HIDE DEF w, change
<1>8. Moves(r, d, NoRow, change, w, NoDoc, {})
  BY <1>1, <1>2, <1>3, <1>4, <1>5, <1>6, <1>7 DEF Moves
<1> QED BY <1>8

LEMMA PaymentMoves ==
    ASSUME NEW r \in Requests, IInv, MoneyInv, NEW checked, NEW old, WritePayment(r, checked, old),
           req[r].op \in {"edit", "delete", "restore"}, NEW d, d = req[r].d,
           \A a \in Accounts : checked.from = a =>
              /\ req[r].seen[a] # NotLoaded /\ checked.amt \in Int /\ GivenBack(old, checked) \in Int
              /\ req[r].seen[a].balance + GivenBack(old, checked) >= checked.amt
    PROVE  \E was, change, events : Moves(r, d, was, change, checked, old, events)
<1>1. PICK was : was = row[d]
  OBVIOUS
<1>2. PICK new : new = Synced(row[d], Edited(r))
  OBVIOUS
<1>3. PICK events : events = IF doc[d] # req[r].doc THEN {"driver raced"} ELSE {}
  OBVIOUS
<1>4. /\ kind[d] \in Payments /\ kind' = kind
      /\ Done(r, Change(was, new), Unguarded(Change(was, new), checked, old), events)
  BY <1>1, <1>2, <1>3 DEF WritePayment
<1>5. /\ d \in Docs /\ row'[d] = new /\ \A e \in Docs \ {d} : row'[e] = row[e]
  BY <1>2, PaymentWritten
<1>6. req[r].step = "ready" /\ row \in [Docs -> Rows] /\ DOMAIN row' = Docs /\ row' = [e \in Docs |-> row'[e]]
  <2>1. row' = [row EXCEPT ![d] = Synced(@, Edited(r))]
    BY DEF WritePayment
  <2> QED BY <1>4, <2>1 DEF MoneyInv, MoneyTyped, Done
<1>7. was \in Rows /\ new \in Rows
  BY <1>1, <1>2, <1>5, <1>6, EditedTyped, RowsOfDocuments
<1>8. row' \in [Docs -> Rows]
  BY <1>5, <1>6, <1>7
<1>9. Change(was, new) \in [Accounts -> Int]
  BY <1>7, ChangeType
<1>10. ASSUME NEW a \in Accounts, checked.from = a, Change(was, new)[a] >= GivenBack(old, checked) - checked.amt
       PROVE  req[r].seen[a] # NotLoaded /\ req[r].seen[a].balance + Change(was, new)[a] >= 0
  <2>1. req[r].seen[a].balance \in Int /\ Change(was, new)[a] \in Int
    BY <1>9 DEF MoneyInv, HeldTyped, Copies
  <2> QED BY <1>10, <2>1
<1>11. kind'[d] # "none"
  BY <1>4 DEF Payments, Versioned
<1>12. Moves(r, d, was, Change(was, new), checked, old, events)
  BY <1>1, <1>3, <1>4, <1>5, <1>7, <1>8, <1>9, <1>10, <1>11 DEF Moves
<1> QED BY <1>12

LEMMA RowMoves ==
    ASSUME NEW r \in Requests, IInv, MoneyInv, NEW checked, NEW more, WriteRow(r, checked, more),
           NEW d, d = req[r].d, Reworked(r) \in Rows, kind[d] # "none",
           NEW old, old = [req[r].doc EXCEPT !.from = req[r].row.from, !.amt = req[r].row.amt],
           \A a \in Accounts : checked.from = a =>
              /\ req[r].seen[a] # NotLoaded
              /\ req[r].seen[a].balance + Change(req[r].row, Reworked(r))[a] >= 0
    PROVE  \E was, change, events : Moves(r, d, was, change, checked, old, events)
<1>1. PICK was : was = req[r].row
  OBVIOUS
<1>2. PICK new : new = Reworked(r)
  OBVIOUS
<1>3. PICK events : events = more \cup (IF row[d] # req[r].row \/ doc[d] # req[r].doc THEN {"entry raced"} ELSE {})
  OBVIOUS
<1>4. /\ kind' = kind /\ Done(r, Change(was, new), Unguarded(Change(was, new), checked, old), events)
      /\ row' = [row EXCEPT ![d] = Write(@, was, new)]
  BY <1>1, <1>2, <1>3 DEF WriteRow
<1>5. d \in Docs /\ row \in [Docs -> Rows] /\ was \in Rows /\ new \in Rows
  BY <1>1, <1>2 DEF IInv, RequestsFit, RequestTyped, MoneyInv, MoneyTyped, HeldTyped
<1>6. Write(row[d], was, new) \in Rows /\ (was = row[d] => Write(row[d], was, new) = new)
  BY <1>5, RowTyped
<1>7. /\ row' \in [Docs -> Rows] /\ row'[d] = Write(row[d], was, new)
      /\ \A e \in Docs \ {d} : row'[e] = row[e]
  BY <1>4, <1>5, <1>6
<1>8. Change(was, new) \in [Accounts -> Int]
  BY <1>5, ChangeType
<1>9. was = row[d] \/ "entry raced" \in events
  BY <1>1, <1>3
<1>10. Change(was, new) = Change(was, row'[d]) \/ "entry raced" \in events
  BY <1>6, <1>7, <1>9
<1>11. Moves(r, d, was, Change(was, new), checked, old, events)
  BY <1>1, <1>2, <1>3, <1>4, <1>5, <1>7, <1>8, <1>9, <1>10 DEF Moves
<1> QED BY <1>11

\* Every write other than the account form's is such a movement.
LEMMA WriteMoves ==
    ASSUME NEW r \in Requests, IInv, MoneyInv, Writes(r),
           ~ \E o \in Openings, desired \in Openings \cup {None}, d \in Docs : WriteAccount(r, o, desired, d)
    PROVE  \E d \in Docs : \E was, change, checked, old, events : Moves(r, d, was, change, checked, old, events)
<1>a. req[r].d \in Docs /\ req[r].step = "ready" /\ OpFits(r) /\ NoRow.from \notin Accounts
  BY WritesEnd, NothingGiven DEF IInv, RequestsFit, RequestTyped
<1>b. /\ HeldTyped(r) /\ req[r].row \in Rows /\ req[r].want \in Rows
      /\ \A a \in Accounts : req[r].want.from = a => Covers(r, a)
  BY DEF MoneyInv, HeldTyped
<1>c. req[r].want.amt \in Nat /\ \A a \in Accounts : req[r].seen[a].balance \in Int
  BY <1>b DEF Rows, HeldTyped, Copies
<1>1. CASE EditPayment(r)
  <2>1. req[r].op = "edit" /\ WritePayment(r, req[r].want, req[r].doc)
    BY <1>1 DEF EditPayment
  <2>2. GivenBack(req[r].doc, req[r].want) \in Int
    <3>1. req[r].doc.amt \in Nat
      BY DEF IInv, RequestsFit, RequestTyped, Documents
    <3> QED BY <3>1 DEF GivenBack
  <2>3. ASSUME NEW a \in Accounts, req[r].want.from = a
        PROVE  /\ req[r].seen[a] # NotLoaded
               /\ req[r].seen[a].balance + GivenBack(req[r].doc, req[r].want) >= req[r].want.amt
    BY <1>a, <1>b, <2>1, <2>3 DEF Covers
  <2> QED BY <1>a, <1>c, <2>1, <2>2, <2>3, PaymentMoves
<1>2. CASE DeletePayment(r)
  <2>1. req[r].op = "delete" /\ WritePayment(r, NoRow, NoDoc)
    BY <1>2 DEF DeletePayment
  <2> QED BY <1>a, <2>1, PaymentMoves
<1>3. CASE RestorePayment(r)
  <2>1. CASE kind[req[r].d] = "client"
    <3>1. req[r].op = "restore" /\ WritePayment(r, NoRow, NoDoc)
      BY <1>3, <2>1 DEF RestorePayment
    <3> QED BY <1>a, <3>1, PaymentMoves
  <2>2. CASE kind[req[r].d] # "client"
    <3>1. req[r].op = "restore" /\ WritePayment(r, req[r].want, NoDoc)
      BY <1>3, <2>2 DEF RestorePayment
    <3>2. kind[req[r].d] \in {"supplier", "driver"}
      BY <2>2, <3>1 DEF WritePayment, Payments, Versioned
    <3>3. ASSUME NEW a \in Accounts, req[r].want.from = a
          PROVE  /\ req[r].seen[a] # NotLoaded /\ GivenBack(NoDoc, req[r].want) = 0
                 /\ req[r].seen[a].balance >= req[r].want.amt
      BY <1>a, <1>b, <3>1, <3>2, <3>3, NothingGiven DEF Covers
    <3>4. ASSUME NEW a \in Accounts, req[r].want.from = a
          PROVE  /\ req[r].seen[a] # NotLoaded /\ req[r].want.amt \in Int
                 /\ GivenBack(NoDoc, req[r].want) \in Int
                 /\ req[r].seen[a].balance + GivenBack(NoDoc, req[r].want) >= req[r].want.amt
      BY <1>c, <3>3, <3>4
    <3> QED BY <1>a, <3>1, <3>4, PaymentMoves
  <2> QED BY <2>1, <2>2
<1>4. Reworked(r) \in Rows
  <2>1. \A v \in BOOLEAN : [req[r].row EXCEPT !.live = v] \in Rows
    BY <1>b, RowsOfDocuments
  <2> QED BY <1>b, <2>1 DEF Reworked
<1>5. ASSUME NEW op \in {"row edit", "row delete"}, OnPage(r, op)
      PROVE  \E d \in Docs : \E was, change, checked, old, events : Moves(r, d, was, change, checked, old, events)
  <2>1. PICK more : WriteRow(r, NoRow, more)
    BY <1>5 DEF OnPage
  <2>2. req[r].op = op
    BY <1>5 DEF OnPage
  <2>3. kind[req[r].d] # "none"
    BY <1>a, <2>2 DEF OpFits
  <2> QED BY <1>4, <1>a, <2>1, <2>3, RowMoves
<1>6. CASE VoidEntry(r) \/ RestoreEntry(r)
  <2>1. WriteRow(r, NoRow, {}) /\ kind[req[r].d] = "manual"
    BY <1>6 DEF VoidEntry, RestoreEntry, WithEntry
  <2> QED BY <1>4, <1>a, <2>1, RowMoves
<1>7. CASE EditEntry(r)
  <2>1. WriteRow(r, req[r].want, {}) /\ kind[req[r].d] = "manual" /\ req[r].op = "entry edit"
    BY <1>7 DEF EditEntry, WithEntry
  <2>2. ASSUME NEW a \in Accounts, req[r].want.from = a
        PROVE  /\ req[r].seen[a] # NotLoaded
               /\ req[r].seen[a].balance + Change(req[r].row, Reworked(r))[a] >= 0
    <3>1. /\ req[r].seen[a] # NotLoaded
          /\ req[r].seen[a].balance - Effect(req[r].row, a) >= req[r].want.amt
      BY <1>a, <1>b, <2>1, <2>2 DEF Covers
    <3>2. Reworked(r) = req[r].want /\ req[r].want.live
      <4>1. req[r].want \in LiveRows
        BY <1>a, <2>1 DEF OpFits
      <4>2. Reworked(r) = req[r].want
        BY <2>1 DEF Reworked
      <4>3. req[r].want.live = TRUE
        BY <4>1, LiveRowTyped
      <4> QED BY <4>2, <4>3
    <3>3. Change(req[r].row, Reworked(r))[a] = Effect(req[r].want, a) - Effect(req[r].row, a)
      BY <1>b, <3>2, ChangeType
    <3>4. Effect(req[r].want, a) >= -req[r].want.amt /\ Effect(req[r].want, a) \in Int /\ Effect(req[r].row, a) \in Int
      BY <1>b, <2>2, <3>2, EffectType
    <3>5. \A has \in Int, amt \in Nat, e0 \in Int, e1 \in Int :
             has - e0 >= amt /\ e1 >= -amt => has + (e1 - e0) >= 0
      OBVIOUS
    <3>6. req[r].seen[a].balance + (Effect(req[r].want, a) - Effect(req[r].row, a)) >= 0
      BY <1>c, <3>1, <3>4, <3>5
    <3> QED BY <3>1, <3>3, <3>6
  <2>3. PICK d, old : d = req[r].d
                      /\ old = [req[r].doc EXCEPT !.from = req[r].row.from, !.amt = req[r].row.amt]
    OBVIOUS
  <2>4. kind[d] # "none"
    BY <2>1, <2>3
  <2>5. \E was, change, events : Moves(r, d, was, change, req[r].want, old, events)
    BY <1>4, <2>1, <2>2, <2>3, <2>4, RowMoves
  <2> QED BY <1>a, <2>3, <2>5
<1>8. CASE \E k \in Payments \cup {"manual", "direct"}, d \in Docs : WriteNew(r, k, d)
  BY <1>8, NewMoves
<1> QED
  BY <1>1, <1>2, <1>3, <1>5, <1>6, <1>7, <1>8 DEF Writes, EditRow, DeleteRow

\* A movement keeps the balances equal to the rows, and takes no account below zero
\* but the unguarded.
LEMMA MovesKeep ==
    ASSUME NEW r \in Requests, MoneyInv, NEW d \in Docs, NEW was, NEW change, NEW checked, NEW old, NEW events,
           Moves(r, d, was, change, checked, old, events)
    PROVE  /\ MoneyTyped' /\ BalanceMatchesLedger' /\ NoOverdraft'
           /\ \A a \in Accounts : account'[a] = account[a] \/ account'[a].rev = account[a].rev + 1
<1>1. /\ Done(r, change, Unguarded(change, checked, old), events) /\ change \in [Accounts -> Int]
      /\ happened' = happened \cup events
      /\ owing' = {a \in owing \cup Unguarded(change, checked, old) : account'[a].balance < 0}
  BY DEF Moves, Done, Owe
<1>2. /\ account' \in [Accounts -> AccountRows] /\ account \in [Accounts -> AccountRows]
      /\ \A a \in Accounts :
           /\ account'[a].balance = account[a].balance + change[a]
           /\ account'[a].opening = account[a].opening
           /\ account'[a] = account[a] \/ account'[a].rev = account[a].rev + 1
           /\ change[a] # 0 /\ req[r].seen[a] # NotLoaded => account[a].balance = req[r].seen[a].balance
  BY <1>1, BalancesMove DEF MoneyInv, MoneyTyped
<1>3. /\ row \in [Docs -> Rows] /\ row' \in [Docs -> Rows] /\ \A e \in Docs \ {d} : row'[e] = row[e]
      /\ was \in Rows /\ kind'[d] # "none" /\ \A e \in Docs \ {d} : kind'[e] = kind[e]
  BY DEF Moves, MoneyInv, MoneyTyped
<1>4. MoneyTyped'
  <2>1. \A e \in Docs : kind'[e] = "none" => row'[e] = NoRow
    BY <1>3 DEF MoneyInv, MoneyTyped
  <2> QED BY <1>2, <1>3, <2>1 DEF MoneyTyped
<1>5. BalanceMatchesLedger'
  <2>1. SUFFICES ASSUME "entry raced" \notin happened', NEW a \in Accounts
                 PROVE  account'[a].balance = account'[a].opening + RowSum(a)'
    BY DEF BalanceMatchesLedger, Unless, LedgerBalance, RowSum
  <2>2. account[a].balance = account[a].opening + RowSum(a)
    BY <1>1, <2>1 DEF MoneyInv, BalanceMatchesLedger, Unless, LedgerBalance, RowSum
  <2>3. change[a] = Effect(row'[d], a) - Effect(row[d], a)
    <3>1. "entry raced" \notin events
      BY <1>1, <2>1
    <3>2. change = Change(row[d], row'[d])
      BY <3>1 DEF Moves
    <3> QED BY <1>3, <3>2, ChangeType
  <2>4. RowSum(a) \in Int /\ RowSum(a)' = RowSum(a) + Effect(row'[d], a) - Effect(row[d], a)
    BY <1>3, RowSumMoves
  <2>5. account[a].opening \in Int /\ account'[a].opening = account[a].opening
    BY <1>2 DEF AccountRows
  <2>6. Effect(row'[d], a) \in Int /\ Effect(row[d], a) \in Int
    BY <1>3, EffectType
  <2>7. account'[a].balance = account[a].balance + change[a]
    BY <1>2
  <2> QED BY <2>2, <2>3, <2>4, <2>5, <2>6, <2>7
<1>6. NoOverdraft'
  <2>1. SUFFICES ASSUME NEW a \in Accounts, account'[a].balance < 0,
                        a \notin owing, a \notin Unguarded(change, checked, old)
                 PROVE  FALSE
    BY <1>1 DEF NoOverdraft
  <2>2. ~(account[a].balance < 0)
    BY <2>1 DEF MoneyInv, NoOverdraft
  <2>3. account[a].balance \in Int /\ change[a] \in Int /\ account'[a].balance = account[a].balance + change[a]
    BY <1>1, <1>2 DEF AccountRows
  <2>4. CASE change[a] < 0
    <3>1. checked.from = a /\ change[a] >= GivenBack(old, checked) - checked.amt
      BY <2>1, <2>4 DEF Unguarded
    <3>2. req[r].seen[a] # NotLoaded /\ req[r].seen[a].balance + change[a] >= 0
      BY <2>4, <3>1 DEF Moves
    <3>3. account[a].balance = req[r].seen[a].balance
      BY <1>2, <2>3, <2>4, <3>2
    <3> QED BY <2>1, <2>3, <3>2, <3>3
  <2>5. CASE ~(change[a] < 0)
    BY <2>1, <2>2, <2>3, <2>5
  <2> QED BY <2>4, <2>5
<1> QED BY <1>2, <1>4, <1>5, <1>6

\* The account form: the adjustment row makes up the difference to the counted balance.
LEMMA AccountKept ==
    ASSUME NEW r \in Requests, IInv, MoneyInv, NEW o \in Openings, NEW desired \in Openings \cup {None},
           NEW d \in Docs, WriteAccount(r, o, desired, d)
    PROVE  /\ MoneyTyped' /\ BalanceMatchesLedger' /\ NoOverdraft'
           /\ \A a \in Accounts : account'[a] = account[a] \/ account'[a].rev = account[a].rev + 1
<1>1. PICK b \in Accounts : b = req[r].want.to
  BY DEF WriteAccount, MoneyInv, HeldTyped
<1>2. PICK shifted : shifted = Base(r, b) + o - account[b].opening
  OBVIOUS
<1>3. PICK diff : diff = IF desired = None THEN 0 ELSE desired - (LedgerBalance(b) + o - account[b].opening)
  OBVIOUS
<1>4. PICK w : w = [from |-> IF diff < 0 THEN b ELSE None, to |-> IF diff < 0 THEN None ELSE b,
                    amt |-> IF diff < 0 THEN -diff ELSE diff, live |-> TRUE]
  OBVIOUS
<1>5. /\ diff # 0 => kind[d] = "none"
      /\ ~StaleAccount(r, {b})
      /\ kind' = IF diff = 0 THEN kind ELSE [kind EXCEPT ![d] = "adjustment"]
      /\ row' = IF diff = 0 THEN row ELSE [row EXCEPT ![d] = w]
      /\ account' = [account EXCEPT ![b] = [opening |-> o, rev |-> @.rev + 1,
                          balance |-> IF diff = 0 THEN shifted ELSE desired]]
      /\ happened' = happened
      /\ owing' = {a \in owing \cup (IF o < account[b].opening \/ (desired # None /\ desired < 0)
                                      THEN {b} ELSE {}) : account'[a].balance < 0}
  BY <1>1, <1>2, <1>3, <1>4 DEF WriteAccount, Owe
<1>6. /\ account \in [Accounts -> AccountRows] /\ row \in [Docs -> Rows] /\ kind \in [Docs -> Kinds]
      /\ account[b].rev \in Nat /\ account[b].opening \in Int /\ account[b].balance \in Int
      /\ \A e \in Docs : kind[e] = "none" => row[e] = NoRow
  BY DEF MoneyInv, MoneyTyped, IInv, TablesTyped, AccountRows
<1>7. o \in Int /\ None \notin Accounts /\ Openings \subseteq Int
  BY LedgerAssumption
<1>8. Base(r, b) = account[b].balance
  <2>1. req[r].seen[b] = NotLoaded \/ req[r].seen[b].rev = account[b].rev
    BY <1>5 DEF StaleAccount
  <2>2. CopyFresh(r, b)
    BY DEF MoneyInv
  <2> QED BY <2>1, <2>2 DEF CopyFresh, Base
<1>9. LedgerBalance(b) = account[b].opening + RowSum(b) /\ \A a \in Accounts : RowSum(a) \in Int
  <2>1. ASSUME NEW a \in Accounts PROVE RowSum(a) \in Int
    <3> DEFINE f == [e \in Docs |-> Effect(row[e], a)]
    <3>1. IsFiniteSet(Docs) /\ \A e \in Docs : f[e] \in Int
      BY <1>6, EffectType, LedgerAssumption
    <3>2. RowSum(a) = SumFunctionOnSet(f, Docs)
      BY DEF RowSum, SumFunction
    <3> HIDE DEF f
    <3> QED BY <3>1, <3>2, SumType
  <2> QED BY <2>1 DEF LedgerBalance, RowSum
<1>10. shifted = account[b].balance + o - account[b].opening /\ shifted \in Int
  BY <1>2, <1>6, <1>7, <1>8
<1>11. /\ diff \in Int
       /\ diff # 0 => desired \in Int /\ diff = desired - (RowSum(b) + o)
  BY <1>3, <1>6, <1>7, <1>9
<1>12. w \in Rows /\ row' \in [Docs -> Rows]
  <2>1. w \in Rows
    <3>1. (IF diff < 0 THEN -diff ELSE diff) \in Nat
      BY <1>11
    <3> QED BY <1>4, <3>1 DEF Rows, Ends
  <2> QED BY <1>5, <1>6, <2>1
<1>13. /\ account' \in [Accounts -> AccountRows]
       /\ account'[b].opening = o /\ account'[b].rev = account[b].rev + 1
       /\ account'[b].balance = IF diff = 0 THEN shifted ELSE desired
       /\ \A a \in Accounts \ {b} : account'[a] = account[a]
  <2> DEFINE new == [opening |-> o, rev |-> account[b].rev + 1,
                     balance |-> IF diff = 0 THEN shifted ELSE desired]
  <2>1. (IF diff = 0 THEN shifted ELSE desired) \in Int
    BY <1>10, <1>11
  <2>2. new \in AccountRows
    BY <1>6, <1>7, <2>1 DEF AccountRows
  <2>3. account' = [account EXCEPT ![b] = new]
    BY <1>5, <1>6
  <2>4. new.opening = o /\ new.rev = account[b].rev + 1 /\ new.balance = IF diff = 0 THEN shifted ELSE desired
    OBVIOUS
  <2> HIDE DEF new
  <2> QED BY <1>6, <2>2, <2>3, <2>4
<1>14. MoneyTyped'
  <2>1. \A e \in Docs : kind'[e] = "none" => row'[e] = NoRow
    BY <1>5, <1>6
  <2> QED BY <1>12, <1>13, <2>1 DEF MoneyTyped
<1>15. ASSUME NEW a \in Accounts
       PROVE  RowSum(a)' = IF a = b THEN RowSum(a) + diff ELSE RowSum(a)
  <2>1. CASE diff = 0
    <3>1. row' = row
      BY <1>5, <2>1
    <3>2. RowSum(a)' = RowSum(a)
      BY <3>1 DEF RowSum
    <3> QED BY <1>9, <2>1, <3>2
  <2>2. CASE diff # 0
    <3>1. row[d] = NoRow /\ row'[d] = w /\ \A e \in Docs \ {d} : row'[e] = row[e]
      BY <1>5, <1>6, <2>2
    <3>2. RowSum(a)' = RowSum(a) + Effect(w, a) - Effect(NoRow, a)
      BY <1>6, <1>12, <3>1, RowSumMoves
    <3>3. Effect(NoRow, a) = 0
      BY <1>12, EffectType
    <3>4. Effect(w, a) = IF a = b THEN diff ELSE 0
      <4>1. a # None /\ b # None
        BY <1>7
      <4>2. CASE diff < 0
        <5>1. w.live /\ w.from = b /\ w.to = None /\ w.amt = -diff
          BY <1>4, <4>2
        <5> QED BY <1>11, <4>1, <5>1 DEF Effect
      <4>3. CASE ~(diff < 0)
        <5>1. w.live /\ w.from = None /\ w.to = b /\ w.amt = diff
          BY <1>4, <4>3
        <5> QED BY <1>11, <4>1, <5>1 DEF Effect
      <4> QED BY <4>2, <4>3
    <3> QED BY <1>9, <1>11, <3>2, <3>3, <3>4
  <2> QED BY <2>1, <2>2
<1>16. BalanceMatchesLedger'
  <2>1. SUFFICES ASSUME "entry raced" \notin happened', NEW a \in Accounts
                 PROVE  account'[a].balance = account'[a].opening + RowSum(a)'
    BY DEF BalanceMatchesLedger, Unless, LedgerBalance, RowSum
  <2>2. account[a].balance = account[a].opening + RowSum(a)
    BY <1>5, <2>1 DEF MoneyInv, BalanceMatchesLedger, Unless, LedgerBalance, RowSum
  <2>3. CASE a # b
    BY <1>13, <1>15, <2>2, <2>3
  <2>4. CASE a = b
    <3>1. RowSum(a)' = RowSum(b) + diff /\ RowSum(b) \in Int
      BY <1>9, <1>15, <2>4
    <3>2. CASE diff = 0
      BY <1>6, <1>7, <1>10, <1>13, <2>2, <2>4, <3>1, <3>2
    <3>3. CASE diff # 0
      BY <1>7, <1>11, <1>13, <2>4, <3>1, <3>3
    <3> QED BY <3>2, <3>3
  <2> QED BY <2>3, <2>4
<1>17. NoOverdraft'
  <2>1. SUFFICES ASSUME NEW a \in Accounts, account'[a].balance < 0, a \notin owing,
                        a = b => ~(o < account[b].opening) /\ ~(desired # None /\ desired < 0)
                 PROVE  FALSE
    BY <1>5 DEF NoOverdraft
  <2>2. ~(account[a].balance < 0)
    BY <2>1 DEF MoneyInv, NoOverdraft
  <2>3. a = b
    BY <1>13, <2>1, <2>2
  <2>4. CASE diff = 0
    BY <1>6, <1>7, <1>10, <1>13, <2>1, <2>2, <2>3, <2>4
  <2>5. CASE diff # 0
    <3>1. desired # None
      BY <1>3, <2>5
    <3> QED BY <1>13, <2>1, <2>3, <2>5, <3>1
  <2> QED BY <2>4, <2>5
<1>18. \A a \in Accounts : account'[a] = account[a] \/ account'[a].rev = account[a].rev + 1
  BY <1>13
<1> QED BY <1>14, <1>16, <1>17, <1>18

\* Another request's copies stay copies of a version that was, and its documents keep
\* their kind.
LEMMA OthersHold ==
    ASSUME NEW q \in Requests, req'[q] = req[q], OpFits(q), req[q].d \in Docs, HeldTyped(q),
           \A a \in Accounts : CopyFresh(q, a) /\ (req[q].want.from = a => Covers(q, a)),
           account \in [Accounts -> AccountRows],
           \A a \in Accounts : account'[a] = account[a] \/ account'[a].rev = account[a].rev + 1,
           \A d \in Docs : kind[d] # "none" => kind'[d] = kind[d]
    PROVE  /\ HeldTyped(q)'
           /\ \A a \in Accounts : CopyFresh(q, a)' /\ (req'[q].want.from = a => Covers(q, a)')
<1>1. HeldTyped(q)'
  BY DEF HeldTyped
<1>2. ASSUME NEW a \in Accounts PROVE CopyFresh(q, a)'
  <2>1. account[a].rev \in Nat /\ req[q].seen[a].rev \in Int
    BY DEF AccountRows, HeldTyped, Copies
  <2> QED BY <2>1 DEF CopyFresh
<1>3. ASSUME NEW a \in Accounts, req'[q].want.from = a PROVE Covers(q, a)'
  <2>1. Covers(q, a)
    BY <1>3
  <2>2. req[q].step = "ready" /\ req[q].op = "restore" => kind'[req[q].d] = kind[req[q].d]
    BY DEF OpFits, Payments, Versioned
  <2> QED BY <2>1, <2>2 DEF Covers
<1> QED BY <1>1, <1>2, <1>3

LEMMA MoneyInit == Init => MoneyInv
<1> SUFFICES ASSUME Init PROVE MoneyInv
  OBVIOUS
<1>0. PICK o \in [Accounts -> Openings], d \in Docs,
           k \in Payments \cup {"manual", "direct", "none"}, v \in BOOLEAN :
         \E m \in MovementsOf(k) : Opened(o, d, k, v, m)
  BY InitOpened
<1>1. PICK m, w :
            /\ m \in MovementsOf(k)
            /\ w = IF k = "none" \/ v THEN NoRow ELSE RowOf(m)
            /\ \A a \in Accounts : o[a] >= 0 => o[a] + Effect(w, a) >= 0
            /\ kind = [e \in Docs |-> IF e = d THEN k ELSE "none"]
            /\ row = [e \in Docs |-> IF e = d /\ k # "none"
                        THEN [RowOf(m) EXCEPT !.live = ~v] ELSE NoRow]
            /\ account = [a \in Accounts |->
                        [opening |-> o[a], balance |-> o[a] + Effect(w, a), rev |-> 1]]
            /\ owing = {a \in Accounts : o[a] < 0 /\ o[a] + Effect(w, a) < 0}
  BY <1>0 DEF Opened
<1>2. m \in Movements
  <2>1. \A j : MovementsOf(j) \subseteq Movements
    BY DEF MovementsOf, In, Out, Transfers
  <2> QED BY <1>1, <2>1
<1>3. RowOf(m) \in Rows /\ w \in Rows /\ RowOf(m).live
  BY <1>1, <1>2, MovementRow, RowsOfDocuments
<1>4. row \in [Docs -> Rows]
  <2>1. [RowOf(m) EXCEPT !.live = ~v] \in Rows
    BY <1>3, RowsOfDocuments
  <2> QED BY <1>1, <2>1, RowsOfDocuments
<1>5. /\ account \in [Accounts -> AccountRows]
      /\ \A a \in Accounts : /\ account[a].opening = o[a] /\ account[a].balance = o[a] + Effect(w, a)
                             /\ o[a] \in Int /\ Effect(w, a) \in Int
  <2>1. \A a \in Accounts : o[a] \in Int /\ Effect(w, a) \in Int
    BY <1>3, EffectType, LedgerAssumption
  <2>2. \A a \in Accounts : [opening |-> o[a], balance |-> o[a] + Effect(w, a), rev |-> 1] \in AccountRows
    BY <2>1 DEF AccountRows
  <2> QED BY <1>1, <2>1, <2>2
<1>6. MoneyTyped
  BY <1>1, <1>4, <1>5 DEF MoneyTyped
<1>7. ASSUME NEW r \in Requests
      PROVE  HeldTyped(r) /\ \A a \in Accounts : CopyFresh(r, a) /\ (req[r].want.from = a => Covers(r, a))
  <2>1. req[r] = Idle
    BY DEF Init
  <2>2. /\ Idle.step = "idle" /\ Idle.row = NoRow /\ Idle.want = NoRow /\ Idle.seen = Unread
        /\ NoRow.from = None
    BY DEF Idle, NoRow, Unread
  <2>3. NotLoaded \in Copies /\ None \notin Accounts
    BY LedgerAssumption DEF NotLoaded, Copies
  <2>4. Unread \in [Accounts -> Copies] /\ \A a \in Accounts : Unread[a] = NotLoaded
    BY <2>3 DEF Unread
  <2>5. HeldTyped(r)
    BY <2>1, <2>2, <2>4, RowsOfDocuments DEF HeldTyped
  <2>6. \A a \in Accounts : CopyFresh(r, a) /\ req[r].want.from # a
    BY <2>1, <2>2, <2>3, <2>4 DEF CopyFresh
  <2> QED BY <2>5, <2>6
<1>8. BalanceMatchesLedger
  <2>1. SUFFICES ASSUME NEW a \in Accounts PROVE account[a].balance = account[a].opening + RowSum(a)
    BY DEF BalanceMatchesLedger, Unless, LedgerBalance, RowSum
  <2> DEFINE f == [e \in Docs |-> Effect(row[e], a)]
             zero == [e \in Docs |-> 0]
  <2>2. IsFiniteSet(Docs) /\ RowSum(a) = SumFunctionOnSet(f, Docs)
    BY LedgerAssumption DEF RowSum, SumFunction
  <2>3. \A e \in Docs : f[e] \in Int /\ zero[e] \in Int
    BY <1>4, EffectType
  <2>4. \A e \in Docs \ {d} : f[e] = zero[e]
    BY <1>1, <1>3, EffectType
  <2>5. f[d] = Effect(w, a)
    <3>1. CASE k = "none"
      BY <1>1, <1>3, <3>1, EffectType
    <3>2. CASE k # "none" /\ v
      <4>1. row[d] = [RowOf(m) EXCEPT !.live = FALSE] /\ w = NoRow
        BY <1>1, <3>2
      <4>2. row[d].live = FALSE
        BY <1>3, <4>1 DEF Rows
      <4>3. Effect(row[d], a) = 0
        BY <4>2 DEF Effect
      <4> QED BY <1>3, <4>1, <4>3, EffectType
    <3>3. CASE k # "none" /\ ~v
      <4>1. row[d] = [RowOf(m) EXCEPT !.live = TRUE] /\ w = RowOf(m)
        BY <1>1, <3>3
      <4>2. row[d] = RowOf(m)
        BY <4>1 DEF RowOf
      <4> QED BY <4>1, <4>2
    <3> QED BY <3>1, <3>2, <3>3
  <2> HIDE DEF f
  <2>6. SumFunctionOnSet(f, Docs) = SumFunctionOnSet(zero, Docs) + f[d] - zero[d]
    <3> HIDE DEF zero
    <3> QED BY <2>2, <2>3, <2>4, SumChange
  <2>7. SumFunctionOnSet(zero, Docs) = 0
    BY <2>2, SumZero
  <2> QED BY <1>5, <2>2, <2>5, <2>6, <2>7
<1>9. NoOverdraft
  <2>1. SUFFICES ASSUME NEW a \in Accounts, account[a].balance < 0 PROVE a \in owing
    BY DEF NoOverdraft
  <2>2. account[a].balance = o[a] + Effect(w, a) /\ o[a] \in Int
    BY <1>5
  <2>3. o[a] >= 0 => o[a] + Effect(w, a) >= 0
    BY <1>1
  <2>4. o[a] < 0 /\ o[a] + Effect(w, a) < 0
    BY <1>5, <2>1, <2>2, <2>3
  <2> QED BY <1>1, <2>4
<1> QED BY <1>6, <1>7, <1>8, <1>9 DEF MoneyInv

LEMMA MoneyNext == IInv /\ MoneyInv /\ [LedgerNext]_vars => MoneyInv'
<1>a. ASSUME MoneyInv PROVE account \in [Accounts -> AccountRows]
  BY <1>a DEF MoneyInv, MoneyTyped
<1>b. ASSUME IInv, MoneyInv, NEW q \in Requests
      PROVE  /\ OpFits(q) /\ req[q].d \in Docs /\ HeldTyped(q)
             /\ \A a \in Accounts : CopyFresh(q, a) /\ (req[q].want.from = a => Covers(q, a))
  BY <1>b DEF IInv, RequestsFit, RequestTyped, MoneyInv
<1>1. ASSUME MoneyInv, UNCHANGED vars PROVE MoneyInv'
  <2>1. UNCHANGED <<account, kind, doc, row, req, owing, happened>>
    BY <1>1 DEF vars
  <2>2. MoneyTyped' /\ BalanceMatchesLedger' /\ NoOverdraft'
    BY <1>1, <2>1 DEF MoneyInv, MoneyTyped, BalanceMatchesLedger, LedgerBalance, NoOverdraft, Unless
  <2>3. ASSUME NEW q \in Requests
        PROVE  HeldTyped(q)' /\ \A a \in Accounts : CopyFresh(q, a)' /\ (req'[q].want.from = a => Covers(q, a)')
    <3>1. HeldTyped(q) /\ \A a \in Accounts : CopyFresh(q, a) /\ (req[q].want.from = a => Covers(q, a))
      BY <1>1 DEF MoneyInv
    <3> QED BY <2>1, <3>1 DEF HeldTyped, CopyFresh, Covers
  <2> QED BY <2>2, <2>3 DEF MoneyInv
<1>2. ASSUME IInv, MoneyInv, NEW r \in Requests, Reads(r) PROVE MoneyInv'
  <2>1. /\ UNCHANGED <<kind, doc, row, owing, happened>> /\ account' = account
        /\ \A q \in Requests \ {r} : req'[q] = req[q]
    BY <1>2, ReadsOnly, ReadHolds DEF IInv
  <2>2. ASSUME NEW q \in Requests
        PROVE  HeldTyped(q)' /\ \A a \in Accounts : CopyFresh(q, a)' /\ (req'[q].want.from = a => Covers(q, a)')
    <3>1. CASE q = r
      BY <1>2, <3>1, ReadHolds
    <3>2. CASE q # r
      BY <1>2, <1>a, <1>b, <2>1, <3>2, OthersHold
    <3> QED BY <3>1, <3>2
  <2>3. MoneyTyped' /\ BalanceMatchesLedger' /\ NoOverdraft'
    BY <1>2, <2>1 DEF MoneyInv, MoneyTyped, BalanceMatchesLedger, LedgerBalance, NoOverdraft, Unless
  <2> QED BY <2>2, <2>3 DEF MoneyInv
<1>3. ASSUME IInv, MoneyInv, NEW r \in Requests, Writes(r) PROVE MoneyInv'
  <2>1. /\ req'[r] = Idle /\ \A q \in Requests \ {r} : req'[q] = req[q]
        /\ \A d \in Docs : kind[d] # "none" => kind'[d] = kind[d]
    BY <1>3, WritesEnd, KindsStay DEF IInv
  <2>2. /\ MoneyTyped' /\ BalanceMatchesLedger' /\ NoOverdraft'
        /\ \A a \in Accounts : account'[a] = account[a] \/ account'[a].rev = account[a].rev + 1
    <3>1. CASE \E o \in Openings, desired \in Openings \cup {None}, d \in Docs : WriteAccount(r, o, desired, d)
      BY <1>3, <3>1, AccountKept
    <3>2. CASE ~ \E o \in Openings, desired \in Openings \cup {None}, d \in Docs : WriteAccount(r, o, desired, d)
      <4>1. PICK d, was, change, checked, old, events :
               d \in Docs /\ Moves(r, d, was, change, checked, old, events)
        BY <1>3, <3>2, WriteMoves
      <4> QED BY <1>3, <4>1, MovesKeep
    <3> QED BY <3>1, <3>2
  <2>3. ASSUME NEW q \in Requests
        PROVE  HeldTyped(q)' /\ \A a \in Accounts : CopyFresh(q, a)' /\ (req'[q].want.from = a => Covers(q, a)')
    <3>1. CASE q = r
      BY <2>1, <3>1, IdleHolds
    <3>2. CASE q # r
      BY <1>3, <1>a, <1>b, <2>1, <2>2, <3>2, OthersHold
    <3> QED BY <3>1, <3>2
  <2> QED BY <2>2, <2>3 DEF MoneyInv
<1> QED BY <1>1, <1>2, <1>3, NextCases

LEMMA MoneyHolds == LedgerSpec => []MoneyInv
BY MoneyInit, MoneyNext, InvHolds, PTL DEF LedgerSpec

\* BalanceMatchesLedger (accounting.py:121): a stored balance, written as an absolute
\* value from a copy, is the opening balance and the active rows; only a ledger row
\* loaded before and its account after another request's write can break it.
THEOREM BalancesExact == LedgerSpec => []BalanceMatchesLedger
<1>1. MoneyInv => BalanceMatchesLedger
  BY DEF MoneyInv
<1> QED BY <1>1, MoneyHolds, PTL

\* NoOverdraft: what was compared with a balance is still there when it is taken.  An
\* account below zero opened in credit or had something taken out that the code never
\* compares, and has been below zero since.
THEOREM NothingOverdrawn == LedgerSpec => []NoOverdraft
<1>1. MoneyInv => NoOverdraft
  BY DEF MoneyInv
<1> QED BY <1>1, MoneyHolds, PTL

\* A direct entry keeps the sides it was posted with, until an edit widens it.
Sided(d) == /\ doc[d].from = None => row[d].from = None
            /\ doc[d].to = None => row[d].to = None
SidesKept == \A d \in Docs : kind[d] = "direct" => Unless({"row widened"}, Sided(d))

LEMMA SidesInit == Init => SidesKept
<1> SUFFICES ASSUME Init, NEW e \in Docs, kind[e] = "direct" PROVE Sided(e)
  BY DEF SidesKept, Unless
<1>0. PICK o \in [Accounts -> Openings], d \in Docs,
           k \in Payments \cup {"manual", "direct", "none"}, v \in BOOLEAN :
         \E m \in MovementsOf(k) : Opened(o, d, k, v, m)
  BY InitOpened
<1>1. PICK m : /\ doc[e] = [from |-> m.from, to |-> m.to, amt |-> m.amt, void |-> v, rev |-> 1]
               /\ row[e] = [RowOf(m) EXCEPT !.live = ~v]
  BY <1>0 DEF Opened
<1>2. row[e].from = m.from /\ row[e].to = m.to /\ doc[e].from = m.from /\ doc[e].to = m.to
  BY <1>1 DEF RowOf
<1> QED BY <1>2 DEF Sided

\* What an entry on the Accounts page becomes keeps its sides, or says that it widened.
LEMMA PageSides ==
    ASSUME NEW r \in Requests, IInv, MoneyInv, SidesKept, NEW op \in {"row edit", "row delete"},
           OnPage(r, op), NEW d \in Docs, kind[d] = "direct", ~("row widened" \in happened')
    PROVE  Sided(d)'
<1> DEFINE w == Reworked(r)
           old == req[r].row
<1>1. /\ doc' = doc /\ row' = [row EXCEPT ![req[r].d] = Write(@, old, w)] /\ req[r].op = op
      /\ happened \subseteq happened' /\ (Widens(r) => "row widened" \in happened')
  BY DEF OnPage, WriteRow, Done
<1>2. /\ req[r].d \in Docs /\ row \in [Docs -> Rows] /\ old \in Rows /\ req[r].want \in Rows
  BY DEF IInv, RequestsFit, RequestTyped, MoneyInv, MoneyTyped, HeldTyped
<1>3. Sided(d)
  BY <1>1 DEF SidesKept, Unless
<1>4. CASE d # req[r].d
  <2>1. row'[d] = row[d]
    BY <1>1, <1>2, <1>4
  <2> QED BY <1>1, <1>3, <2>1 DEF Sided
<1>5. CASE d = req[r].d
  <2>1. row'[d] = Write(row[d], old, w)
    BY <1>1, <1>2, <1>5
  <2>2. /\ row'[d].from = IF w.from = old.from THEN row[d].from ELSE w.from
        /\ row'[d].to = IF w.to = old.to THEN row[d].to ELSE w.to
    <3>1. "from" \in DOMAIN row[d] /\ "to" \in DOMAIN row[d]
      BY <1>2 DEF Rows
    <3> QED BY <2>1, <3>1 DEF Write
  <2>3. /\ doc[d].from = None => w.from = None
        /\ doc[d].to = None => w.to = None
    BY <1>1, <1>5 DEF Widens
  <2> QED BY <1>1, <1>3, <2>2, <2>3 DEF Sided
<1> QED BY <1>4, <1>5

LEMMA SidesNext == IInv /\ MoneyInv /\ SidesKept /\ [LedgerNext]_vars => SidesKept'
<1>1. ASSUME SidesKept, UNCHANGED <<kind, doc, row, happened>> PROVE SidesKept'
  BY <1>1 DEF SidesKept, Sided, Unless
<1>2. ASSUME IInv, NEW r \in Requests, Reads(r), SidesKept PROVE SidesKept'
  BY <1>1, <1>2, ReadsOnly DEF IInv
<1>3. ASSUME IInv, MoneyInv, SidesKept, NEW r \in Requests, Writes(r) PROVE SidesKept'
  <2>1. SUFFICES ASSUME NEW d \in Docs, kind'[d] = "direct", ~("row widened" \in happened') PROVE Sided(d)'
    BY DEF SidesKept, Unless
  <2>2. /\ kind \in [Docs -> Kinds] /\ doc \in [Docs -> Documents] /\ row \in [Docs -> Rows]
        /\ req[r].d \in Docs
    BY <1>3 DEF IInv, TablesTyped, RequestsFit, RequestTyped, MoneyInv, MoneyTyped
  <2>3. happened \subseteq happened'
    BY <1>3, ZenonT(60) DEF Writes, EditPayment, DeletePayment, RestorePayment, WritePayment, EditRow, DeleteRow,
         OnPage, WriteRow, EditEntry, VoidEntry, RestoreEntry, WithEntry, WriteNew, WriteAccount, Done
  <2>4. ASSUME kind[d] = "direct", doc'[d] = doc[d], row'[d] = row[d] PROVE Sided(d)'
    BY <1>3, <2>1, <2>3, <2>4 DEF SidesKept, Unless, Sided
  <2>5. ASSUME NEW checked, NEW old, WritePayment(r, checked, old), req[r].op \in {"edit", "delete", "restore"}
        PROVE  Sided(d)'
    <3>1. kind' = kind /\ kind[req[r].d] \in Payments
      BY <2>5 DEF WritePayment
    <3>2. d # req[r].d
      BY <2>1, <3>1 DEF Payments, Versioned
    <3> QED BY <1>3, <2>1, <2>4, <2>5, <3>1, <3>2, PaymentWritten
  <2>6. CASE EditEntry(r) \/ VoidEntry(r) \/ RestoreEntry(r)
    <3>1. PICK entry, op, checked : entry \in Documents /\ WithEntry(r, op, entry, checked)
      BY <1>3, <2>6, EntryMeant
    <3>2. kind' = kind
      BY <3>1 DEF WithEntry, WriteRow
    <3>3. kind[req[r].d] = "manual" /\ \A e \in Docs \ {req[r].d} : doc'[e] = doc[e] /\ row'[e] = row[e]
      BY <1>3, <3>1, EntryWritten
    <3> QED BY <2>1, <2>4, <3>2, <3>3
  <2>7. ASSUME NEW op \in {"row edit", "row delete"}, OnPage(r, op) PROVE Sided(d)'
    <3>1. kind' = kind
      BY <2>7 DEF OnPage, WriteRow
    <3> QED BY <1>3, <2>1, <2>7, <3>1, PageSides
  <2>8. ASSUME NEW k \in Payments \cup {"manual", "direct"}, NEW e \in Docs, WriteNew(r, k, e) PROVE Sided(d)'
    <3> DEFINE w == req[r].want
    <3>1. /\ kind' = [kind EXCEPT ![e] = k] /\ row' = [row EXCEPT ![e] = w]
          /\ doc' = [doc EXCEPT ![e] = [from |-> w.from, to |-> w.to, amt |-> w.amt, void |-> FALSE, rev |-> 1]]
      BY <2>8 DEF WriteNew
    <3>2. CASE d = e
      BY <2>2, <3>1, <3>2 DEF Sided
    <3>3. CASE d # e
      BY <2>1, <2>2, <2>4, <3>1, <3>3
    <3> QED BY <3>2, <3>3
  <2>9. ASSUME NEW o \in Openings, NEW desired \in Openings \cup {None}, NEW e \in Docs,
               WriteAccount(r, o, desired, e)
        PROVE  Sided(d)'
    <3>1. PICK w : /\ doc' = doc
                   /\ \/ kind' = kind /\ row' = row
                      \/ kind' = [kind EXCEPT ![e] = "adjustment"] /\ row' = [row EXCEPT ![e] = w]
      BY <2>9 DEF WriteAccount
    <3>2. CASE kind' = kind /\ row' = row
      BY <2>1, <2>4, <3>1, <3>2
    <3>3. CASE kind' = [kind EXCEPT ![e] = "adjustment"] /\ row' = [row EXCEPT ![e] = w]
      BY <2>1, <2>2, <2>4, <3>1, <3>3
    <3> QED BY <3>1, <3>2, <3>3
  <2> QED BY <1>3, <2>5, <2>6, <2>7, <2>8, <2>9, WriteCases
<1> QED BY <1>1, <1>2, <1>3, NextCases DEF vars

LEMMA SidesHold == LedgerSpec => []SidesKept
BY SidesInit, SidesNext, InvHolds, MoneyHolds, PTL DEF LedgerSpec

\* BoardAgrees: the day added up from the source tables and the running balance differ
\* by the adjustments and, on a bank account, the payments of clients.
THEOREM BoardTrue == LedgerSpec => []BoardAgrees
<1>1. ASSUME IInv, MoneyInv, SidesKept PROVE BoardAgrees
  <2>1. SUFFICES ASSUME happened \cap {"entry raced", "row edited", "row widened", "driver raced"} = {}, NEW a \in Accounts
        PROVE  account[a].balance - ExpectedClosing(a) =
                 SumFunctionOnSet([d \in Docs |-> Effect(row[d], a)],
                    {d \in Docs : kind[d] = "adjustment" \/ (kind[d] = "client" /\ a \in BankAccounts)})
    BY DEF BoardAgrees, Unless
  <2> DEFINE f == [d \in Docs |-> Effect(row[d], a)]
             p == [d \in Docs |-> OnBoard(d, a)]
             R == {d \in Docs : kind[d] = "adjustment" \/ (kind[d] = "client" /\ a \in BankAccounts)}
             q == [d \in Docs |-> IF d \in R THEN f[d] ELSE 0]
  <2>2. /\ account[a].balance = account[a].opening + SumFunctionOnSet(f, Docs)
        /\ ExpectedClosing(a) = account[a].opening + SumFunctionOnSet(p, Docs)
        /\ account[a].opening \in Int
    <3>1. account[a].balance = LedgerBalance(a)
      BY <1>1, <2>1 DEF MoneyInv, BalanceMatchesLedger, Unless
    <3>2. account[a].opening \in Int
      BY <1>1 DEF MoneyInv, MoneyTyped, AccountRows
    <3> QED BY <3>1, <3>2 DEF LedgerBalance, ExpectedClosing, SumFunction
  <2>3. ASSUME NEW d \in Docs
        PROVE  p[d] \in Int /\ q[d] \in Int /\ f[d] \in Int /\ f[d] = p[d] + q[d]
    <3>1. /\ row[d] \in Rows /\ RowInLine(d) /\ kind[d] \in Kinds /\ doc[d].void \in BOOLEAN
          /\ (kind[d] = "none" => row[d] = NoRow)
      BY <1>1 DEF IInv, TablesTyped, MoneyInv, MoneyTyped, Documents
    <3>2. f[d] = Effect(row[d], a) /\ f[d] \in Int
      BY <3>1, EffectType
    <3>3. ASSUME kind[d] \in Versioned \cup {"manual"} PROVE Effect(Projection(doc[d]), a) = f[d]
      <4>1. CASE doc[d].void
        <5>1. row[d].live = FALSE
          <6>1. CASE kind[d] \in Versioned
            BY <3>1, <4>1, <6>1 DEF RowInLine, Follows, Rows
          <6>2. CASE kind[d] = "manual"
            <7>1. row[d] = [from |-> doc[d].from, to |-> doc[d].to, amt |-> doc[d].amt, live |-> ~doc[d].void]
              BY <2>1, <3>1, <6>2 DEF RowInLine, Unless
            <7>2. row[d].live = ~doc[d].void
              BY <7>1
            <7> QED BY <3>1, <4>1, <7>2
          <6> QED BY <3>3, <6>1, <6>2
        <5> QED BY <3>1, <3>2, <4>1, <5>1, EffectType DEF Projection, Effect
      <4>2. CASE ~doc[d].void
        <5>1. row[d] = [from |-> doc[d].from, to |-> doc[d].to, amt |-> doc[d].amt, live |-> TRUE]
          <6>1. CASE kind[d] \in Versioned
            BY <3>1, <4>2, <6>1 DEF RowInLine, Follows
          <6>2. CASE kind[d] = "manual"
            <7>1. row[d] = [from |-> doc[d].from, to |-> doc[d].to, amt |-> doc[d].amt, live |-> ~doc[d].void]
              BY <2>1, <3>1, <6>2 DEF RowInLine, Unless
            <7> QED BY <4>2, <7>1
          <6> QED BY <3>3, <6>1, <6>2
        <5>2. Projection(doc[d]) = row[d]
          BY <4>2, <5>1 DEF Projection, RowOf
        <5> QED BY <3>2, <5>2
      <4> QED BY <4>1, <4>2
    <3>4. a \in BankAccounts => a \notin CashAccounts
      BY LedgerAssumption
    <3>5. a \in BankAccounts \/ a \in CashAccounts
      BY DEF Accounts
    <3>6. q[d] = IF kind[d] = "adjustment" \/ (kind[d] = "client" /\ a \in BankAccounts) THEN f[d] ELSE 0
      OBVIOUS
    <3>7. p[d] = OnBoard(d, a)
      OBVIOUS
    <3> HIDE DEF f, p, q
    <3>8. CASE kind[d] = "manual" \/ kind[d] = "supplier"
      BY <3>2, <3>3, <3>6, <3>7, <3>8 DEF OnBoard, Versioned
    <3>9. CASE kind[d] = "client"
      BY <3>2, <3>3, <3>4, <3>5, <3>6, <3>7, <3>9 DEF OnBoard, Versioned
    <3>10. CASE kind[d] \in {"driver", "direct"}
      <4>1. kind[d] = "driver" => Follows(d)
        BY <2>1, <3>1 DEF RowInLine, Unless
      <4>2. kind[d] = "direct" => Sided(d)
        BY <1>1, <2>1 DEF SidesKept, Unless
      <4>3. AsPosted(d) = row[d] \/ row[d].live = FALSE
        <5>1. Sided(d) => AsPosted(d) = row[d]
          BY <3>1 DEF Sided, AsPosted, Rows
        <5>2. CASE kind[d] = "driver" /\ doc[d].void
          BY <3>1, <4>1, <5>2 DEF Follows, Rows
        <5>3. CASE kind[d] = "driver" /\ ~doc[d].void
          <6>1. row[d] = [from |-> doc[d].from, to |-> doc[d].to, amt |-> doc[d].amt, live |-> TRUE]
            BY <4>1, <5>3 DEF Follows
          <6>2. Sided(d)
            BY <6>1 DEF Sided
          <6> QED BY <5>1, <6>2
        <5> QED BY <3>10, <4>2, <5>1, <5>2, <5>3
      <4>4. row[d].live = FALSE => AsPosted(d).live = FALSE
        BY <3>1 DEF AsPosted, Rows
      <4>5. Effect(AsPosted(d), a) = f[d]
        BY <3>2, <4>3, <4>4 DEF Effect
      <4>6. q[d] = 0 /\ p[d] = f[d]
        BY <3>6, <3>7, <3>10, <4>5 DEF OnBoard
      <4> QED BY <3>2, <4>6
    <3>11. CASE kind[d] = "adjustment"
      BY <3>2, <3>6, <3>7, <3>11 DEF OnBoard
    <3>12. CASE kind[d] = "none"
      BY <3>1, <3>2, <3>6, <3>7, <3>12, EffectType DEF OnBoard
    <3> QED BY <3>1, <3>8, <3>9, <3>10, <3>11, <3>12 DEF Kinds, Payments, Versioned
  <2>4. IsFiniteSet(Docs) /\ R \in SUBSET Docs /\ \A d \in Docs : q[d] = IF d \in R THEN f[d] ELSE 0
    BY LedgerAssumption
  <2> HIDE DEF f, p, q, R
  <2>5. SumFunctionOnSet(f, Docs) = SumFunctionOnSet(p, Docs) + SumFunctionOnSet(q, Docs)
    BY <2>3, <2>4, SumPlus
  <2>6. SumFunctionOnSet(f, R) = SumFunctionOnSet(q, Docs)
    BY <2>3, <2>4, SumPart
  <2>7. SumFunctionOnSet(p, Docs) \in Int /\ SumFunctionOnSet(q, Docs) \in Int
    BY <2>3, <2>4, SumType
  <2>8. account[a].balance - ExpectedClosing(a) = SumFunctionOnSet(f, R)
    BY <2>2, <2>5, <2>6, <2>7
  <2> QED BY <2>8 DEF f, R
<1> QED BY <1>1, InvHolds, MoneyHolds, SidesHold, PTL
=============================================================================
