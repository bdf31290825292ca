---------------------------- MODULE Records_proofs ----------------------------
(***************************************************************************)
(* Proofs about records that must stay what they were, for any number of   *)
(* them and any overlapping requests: a document keeps its client and the  *)
(* ledger of one client is its line in the list (ClientIdentity); a closed *)
(* period keeps what it was closed with, a closing expects the balance the *)
(* account shows, and a locked day what it froze (AccountClosing); what    *)
(* the statements of one client show is one amount (ClientStatement).      *)
(***************************************************************************)
EXTENDS ClientIdentity, AccountClosing, ClientStatement, SumTheorems, SequenceTheorems

------------------------------------------------------------------------------
(* Clients and their documents.                                               *)

MasterRows == [st : {"active", "inactive"}, name : Names, code : Codes, to : Clients \cup {Nobody}]
Papers == [name : Names, code : Codes \cup {NoCode}]
ByNameKinds == {"booking", "sale", "waive"}
ByCodeKinds == {"pending", "cancel"}
Apart == "namesakes" \notin happened

\* The client rows are numbered without gaps; documents are those of client rows,
\* and a sale has its pending bill.
ClientsTyped ==
    /\ master \in [Clients -> MasterRows \cup {NoClient}]
    /\ \E n \in 0..MaxClients : Rows = 1..n
    /\ Docs \subseteq Kinds \X Rows
    /\ \A d \in Docs : doc[d] \in Papers
    /\ \A c \in Rows : <<"sale", c>> \in Docs => <<"pending", c>> \in Docs
    /\ rows \in [Clients -> {"home", "lent", "mixed"}]
    /\ \A c \in Clients : rows[c] = "lent" => c \in Rows /\ master[c].to \in Rows \ {c}
    /\ \A c \in Rows : master[c].to \in (Rows \ {c}) \cup {Nobody}

\* Codes never repeat, names do only with a note, and a name is left empty only with one.
CodesApart == \A a, b \in Rows : master[a].code = master[b].code => a = b
NamesApart == Apart => \A a, b \in Rows : master[a].name = master[b].name => a = b
AllNamed == "unnamed" \notin happened => \A c \in Rows : master[c].name # Blank

\* What a document is found by is that of some client row ...
Anchored ==
    \A d \in Docs :
        /\ d[1] \in ByNameKinds => \E c \in Rows : master[c].name = doc[d].name
        /\ d[1] \in ByCodeKinds => \E c \in Rows : master[c].code = doc[d].code

\* ... and, while names are apart, that of its own client or, for rows that were
\* transferred once, of the client they lie with.
OwnPaper ==
    Apart => \A d \in Docs :
        /\ d[1] = "booking" => doc[d].name = master[d[2]].name
        /\ d[1] = "sale" \/ (d[1] \in Moved /\ rows[d[2]] = "home") => doc[d] = Paper(d[2])
        /\ d[1] \in Moved /\ rows[d[2]] = "lent" => doc[d] \in {Paper(d[2]), Paper(master[d[2]].to)}

ClientInv == ClientsTyped /\ CodesApart /\ NamesApart /\ AllNamed /\ Anchored /\ OwnPaper

------------------------------------------------------------------------------
(* Looking clients up.                                                        *)

\* The least of some clients is one of them.
LEMMA LeastClient ==
    ASSUME NEW S \in SUBSET Clients, S # {}
    PROVE  Min(S) \in S
<1>1. S \subseteq Nat /\ \A x, y \in S : x <= y <=> x =< y
  BY DEF Clients
<1>2. \E n \in S : \A m \in S : n =< m
  BY <1>1, LeastNumber
<1> QED BY <1>2 DEF Min

\* Each look-up gives a client row with what was looked for, or nobody.
LEMMA LookUps ==
    ASSUME NEW n, NEW k
    PROVE  /\ ByInput(n) = Nobody <=> Named(n) = {}
           /\ ByInput(n) # Nobody => ByInput(n) \in Named(n)
           /\ ByName(n) = Nobody <=> n = Blank \/ Named(n) = {}
           /\ ByName(n) # Nobody => ByName(n) \in Named(n)
           /\ ByCode(k) = Nobody <=> Coded(k) = {}
           /\ ByCode(k) # Nobody => ByCode(k) \in Coded(k)
<1>1. Nobody \notin Clients
  BY DEF Nobody, Clients
<1> DEFINE live == {c \in Named(n) : master[c].st = "active"}
<1>2. Named(n) \in SUBSET Clients /\ Coded(k) \in SUBSET Clients /\ live \in SUBSET Named(n)
  BY DEF Named, Coded, Rows
<1>3. Named(n) # {} => Min(Named(n)) \in Named(n)
  BY <1>2, LeastClient
<1>4. Coded(k) # {} => Min(Coded(k)) \in Coded(k)
  BY <1>2, LeastClient
<1>5. live # {} => Min(live) \in Named(n)
  BY <1>2, LeastClient
<1>6. /\ n = Blank \/ Named(n) = {} => ByName(n) = Nobody
      /\ ~(n = Blank \/ Named(n) = {}) => ByName(n) \in {Min(live), Min(Named(n))}
                                         /\ (live = {} => ByName(n) = Min(Named(n)))
  BY DEF ByName
<1> HIDE DEF live
<1>7. ~(n = Blank \/ Named(n) = {}) => ByName(n) \in Named(n)
  BY <1>3, <1>5, <1>6
<1>8. /\ ByInput(n) = Nobody <=> Named(n) = {}
      /\ ByInput(n) # Nobody => ByInput(n) \in Named(n)
  BY <1>1, <1>2, <1>3 DEF ByInput
<1>9. /\ ByCode(k) = Nobody <=> Coded(k) = {}
      /\ ByCode(k) # Nobody => ByCode(k) \in Coded(k)
  BY <1>1, <1>2, <1>4 DEF ByCode
<1> QED BY <1>1, <1>2, <1>6, <1>7, <1>8, <1>9

\* What a renaming of n and k to n2 and k2 makes of a document, by its kind.
LEMMA RenamedKinds ==
    ASSUME NEW d \in Kinds, NEW D \in Papers, NEW n \in Names, NEW k \in Codes,
           NEW n2 \in Names, NEW k2 \in Codes,
           NEW both, both = [name |-> n2, code |-> k2],
           NEW R, R = Renamed(d, D, n, k, n2, k2)
    PROVE  /\ R \in Papers
           /\ d = "booking" => R.name = IF D.name = n THEN n2 ELSE D.name
           /\ d \in {"sale", "waive"} => R = IF D.name = n THEN both ELSE D
           /\ d = "pending" => R = IF D.code = k THEN both ELSE D
           /\ d = "cancel" => R.code = (IF D.code = k THEN k2 ELSE D.code)
                                 /\ (D.code = k => R = both)
                                 /\ (D.code # k /\ D.name # n => R = D)
<1> DEFINE half == [D EXCEPT !.name = n2]
<1>1. half \in Papers /\ half.name = n2 /\ half.code = D.code
  BY DEF Papers
<1>2. both \in Papers /\ both.name = n2 /\ both.code = k2
  BY DEF Papers
<1>3. R = IF d \in {"pending", "cancel"} /\ D.code = k THEN both
          ELSE IF d \in {"cancel", "booking"} /\ D.name = n THEN half
          ELSE IF d \in {"sale", "waive"} /\ D.name = n THEN both
          ELSE D
  <2>1. d \in {"booking", "sale", "payment", "pending", "waive", "cancel"}
    BY DEF Kinds
  <2> HIDE DEF half
  <2>2. R = (CASE d = "pending" /\ D.code = k                  -> both
               [] d = "cancel" /\ D.code = k                   -> both
               [] d = "cancel" /\ ~(D.code = k) /\ D.name = n  -> half
               [] d = "booking" /\ D.name = n                  -> half
               [] d \in {"sale", "waive"} /\ D.name = n        -> both
               [] OTHER -> D)
    BY DEF Renamed, half
  <2>3. CASE d = "pending"
    BY <2>2, <2>3
  <2>4. CASE d = "cancel"
    BY <2>2, <2>4
  <2>5. CASE d = "booking"
    BY <2>2, <2>5
  <2>6. CASE d \in {"sale", "waive"}
    BY <2>2, <2>6
  <2>7. CASE d = "payment"
    BY <2>2, <2>7
  <2> QED BY <2>1, <2>3, <2>4, <2>5, <2>6, <2>7
<1> HIDE DEF half
<1> QED BY <1>1, <1>2, <1>3

------------------------------------------------------------------------------
(* The steps.                                                                 *)

\* A row has a name, a code and a state; the copies on a document are in type.
LEMMA RowFields ==
    ASSUME ClientsTyped
    PROVE  /\ \A c \in Rows : /\ c \in Clients /\ master[c] \in MasterRows /\ Paper(c) \in Papers
                              /\ Paper(c).name = master[c].name /\ Paper(c).code = master[c].code
           /\ \A c \in Clients : c \in Rows \/ master[c] = NoClient
           /\ \A d \in Docs : d[1] \in Kinds /\ d[2] \in Rows /\ d = <<d[1], d[2]>>
<1>1. \A c \in Rows : c \in Clients /\ master[c] \in MasterRows
  BY DEF ClientsTyped, Rows, NoClient
<1>2. \A c \in Rows : Paper(c) \in Papers /\ Paper(c).name = master[c].name /\ Paper(c).code = master[c].code
  BY <1>1 DEF MasterRows, Paper, Papers
<1>3. \A c \in Clients : c \in Rows \/ master[c] = NoClient
  BY DEF ClientsTyped, Rows, NoClient, MasterRows
<1>4. \A d \in Docs : d[1] \in Kinds /\ d[2] \in Rows /\ d = <<d[1], d[2]>>
  BY DEF ClientsTyped
<1> QED BY <1>1, <1>2, <1>3, <1>4

\* A posted document carries what its client's row says.
LEMMA PostStep ==
    ASSUME ClientInv, NEW c \in Clients, NEW k \in Kinds, PostFor(c, k)
    PROVE  ClientInv'
<1> DEFINE new == {<<k, c>>} \cup (IF k = "sale" THEN {<<"pending", c>>} ELSE {})
<1>1. /\ c \in Rows /\ doc' = [d \in Docs \cup new |-> IF d \in new THEN Paper(c) ELSE doc[d]]
      /\ UNCHANGED <<master, rows, happened>>
  BY DEF PostFor
<1>2. /\ \A d \in new : d[2] = c /\ d[1] \in Kinds /\ d = <<d[1], d[2]>>
      /\ <<"sale", c>> \in new => <<"pending", c>> \in new
      /\ \A b : <<"sale", b>> \in new => b = c
  BY DEF Kinds
<1> HIDE DEF new
<1>3. /\ Docs' = Docs \cup new
      /\ \A d \in new : doc'[d] = Paper(c)
      /\ \A d \in Docs \ new : doc'[d] = doc[d]
  BY <1>1 DEF Docs
<1>4. Rows' = Rows /\ Apart' = Apart /\ \A b : Paper(b)' = Paper(b)
  BY <1>1 DEF Rows, Apart, Paper
<1>5. ClientsTyped
  BY DEF ClientInv
<1>6. ClientsTyped'
  <2>1. Docs' \subseteq Kinds \X Rows /\ \A d \in Docs' : doc'[d] \in Papers
    BY <1>1, <1>2, <1>3, <1>5, RowFields DEF ClientsTyped
  <2>2. \A b \in Rows : <<"sale", b>> \in Docs' => <<"pending", b>> \in Docs'
    BY <1>2, <1>3, <1>5 DEF ClientsTyped
  <2> QED BY <1>1, <1>4, <1>5, <2>1, <2>2 DEF ClientsTyped
<1>7. CodesApart' /\ NamesApart' /\ AllNamed'
  BY <1>1, <1>4 DEF ClientInv, CodesApart, NamesApart, AllNamed
<1>8. Anchored'
  BY <1>1, <1>3, <1>4, <1>5, RowFields DEF ClientInv, Anchored
<1>9. OwnPaper'
  BY <1>1, <1>2, <1>3, <1>4, <1>5, RowFields DEF ClientInv, OwnPaper
<1> QED BY <1>6, <1>7, <1>8, <1>9 DEF ClientInv

\* A client row is added behind the others, with a code of its own.
LEMMA AddStep ==
    ASSUME ClientInv, NEW n \in Names, NEW k \in Codes, AddClient(n, k)
    PROVE  ClientInv'
<1> DEFINE a == Cardinality(Rows) + 1
<1>1. ClientsTyped
  BY DEF ClientInv
<1>2. PICK m \in 0..MaxClients : Rows = 1..m
  BY <1>1 DEF ClientsTyped
<1>3. m \in Nat /\ a = m + 1 /\ a \in Clients \ Rows
  <2>1. m \in Nat /\ Cardinality(1..m) = m
    BY <1>2, FS_Interval, ClientsAssumption
  <2> QED BY <1>2, <2>1, ClientsAssumption DEF AddClient, Clients
<1> HIDE DEF a
<1>4. /\ master' = [master EXCEPT ![a] = Row(n, k)] /\ UNCHANGED <<doc, rows>>
      /\ n # Blank /\ Coded(k) = {}
      /\ happened' = happened \cup (IF Namesakes(master') THEN {"namesakes"} ELSE {})
  BY DEF AddClient, Note, a
<1>5. Row(n, k) \in MasterRows /\ Row(n, k).st # "none" /\ Row(n, k).name = n
      /\ Row(n, k).code = k /\ Row(n, k).to = Nobody
  BY DEF Row, MasterRows
<1>6. /\ master'[a] = Row(n, k) /\ \A c \in Clients \ {a} : master'[c] = master[c]
      /\ master' \in [Clients -> MasterRows \cup {NoClient}]
  BY <1>1, <1>3, <1>4, <1>5 DEF ClientsTyped
<1>7. Rows' = Rows \cup {a} /\ a \notin Rows /\ Rows \subseteq Clients
  BY <1>3, <1>5, <1>6 DEF Rows
<1>8. Docs' = Docs /\ \A c \in Rows : Paper(c)' = Paper(c) /\ master'[c] = master[c]
  BY <1>4, <1>6, <1>7 DEF Docs, Paper
<1>9. ClientsTyped'
  <2>1. Rows' = 1..(m + 1) /\ m + 1 \in 0..MaxClients
    BY <1>2, <1>3, <1>7, ClientsAssumption DEF Clients
  <2>2. \A c \in Rows' : <<"sale", c>> \in Docs => <<"pending", c>> \in Docs
    BY <1>1, <1>7 DEF ClientsTyped
  <2>3. \A c \in Clients : rows[c] = "lent" => c \in Rows' /\ master'[c].to \in Rows' \ {c}
    BY <1>1, <1>7, <1>8 DEF ClientsTyped
  <2>4. \A c \in Rows' : master'[c].to \in (Rows' \ {c}) \cup {Nobody}
    BY <1>1, <1>5, <1>6, <1>7, <1>8 DEF ClientsTyped
  <2> QED BY <1>1, <1>4, <1>6, <1>7, <1>8, <2>1, <2>2, <2>3, <2>4 DEF ClientsTyped
<1>10. CodesApart'
  BY <1>4, <1>5, <1>6, <1>7, <1>8 DEF ClientInv, CodesApart, Coded
<1>11. NamesApart'
  <2>1. "namesakes" \notin happened' => ~Namesakes(master')
    BY <1>4
  <2>2. \A c \in Rows' : c \in Clients /\ master'[c].st # "none"
    BY DEF Rows
  <2> QED BY <2>1, <2>2 DEF NamesApart, Apart, Namesakes
<1>12. AllNamed'
  BY <1>4, <1>5, <1>6, <1>7, <1>8 DEF ClientInv, AllNamed
<1>13. Anchored'
  BY <1>4, <1>7, <1>8 DEF ClientInv, Anchored
<1>14. OwnPaper'
  <2>1. Apart' => Apart
    BY <1>4 DEF Apart
  <2>2. \A d \in Docs : d[2] \in Rows
    BY <1>1, RowFields
  <2>3. \A c \in Rows : rows[c] = "lent" => master[c].to \in Rows
    BY <1>1, <1>7 DEF ClientsTyped
  <2> QED BY <1>4, <1>8, <2>1, <2>2, <2>3 DEF ClientInv, OwnPaper
<1> QED BY <1>9, <1>10, <1>11, <1>12, <1>13, <1>14 DEF ClientInv

\* Renaming and recoding a client rewrites its documents, whatever they are found by.
LEMMA EditStep ==
    ASSUME ClientInv, NEW c \in Clients, NEW n2 \in Names, NEW k2 \in Codes, EditClient(c, n2, k2)
    PROVE  ClientInv'
<1> DEFINE n == master[c].name
           k == master[c].code
           both == [name |-> n2, code |-> k2]
<1>1. ClientsTyped
  BY DEF ClientInv
<1>2. /\ c \in Rows /\ Coded(k2) \subseteq {c} /\ UNCHANGED rows
      /\ doc' = [d \in Docs |-> Renamed(d[1], doc[d], n, k, n2, k2)]
      /\ master' = [master EXCEPT ![c].name = n2, ![c].code = k2]
      /\ happened \subseteq happened'
      /\ "namesakes" \notin happened' => ~Namesakes(master')
      /\ "unnamed" \notin happened' => n2 # Blank
  BY DEF EditClient, Note
<1>3. n \in Names /\ k \in Codes /\ master[c] \in MasterRows
  BY <1>1, <1>2, RowFields DEF MasterRows
<1>4. /\ \A b \in Clients \ {c} : master'[b] = master[b]
      /\ master'[c].name = n2 /\ master'[c].code = k2 /\ master'[c].to = master[c].to
      /\ master'[c].st = master[c].st /\ master'[c] \in MasterRows
      /\ master' \in [Clients -> MasterRows \cup {NoClient}]
  BY <1>1, <1>2, <1>3 DEF ClientsTyped, MasterRows
<1>5. Rows' = Rows /\ Rows \subseteq Clients
  BY <1>4 DEF Rows
<1>6. Docs' = Docs /\ \A d \in Docs : doc'[d] = Renamed(d[1], doc[d], n, k, n2, k2)
  BY <1>2 DEF Docs
<1>7. /\ \A b \in Rows \ {c} : Paper(b)' = Paper(b)
      /\ Paper(c) = [name |-> n, code |-> k] /\ Paper(c)' = both
  BY <1>4, <1>5 DEF Paper
<1> HIDE DEF n, k, both
<1>8. ASSUME NEW d \in Docs
      PROVE  /\ d[1] \in Kinds /\ d[2] \in Rows /\ doc'[d] \in Papers
             /\ d[1] = "booking" => doc'[d].name = IF doc[d].name = n THEN n2 ELSE doc[d].name
             /\ d[1] \in {"sale", "waive"} => doc'[d] = IF doc[d].name = n THEN both ELSE doc[d]
             /\ d[1] = "pending" => doc'[d] = IF doc[d].code = k THEN both ELSE doc[d]
             /\ d[1] = "cancel" => doc'[d].code = (IF doc[d].code = k THEN k2 ELSE doc[d].code)
                                   /\ (doc[d].code = k => doc'[d] = both)
                                   /\ (doc[d].code # k /\ doc[d].name # n => doc'[d] = doc[d])
  <2>1. d[1] \in Kinds /\ d[2] \in Rows /\ doc[d] \in Papers
    BY <1>1, RowFields DEF ClientsTyped
  <2>2. both = [name |-> n2, code |-> k2]
    BY DEF both
  <2>3. doc'[d] = Renamed(d[1], doc[d], n, k, n2, k2)
    BY <1>6
  <2> QED BY <1>3, <2>1, <2>2, <2>3, RenamedKinds
<1>9. both.name = n2 /\ both.code = k2
  BY DEF both
<1>10. ClientsTyped'
  <2>1. \A b \in Rows : master'[b].to = master[b].to
    BY <1>4, <1>5
  <2>2. \A b \in Clients : rows[b] = "lent" => b \in Rows /\ master'[b].to \in Rows \ {b}
    BY <1>1, <2>1 DEF ClientsTyped
  <2>3. \A b \in Rows : master'[b].to \in (Rows \ {b}) \cup {Nobody}
    BY <1>1, <2>1 DEF ClientsTyped
  <2> QED BY <1>1, <1>2, <1>4, <1>5, <1>6, <1>8, <2>2, <2>3 DEF ClientsTyped
<1>11. CodesApart'
  <2>1. \A b \in Rows \ {c} : master[b].code # k2
    BY <1>2 DEF Coded
  <2> QED BY <1>4, <1>5, <2>1 DEF ClientInv, CodesApart
<1>12. NamesApart'
  <2>1. \A b \in Rows' : b \in Clients /\ master'[b].st # "none"
    BY DEF Rows
  <2> QED BY <1>2, <2>1 DEF NamesApart, Apart, Namesakes
<1>13. AllNamed'
  BY <1>2, <1>4, <1>5 DEF ClientInv, AllNamed
<1>14. Anchored'
  <2> SUFFICES ASSUME NEW d \in Docs
               PROVE  /\ d[1] \in ByNameKinds => \E b \in Rows : master'[b].name = doc'[d].name
                      /\ d[1] \in ByCodeKinds => \E b \in Rows : master'[b].code = doc'[d].code
    BY <1>5, <1>6 DEF Anchored
  <2>1. CASE d[1] \in ByNameKinds
    <3>1. PICK b \in Rows : master[b].name = doc[d].name
      BY <2>1 DEF ClientInv, Anchored
    <3>2. doc'[d].name = IF doc[d].name = n THEN n2 ELSE doc[d].name
      BY <1>8, <1>9, <2>1 DEF ByNameKinds
    <3>3. doc[d].name = n => master'[c].name = doc'[d].name
      BY <1>4, <3>2
    <3>4. doc[d].name # n => b # c /\ master'[b].name = doc'[d].name
      BY <1>4, <1>5, <3>1, <3>2 DEF n
    <3> QED BY <1>2, <2>1, <3>3, <3>4 DEF ByNameKinds, ByCodeKinds
  <2>2. CASE d[1] \in ByCodeKinds
    <3>1. PICK b \in Rows : master[b].code = doc[d].code
      BY <2>2 DEF ClientInv, Anchored
    <3>2. doc'[d].code = IF doc[d].code = k THEN k2 ELSE doc[d].code
      BY <1>8, <1>9, <2>2 DEF ByCodeKinds
    <3>3. doc[d].code = k => master'[c].code = doc'[d].code
      BY <1>4, <3>2
    <3>4. doc[d].code # k => b # c /\ master'[b].code = doc'[d].code
      BY <1>4, <1>5, <3>1, <3>2 DEF k
    <3> QED BY <1>2, <2>2, <3>3, <3>4 DEF ByNameKinds, ByCodeKinds
  <2> QED BY <2>1, <2>2
<1>15. OwnPaper'
  <2> SUFFICES ASSUME Apart', NEW d \in Docs
               PROVE  (/\ d[1] = "booking" => doc[d].name = master[d[2]].name
                       /\ d[1] = "sale" \/ (d[1] \in Moved /\ rows[d[2]] = "home") => doc[d] = Paper(d[2])
                       /\ d[1] \in Moved /\ rows[d[2]] = "lent"
                             => doc[d] \in {Paper(d[2]), Paper(master[d[2]].to)})'
    BY <1>6 DEF OwnPaper
  <2>1. Apart
    BY <1>2 DEF Apart
  <2>2. d[2] \in Rows /\ d[1] \in Kinds
    BY <1>8
  <2>3. \A b \in Rows \ {c} : master[b].name # n /\ master[b].code # k
    BY <1>2, <2>1 DEF ClientInv, CodesApart, NamesApart, n, k
  <2>4. \A b \in Rows : master'[b].to = master[b].to
    BY <1>4, <1>5
  \* whatever of these papers a document was, it is the same paper again
  <2>5. ASSUME NEW b \in Rows, d[1] \in {"sale", "pending", "waive", "cancel"}, doc[d] = Paper(b)
        PROVE  doc'[d] = Paper(b)'
    <3>1. CASE b = c
      <4>1. doc[d].name = n /\ doc[d].code = k
        BY <1>7, <2>5, <3>1
      <4> QED BY <1>7, <1>8, <2>5, <3>1, <4>1
    <3>2. CASE b # c
      <4>1. doc[d].name # n /\ doc[d].code # k
        BY <1>1, <2>3, <2>5, <3>2, RowFields
      <4> QED BY <1>7, <1>8, <2>5, <3>2, <4>1
    <3> QED BY <3>1, <3>2
  <2>6. CASE d[1] = "booking"
    <3>1. doc[d].name = master[d[2]].name
      BY <2>1, <2>6 DEF ClientInv, OwnPaper
    <3>2. doc'[d].name = master'[d[2]].name
      <4>1. CASE d[2] = c
        BY <1>4, <1>8, <2>6, <3>1, <4>1 DEF n
      <4>2. CASE d[2] # c
        BY <1>4, <1>5, <1>8, <2>2, <2>3, <2>6, <3>1, <4>2
      <4> QED BY <4>1, <4>2
    <3> QED BY <2>6, <3>2 DEF Moved
  <2>7. CASE d[1] = "sale"
    <3>1. doc[d] = Paper(d[2])
      BY <2>1, <2>7 DEF ClientInv, OwnPaper
    <3> QED BY <2>2, <2>5, <2>7, <3>1 DEF Moved
  <2>8. CASE d[1] \in Moved
    <3>1. rows[d[2]] = "home" => doc'[d] = Paper(d[2])'
      <4>1. rows[d[2]] = "home" => doc[d] = Paper(d[2])
        BY <2>1, <2>8 DEF ClientInv, OwnPaper
      <4> QED BY <2>2, <2>5, <2>8, <4>1 DEF Moved
    <3>2. ASSUME rows[d[2]] = "lent"
          PROVE  doc'[d] \in {Paper(d[2])', Paper(master[d[2]].to)'}
      <4>1. PICK t \in Rows : t = master[d[2]].to
        BY <1>1, <1>5, <2>2, <3>2 DEF ClientsTyped
      <4>2. doc[d] \in {Paper(d[2]), Paper(t)}
        BY <2>1, <2>8, <3>2, <4>1 DEF ClientInv, OwnPaper
      <4>3. doc[d] = Paper(d[2]) => doc'[d] = Paper(d[2])'
        BY <2>2, <2>5, <2>8 DEF Moved
      <4>4. doc[d] = Paper(t) => doc'[d] = Paper(t)'
        BY <2>5, <2>8 DEF Moved
      <4>5. master'[d[2]].to = t
        BY <2>2, <2>4, <4>1
      <4> QED BY <4>2, <4>3, <4>4, <4>5
    <3> QED BY <1>2, <2>8, <3>1, <3>2 DEF Moved
  <2>9. CASE d[1] = "payment"
    BY <2>9 DEF Moved
  <2> QED BY <2>2, <2>6, <2>7, <2>8, <2>9 DEF Kinds, Moved
<1> QED BY <1>10, <1>11, <1>12, <1>13, <1>14, <1>15 DEF ClientInv

\* The other pages leave the names and codes of the client rows alone.
NamesStay ==
    /\ master' \in [Clients -> MasterRows \cup {NoClient}]
    /\ \A c \in Rows : /\ master'[c] \in MasterRows
                       /\ master'[c].name = master[c].name /\ master'[c].code = master[c].code
    /\ \A c \in Clients \ Rows : master'[c] = master[c]
    /\ happened' = happened

LEMMA QuietMaster ==
    ASSUME ClientInv, NamesStay
    PROVE  /\ Rows' = Rows /\ Apart' = Apart /\ \A c \in Rows : Paper(c)' = Paper(c)
           /\ CodesApart' /\ NamesApart' /\ AllNamed'
<1> USE DEF NamesStay
<1>1. \A c \in Rows : master'[c].st # "none"
  BY DEF MasterRows
<1>2. Rows' = Rows
  BY <1>1 DEF Rows
<1>3. \A c \in Rows : Paper(c)' = Paper(c)
  BY DEF Paper
<1>4. CodesApart' /\ NamesApart' /\ AllNamed' /\ Apart' = Apart
  BY <1>2 DEF ClientInv, CodesApart, NamesApart, AllNamed, Apart
<1> QED BY <1>2, <1>3, <1>4

\* Only the states of the clients change.
StatesOnly ==
    /\ master' \in [Clients -> MasterRows \cup {NoClient}]
    /\ \A b \in Rows : /\ master'[b] \in MasterRows /\ master'[b].name = master[b].name
                       /\ master'[b].code = master[b].code /\ master'[b].to = master[b].to
    /\ \A b \in Clients \ Rows : master'[b] = master[b]

\* Suspending and activating clients touches neither documents nor transfers.
LEMMA StateStep ==
    ASSUME ClientInv, ActivateAll \/ \E c \in Clients : Suspend(c)
    PROVE  ClientInv'
<1>1. ClientsTyped
  BY DEF ClientInv
<1>2. UNCHANGED <<doc, rows, happened>>
  BY DEF ActivateAll, Suspend
<1>3. StatesOnly
  <2>1. \A b \in Rows : b \in Clients /\ master[b] \in MasterRows
    BY <1>1, RowFields
  <2>2. \A b \in Rows, st \in {"active", "inactive"} :
           LET m == [master[b] EXCEPT !.st = st]
           IN  m \in MasterRows /\ m.name = master[b].name /\ m.code = master[b].code /\ m.to = master[b].to
    BY <2>1 DEF MasterRows
  <2>3. CASE ActivateAll
    <3>1. master' = [c \in Clients |-> IF c \in Rows THEN [master[c] EXCEPT !.st = "active"] ELSE master[c]]
      BY <2>3 DEF ActivateAll
    <3>2. \A b \in Rows : master'[b] = [master[b] EXCEPT !.st = "active"]
      BY <2>1, <3>1
    <3>3. \A b \in Clients \ Rows : master'[b] = master[b] /\ master[b] = NoClient
      BY <1>1, <3>1, RowFields
    <3>4. \A b \in Rows : master'[b] \in MasterRows
      BY <2>2, <3>2
    <3>5. master' \in [Clients -> MasterRows \cup {NoClient}]
      BY <3>1, <3>3, <3>4
    <3> QED BY <2>2, <3>2, <3>3, <3>4, <3>5 DEF StatesOnly
  <2>4. ASSUME NEW c \in Clients, Suspend(c)
        PROVE  StatesOnly
    <3>1. c \in Rows /\ master' = [master EXCEPT ![c] = [master[c] EXCEPT !.st = "inactive"]]
      BY <2>4 DEF Suspend
    <3>2. [master[c] EXCEPT !.st = "inactive"] \in MasterRows
      BY <2>2, <3>1
    <3> QED BY <1>1, <2>1, <2>2, <3>1, <3>2 DEF ClientsTyped, StatesOnly
  <2> QED BY <2>3, <2>4
<1>4. NamesStay
  BY <1>2, <1>3 DEF NamesStay, StatesOnly
<1>5. Rows' = Rows /\ Docs' = Docs
  BY <1>2, <1>4, QuietMaster DEF Docs
<1>6. ClientsTyped'
  <2>1. \A b \in Clients : rows[b] = "lent" => b \in Rows /\ master'[b].to \in Rows \ {b}
    BY <1>1, <1>3 DEF ClientsTyped, StatesOnly
  <2>2. \A b \in Rows : master'[b].to \in (Rows \ {b}) \cup {Nobody}
    BY <1>1, <1>3 DEF ClientsTyped, StatesOnly
  <2> QED BY <1>1, <1>2, <1>3, <1>5, <2>1, <2>2 DEF ClientsTyped, StatesOnly
<1>7. Anchored'
  BY <1>2, <1>3, <1>5 DEF ClientInv, Anchored, StatesOnly
<1>8. OwnPaper'
  <2>1. \A d \in Docs : d[2] \in Rows /\ master'[d[2]].to = master[d[2]].to
    BY <1>1, <1>3, RowFields DEF StatesOnly
  <2>2. \A b \in Rows : rows[b] = "lent" => master[b].to \in Rows
    BY <1>1, RowFields DEF ClientsTyped
  <2>3. \A b \in Rows : rows[b] = "lent" => Paper(master[b].to)' = Paper(master[b].to)
    <3>1. \A b \in Rows : master'[b].name = master[b].name /\ master'[b].code = master[b].code
                          /\ master'[b].to = master[b].to
      BY <1>3 DEF StatesOnly
    <3>2. SUFFICES ASSUME NEW b \in Rows, rows[b] = "lent" PROVE Paper(master[b].to)' = Paper(master[b].to)
      OBVIOUS
    <3>3. master[b].to \in Rows /\ master'[b].to = master[b].to
      BY <2>2, <3>1, <3>2
    <3> QED BY <3>1, <3>3 DEF Paper
  <2> QED BY <1>2, <1>3, <1>4, <1>5, <2>1, <2>3, QuietMaster DEF ClientInv, OwnPaper, StatesOnly
<1> QED BY <1>4, <1>6, <1>7, <1>8, QuietMaster DEF ClientInv

\* The rows of transferred kinds that get the paper of another client.
LEMMA Rewritten ==
    ASSUME ClientInv, NamesStay, NEW t \in Rows, NEW D \in SUBSET Docs, Rewrite(D, t)
    PROVE  /\ Docs' = Docs
           /\ \A d \in Docs : doc'[d] = IF d \in D /\ d[1] \in Moved THEN Paper(t) ELSE doc[d]
           /\ \A d \in Docs : doc'[d] \in Papers
           /\ Anchored'
<1>1. Docs' = Docs /\ \A d \in Docs : doc'[d] = IF d \in D /\ d[1] \in Moved THEN Paper(t) ELSE doc[d]
  BY DEF Rewrite, Docs
<1>2. ClientsTyped
  BY DEF ClientInv
<1>3. \A d \in Docs : doc'[d] \in Papers
  BY <1>1, <1>2, RowFields DEF ClientsTyped
<1>4. Rows' = Rows /\ \A b \in Rows : master'[b].name = master[b].name /\ master'[b].code = master[b].code
  BY QuietMaster DEF NamesStay
<1>5. Paper(t).name = master[t].name /\ Paper(t).code = master[t].code
  BY <1>2, RowFields
<1>6. Anchored'
  BY <1>1, <1>4, <1>5 DEF ClientInv, Anchored
<1> QED BY <1>1, <1>3, <1>6

\* A transfer gives the rows of a client to another and notes that they lie there.
LEMMA TransferStep ==
    ASSUME ClientInv, NEW s \in Clients, NEW t \in Clients, Transfer(s, t)
    PROVE  ClientInv'
<1>1. ClientsTyped
  BY DEF ClientInv
<1>2. /\ s \in Rows /\ t \in Rows \ {s}
      /\ Rewrite(WithCode(s), t) /\ happened' = happened
      /\ master' = [master EXCEPT ![s].st = "inactive", ![s].to = t]
      /\ rows' = [c \in Clients |->
                   CASE c = s -> IF rows[s] = "home" THEN "lent" ELSE "mixed"
                     [] c \in LentTo(s) \ {s} -> "mixed"
                     [] OTHER -> rows[c]]
  BY DEF Transfer
<1>3. /\ s \in Clients /\ master[s] \in MasterRows /\ Rows \subseteq Clients
  BY <1>1, <1>2, RowFields
<1>4. /\ master'[s] \in MasterRows /\ master'[s].name = master[s].name /\ master'[s].code = master[s].code
      /\ master'[s].to = t
      /\ \A c \in Clients \ {s} : master'[c] = master[c]
      /\ master' \in [Clients -> MasterRows \cup {NoClient}]
  BY <1>1, <1>2, <1>3 DEF ClientsTyped, MasterRows
<1>5. NamesStay
  BY <1>1, <1>2, <1>4, RowFields DEF NamesStay
<1>6. Rows' = Rows /\ Apart' = Apart /\ \A c \in Rows : Paper(c)' = Paper(c)
  BY <1>5, QuietMaster
<1>7. WithCode(s) \in SUBSET Docs
  BY DEF WithCode
<1>8. /\ Docs' = Docs /\ \A d \in Docs : doc'[d] \in Papers
      /\ \A d \in Docs : doc'[d] = IF d \in WithCode(s) /\ d[1] \in Moved THEN Paper(t) ELSE doc[d]
      /\ Anchored'
  BY <1>2, <1>5, <1>7, Rewritten
<1>9. /\ rows' \in [Clients -> {"home", "lent", "mixed"}]
      /\ rows'[s] # "home" /\ (rows'[s] = "lent" => rows[s] = "home")
      /\ \A c \in Clients \ {s} :
            /\ rows'[c] = "home" => rows[c] = "home"
            /\ rows'[c] = "lent" => rows[c] = "lent" /\ c \notin LentTo(s)
  <2>1. \A c \in Clients : rows[c] \in {"home", "lent", "mixed"}
    BY <1>1 DEF ClientsTyped
  <2>2. rows'[s] = IF rows[s] = "home" THEN "lent" ELSE "mixed"
    BY <1>2
  <2>3. \A c \in Clients \ {s} : rows'[c] = IF c \in LentTo(s) THEN "mixed" ELSE rows[c]
    BY <1>2
  <2>4. \A c \in LentTo(s) : rows[c] # "home"
    BY DEF LentTo
  <2>5. \A c \in Clients : rows'[c] \in {"home", "lent", "mixed"}
    BY <2>1, <2>2, <2>3
  <2> QED BY <1>2, <2>1, <2>2, <2>3, <2>4, <2>5
<1>10. ClientsTyped'
  <2>1. \A b \in Clients : rows'[b] = "lent" => b \in Rows /\ master'[b].to \in Rows \ {b}
    BY <1>1, <1>2, <1>4, <1>9 DEF ClientsTyped
  <2>2. \A b \in Rows : master'[b].to \in (Rows \ {b}) \cup {Nobody}
    BY <1>1, <1>2, <1>3, <1>4 DEF ClientsTyped
  <2> QED BY <1>1, <1>4, <1>6, <1>8, <1>9, <2>1, <2>2 DEF ClientsTyped
<1>11. OwnPaper'
  <2> SUFFICES ASSUME Apart, NEW d \in Docs
               PROVE  (/\ d[1] = "booking" => doc[d].name = master[d[2]].name
                       /\ d[1] = "sale" \/ (d[1] \in Moved /\ rows[d[2]] = "home") => doc[d] = Paper(d[2])
                       /\ d[1] \in Moved /\ rows[d[2]] = "lent"
                             => doc[d] \in {Paper(d[2]), Paper(master[d[2]].to)})'
    BY <1>6, <1>8 DEF OwnPaper
  <2>1. d[2] \in Rows /\ master'[d[2]].name = master[d[2]].name
    BY <1>1, <1>3, <1>4, RowFields
  <2>2. /\ d[1] = "booking" => doc[d].name = master[d[2]].name
        /\ d[1] = "sale" \/ (d[1] \in Moved /\ rows[d[2]] = "home") => doc[d] = Paper(d[2])
        /\ d[1] \in Moved /\ rows[d[2]] = "lent" => doc[d] \in {Paper(d[2]), Paper(master[d[2]].to)}
    BY DEF ClientInv, OwnPaper
  \* a paper of another client is not taken along
  <2>3. \A b \in Rows \ {s} : doc[d] = Paper(b) => doc'[d] = doc[d]
    <3>1. \A b \in Rows \ {s} : Paper(b).code # master[s].code
      BY <1>1, <1>2, RowFields DEF ClientInv, CodesApart
    <3> QED BY <1>8, <3>1 DEF WithCode
  <2>4. CASE d[1] \notin Moved
    BY <1>6, <1>8, <2>1, <2>2, <2>4
  <2>5. CASE d[1] \in Moved /\ d[2] = s
    <3>1. rows'[s] = "lent" => doc[d] = Paper(s)
      BY <1>9, <2>2, <2>5
    <3>2. rows'[s] = "lent" => doc'[d] = Paper(t)
      BY <1>1, <1>2, <1>8, <2>5, <3>1, RowFields DEF WithCode
    <3>3. Paper(t)' = Paper(t) /\ master'[d[2]].to = t
      BY <1>2, <1>4, <1>6, <2>5
    <3> QED BY <1>9, <2>5, <3>2, <3>3 DEF Moved
  <2>6. CASE d[1] \in Moved /\ d[2] # s
    <3>1. /\ rows'[d[2]] = "home" => rows[d[2]] = "home"
          /\ rows'[d[2]] = "lent" => rows[d[2]] = "lent" /\ d[2] \notin LentTo(s)
          /\ master'[d[2]].to = master[d[2]].to
      BY <1>3, <1>4, <1>9, <2>1, <2>6
    <3>2. rows'[d[2]] = "home" => doc'[d] = Paper(d[2])'
      BY <1>6, <2>1, <2>2, <2>3, <2>6, <3>1
    <3>3. ASSUME rows'[d[2]] = "lent" PROVE doc'[d] \in {Paper(d[2])', Paper(master[d[2]].to)'}
      <4>1. PICK u \in Rows : u = master[d[2]].to
        BY <1>1, <1>3, <2>1, <3>1, <3>3 DEF ClientsTyped
      <4>2. u # s
        BY <2>1, <3>1, <3>3, <4>1 DEF LentTo
      <4>3. doc[d] \in {Paper(d[2]), Paper(u)}
        BY <2>2, <2>6, <3>1, <3>3, <4>1
      <4>4. doc'[d] = doc[d]
        BY <2>1, <2>3, <2>6, <4>2, <4>3
      <4>5. Paper(u)' = Paper(u) /\ Paper(d[2])' = Paper(d[2]) /\ master'[d[2]].to = u
        BY <1>6, <2>1, <3>1, <4>1
      <4> QED BY <4>3, <4>4, <4>5
    <3> QED BY <2>6, <3>2, <3>3 DEF Moved
  <2> QED BY <2>4, <2>5, <2>6
<1> QED BY <1>5, <1>8, <1>10, <1>11, QuietMaster DEF ClientInv

\* A reclaim takes what the target's code and name find, and notes whose rows went along.
LEMMA ReclaimStep ==
    ASSUME ClientInv, NEW s \in Clients, Reclaim(s)
    PROVE  ClientInv'
<1> DEFINE t == master[s].to
           D == {d \in WithCode(t) : doc[d].name = master[t].name}
<1>1. ClientsTyped
  BY DEF ClientInv
<1>2. /\ s \in Rows /\ t \in Rows \ {s}
      /\ Rewrite(D, s) /\ happened' = happened
      /\ master' = [master EXCEPT ![s].st = "active", ![s].to = Nobody]
      /\ rows' = [c \in Clients |->
                   CASE c = s -> IF rows[s] = "lent" THEN "home" ELSE "mixed"
                     [] c \in (LentTo(t) \cup {t}) \ {s} -> "mixed"
                     [] OTHER -> rows[c]]
  BY <1>1 DEF Reclaim, ClientsTyped
<1>3. D \in SUBSET Docs /\ \A d \in D : doc[d].code = master[t].code
  BY DEF WithCode
<1>4. \A d \in Docs : doc[d].code = master[t].code /\ doc[d].name = master[t].name => d \in D
  BY DEF WithCode
<1> HIDE DEF t, D
<1>5. /\ s \in Clients /\ master[s] \in MasterRows /\ Rows \subseteq Clients
  BY <1>1, <1>2, RowFields
<1>6. /\ master'[s] \in MasterRows /\ master'[s].name = master[s].name /\ master'[s].code = master[s].code
      /\ master'[s].to = Nobody
      /\ \A c \in Clients \ {s} : master'[c] = master[c]
      /\ master' \in [Clients -> MasterRows \cup {NoClient}]
  BY <1>1, <1>2, <1>5 DEF ClientsTyped, MasterRows
<1>7. NamesStay
  BY <1>1, <1>2, <1>6, RowFields DEF NamesStay
<1>8. Rows' = Rows /\ Apart' = Apart /\ \A c \in Rows : Paper(c)' = Paper(c)
  BY <1>7, QuietMaster
<1>9. /\ Docs' = Docs /\ \A d \in Docs : doc'[d] \in Papers
      /\ \A d \in Docs : doc'[d] = IF d \in D /\ d[1] \in Moved THEN Paper(s) ELSE doc[d]
      /\ Anchored'
  BY <1>2, <1>3, <1>7, Rewritten
<1>10. /\ rows' \in [Clients -> {"home", "lent", "mixed"}]
       /\ rows'[s] # "lent" /\ (rows'[s] = "home" => rows[s] = "lent")
       /\ rows'[t] = "mixed"
       /\ \A c \in Clients \ {s, t} :
             /\ rows'[c] = "home" => rows[c] = "home"
             /\ rows'[c] = "lent" => rows[c] = "lent" /\ c \notin LentTo(t)
  <2>1. \A c \in Clients : rows[c] \in {"home", "lent", "mixed"}
    BY <1>1 DEF ClientsTyped
  <2>2. rows'[s] = IF rows[s] = "lent" THEN "home" ELSE "mixed"
    BY <1>2
  <2>3. \A c \in Clients \ {s} : rows'[c] = IF c \in LentTo(t) \cup {t} THEN "mixed" ELSE rows[c]
    BY <1>2
  <2>4. \A c \in Clients : rows'[c] \in {"home", "lent", "mixed"}
    BY <2>1, <2>2, <2>3
  <2> QED BY <1>2, <1>5, <2>1, <2>2, <2>3, <2>4
<1>11. ClientsTyped'
  <2>1. \A b \in Clients : rows'[b] = "lent" => b \in Rows /\ master'[b].to \in Rows \ {b}
    BY <1>1, <1>2, <1>6, <1>10 DEF ClientsTyped
  <2>2. \A b \in Rows : master'[b].to \in (Rows \ {b}) \cup {Nobody}
    BY <1>1, <1>2, <1>5, <1>6 DEF ClientsTyped
  <2> QED BY <1>1, <1>6, <1>8, <1>9, <1>10, <2>1, <2>2 DEF ClientsTyped
<1>12. OwnPaper'
  <2> SUFFICES ASSUME Apart, NEW d \in Docs
               PROVE  (/\ d[1] = "booking" => doc[d].name = master[d[2]].name
                       /\ d[1] = "sale" \/ (d[1] \in Moved /\ rows[d[2]] = "home") => doc[d] = Paper(d[2])
                       /\ d[1] \in Moved /\ rows[d[2]] = "lent"
                             => doc[d] \in {Paper(d[2]), Paper(master[d[2]].to)})'
    BY <1>8, <1>9 DEF OwnPaper
  <2>1. d[2] \in Rows /\ master'[d[2]].name = master[d[2]].name
    BY <1>1, <1>5, <1>6, RowFields
  <2>2. /\ d[1] = "booking" => doc[d].name = master[d[2]].name
        /\ d[1] = "sale" \/ (d[1] \in Moved /\ rows[d[2]] = "home") => doc[d] = Paper(d[2])
        /\ d[1] \in Moved /\ rows[d[2]] = "lent" => doc[d] \in {Paper(d[2]), Paper(master[d[2]].to)}
    BY DEF ClientInv, OwnPaper
  \* only a paper of the target is taken along
  <2>3. \A b \in Rows \ {t} : doc[d] = Paper(b) => doc'[d] = doc[d]
    <3>1. \A b \in Rows \ {t} : Paper(b).code # master[t].code
      BY <1>1, <1>2, RowFields DEF ClientInv, CodesApart
    <3> QED BY <1>3, <1>9, <3>1
  <2>4. CASE d[1] \notin Moved
    BY <1>8, <1>9, <2>1, <2>2, <2>4
  <2>5. CASE d[1] \in Moved /\ d[2] = s
    <3>1. rows'[s] = "home" => doc[d] \in {Paper(s), Paper(t)}
      BY <1>10, <2>2, <2>5 DEF t
    <3>2. doc[d] = Paper(t) => doc'[d] = Paper(s)
      BY <1>1, <1>2, <1>4, <1>9, <2>5, RowFields
    <3>3. doc[d] = Paper(s) => doc'[d] = Paper(s)
      BY <1>2, <2>3
    <3> QED BY <1>2, <1>8, <1>10, <2>5, <3>1, <3>2, <3>3 DEF Moved
  <2>6. CASE d[1] \in Moved /\ d[2] = t
    BY <1>10, <2>6 DEF Moved
  <2>7. CASE d[1] \in Moved /\ d[2] \notin {s, t}
    <3>1. /\ rows'[d[2]] = "home" => rows[d[2]] = "home"
          /\ rows'[d[2]] = "lent" => rows[d[2]] = "lent" /\ d[2] \notin LentTo(t)
          /\ master'[d[2]].to = master[d[2]].to
      BY <1>5, <1>6, <1>10, <2>1, <2>7
    <3>2. rows'[d[2]] = "home" => doc'[d] = Paper(d[2])'
      BY <1>8, <2>1, <2>2, <2>3, <2>7, <3>1
    <3>3. ASSUME rows'[d[2]] = "lent" PROVE doc'[d] \in {Paper(d[2])', Paper(master[d[2]].to)'}
      <4>1. PICK u \in Rows : u = master[d[2]].to
        BY <1>1, <1>5, <2>1, <3>1, <3>3 DEF ClientsTyped
      <4>2. u # t
        BY <2>1, <3>1, <3>3, <4>1 DEF LentTo
      <4>3. doc[d] \in {Paper(d[2]), Paper(u)}
        BY <2>2, <2>7, <3>1, <3>3, <4>1
      <4>4. doc'[d] = doc[d]
        BY <2>1, <2>3, <2>7, <4>2, <4>3
      <4>5. Paper(u)' = Paper(u) /\ Paper(d[2])' = Paper(d[2]) /\ master'[d[2]].to = u
        BY <1>8, <2>1, <3>1, <4>1
      <4> QED BY <4>3, <4>4, <4>5
    <3> QED BY <2>7, <3>2, <3>3 DEF Moved
  <2> QED BY <2>4, <2>5, <2>6, <2>7
<1> QED BY <1>7, <1>9, <1>11, <1>12, QuietMaster DEF ClientInv

\* The pending bill of a sale is written again from the sale's name, which is that of
\* some client.
LEMMA ResyncStep ==
    ASSUME ClientInv, NEW c \in Clients, Resync(c)
    PROVE  ClientInv'
<1> DEFINE S == <<"sale", c>>
           P == <<"pending", c>>
           n == doc[S].name
           b == ByInput(n)
<1>1. ClientsTyped
  BY DEF ClientInv
<1>2. S \in Docs /\ c \in Rows /\ P \in Docs
  BY <1>1, RowFields DEF Resync, ClientsTyped
<1>3. b \in Named(n)
  <2>1. \E a \in Rows : master[a].name = n
    BY <1>2 DEF ClientInv, Anchored, ByNameKinds
  <2> QED BY <2>1, LookUps DEF Named
<1>4. b \in Rows /\ master[b].name = n /\ b # Nobody
  BY <1>3 DEF Named, Rows, Clients, Nobody
<1>5. /\ doc' = [doc EXCEPT ![P] = Paper(b)] /\ UNCHANGED <<master, rows, happened>>
  BY <1>4 DEF Resync
<1>6. P[1] = "pending" /\ P[2] = c
  OBVIOUS
<1>7. Apart => b = c
  <2>1. Apart => n = master[c].name
    <3>1. S[1] = "sale" /\ S[2] = c
      OBVIOUS
    <3> QED BY <1>1, <1>2, <3>1, RowFields DEF ClientInv, OwnPaper
  <2> QED BY <1>2, <1>4, <2>1 DEF ClientInv, NamesApart
<1> HIDE DEF b, P, S, n
<1>8. Docs' = Docs /\ doc'[P] = Paper(b) /\ \A d \in Docs \ {P} : doc'[d] = doc[d]
  BY <1>2, <1>5 DEF Docs
<1>9. Rows' = Rows /\ Apart' = Apart /\ \A a : Paper(a)' = Paper(a)
  BY <1>5 DEF Rows, Apart, Paper
<1>10. ClientsTyped'
  BY <1>1, <1>4, <1>5, <1>8, <1>9, RowFields DEF ClientsTyped
<1>11. CodesApart' /\ NamesApart' /\ AllNamed'
  BY <1>5, <1>9 DEF ClientInv, CodesApart, NamesApart, AllNamed
<1>12. Anchored'
  BY <1>1, <1>4, <1>5, <1>6, <1>8, <1>9, RowFields DEF ClientInv, Anchored, ByNameKinds
<1>13. OwnPaper'
  BY <1>5, <1>6, <1>7, <1>8, <1>9 DEF ClientInv, OwnPaper
<1> QED BY <1>10, <1>11, <1>12, <1>13 DEF ClientInv

LEMMA ClientStep == ClientInv /\ [ClientNext]_clientVars => ClientInv'
<1> SUFFICES ASSUME ClientInv, [ClientNext]_clientVars PROVE ClientInv'
  OBVIOUS
<1>1. CASE UNCHANGED clientVars
  BY <1>1 DEF clientVars, ClientInv, ClientsTyped, CodesApart, NamesApart, AllNamed, Anchored, OwnPaper,
              Rows, Docs, Apart, Paper
<1>2. CASE ClientNext
  BY <1>2, PostStep, AddStep, EditStep, StateStep, TransferStep, ReclaimStep, ResyncStep DEF ClientNext
<1> QED BY <1>1, <1>2

\* The first clients have names and codes of their own, and no documents.
LEMMA ClientStart == ClientInit => ClientInv
<1> SUFFICES ASSUME ClientInit PROVE ClientInv
  OBVIOUS
<1>1. PICK n \in Injection(1..Opened, Names \ {Blank}), k \in Injection(1..Opened, Codes) :
          master = [c \in Clients |-> IF c <= Opened THEN Row(n[c], k[c]) ELSE NoClient]
  BY DEF ClientInit
<1>2. /\ doc = <<>> /\ rows = [c \in Clients |-> "home"] /\ happened = {}
  BY DEF ClientInit
<1>3. Opened \in 1..MaxClients /\ MaxClients \in Nat /\ Clients = 1..MaxClients
  BY ClientsAssumption DEF Clients
<1>4. /\ n \in [1..Opened -> Names \ {Blank}] /\ k \in [1..Opened -> Codes]
      /\ \A x, y \in 1..Opened : n[x] = n[y] => x = y
      /\ \A x, y \in 1..Opened : k[x] = k[y] => x = y
  BY DEF Injection, IsInjective
<1>5. \A c \in 1..Opened : /\ master[c] = Row(n[c], k[c]) /\ master[c] \in MasterRows
                           /\ master[c].name = n[c] /\ master[c].code = k[c] /\ master[c].to = Nobody
                           /\ master[c].st # "none"
  BY <1>1, <1>3, <1>4 DEF Row, MasterRows
<1>6. \A c \in Clients \ 1..Opened : master[c] = NoClient
  BY <1>1, <1>3
<1>7. Rows = 1..Opened
  BY <1>3, <1>5, <1>6 DEF Rows, NoClient
<1>8. Docs = {}
  BY <1>2 DEF Docs
<1>9. master \in [Clients -> MasterRows \cup {NoClient}]
  BY <1>1, <1>3, <1>5, <1>6
<1>10. ClientsTyped
  BY <1>2, <1>3, <1>5, <1>7, <1>8, <1>9 DEF ClientsTyped
<1>11. CodesApart /\ NamesApart /\ AllNamed
  BY <1>4, <1>5, <1>7 DEF CodesApart, NamesApart, AllNamed
<1>12. Anchored /\ OwnPaper
  BY <1>8 DEF Anchored, OwnPaper
<1> QED BY <1>10, <1>11, <1>12 DEF ClientInv

\* Every reachable state satisfies the invariant.
THEOREM ClientsHold == ClientSpec => []ClientInv
BY ClientStart, ClientStep, PTL DEF ClientSpec

\* A document keeps a client whatever is renamed or transferred, and its own unless the
\* named mishaps came about.
THEOREM HistoryKept == ClientSpec => []ClientsKeepHistory
<1>1. ASSUME ClientInv PROVE ClientsKeepHistory
  <2>1. ClientsTyped
    BY <1>1 DEF ClientInv
  <2>2. ASSUME "unnamed" \notin happened, NEW d \in Docs PROVE Resolved(d) # Nobody
    <3>1. d[1] \in Kinds /\ d[2] \in Rows /\ \A c \in Rows : master[c].name # Blank /\ c \in Clients
      BY <1>1, <2>1, <2>2, RowFields DEF ClientInv, AllNamed
    <3>2. ASSUME d[1] \in ByNameKinds PROVE ByName(doc[d].name) # Nobody
      <4>1. PICK c \in Rows : master[c].name = doc[d].name
        BY <1>1, <3>2 DEF ClientInv, Anchored
      <4>2. c \in Named(doc[d].name) /\ doc[d].name # Blank
        BY <3>1, <4>1 DEF Named
      <4> QED BY <4>2, LookUps
    <3>3. d[1] \in ByCodeKinds => ByCode(doc[d].code) # Nobody
      BY <1>1, <3>1, LookUps DEF ClientInv, Anchored, Coded
    <3>4. d[2] # Nobody
      BY <3>1 DEF Clients, Nobody
    <3> QED BY <3>1, <3>2, <3>3, <3>4 DEF Resolved, First, Kinds, ByNameKinds, ByCodeKinds
  <2>3. ASSUME happened \cap {"namesakes", "unnamed"} = {}, NEW d \in Docs,
               ~(d[1] \in Moved /\ rows[d[2]] # "home")
        PROVE  d \in Ledger(d[2])
    <3>1. d[1] \in Kinds /\ d[2] \in Rows /\ d[2] \in Clients
      BY <2>1, RowFields
    <3>2. Apart /\ \A c \in Rows : master[c].name # Blank
      BY <1>1, <2>3 DEF Apart, ClientInv, AllNamed
    <3>3. ByName(master[d[2]].name) = d[2]
      BY <1>1, <3>1, <3>2, LookUps DEF ClientInv, NamesApart, Named
    <3>4. ByCode(master[d[2]].code) = d[2]
      BY <1>1, <3>1, LookUps DEF ClientInv, CodesApart, Coded
    <3>5. d[1] # "payment" => doc[d].name = master[d[2]].name
      BY <1>1, <2>1, <2>3, <3>1, <3>2, RowFields DEF ClientInv, OwnPaper, Kinds, Moved
    <3>6. d[1] \notin {"payment", "booking"} => doc[d].code = master[d[2]].code
      BY <1>1, <2>1, <2>3, <3>1, <3>2, RowFields DEF ClientInv, OwnPaper, Kinds, Moved
    <3>7. d[2] # Nobody
      BY <3>1 DEF Clients, Nobody
    <3>8. Resolved(d) = d[2]
      BY <3>1, <3>3, <3>4, <3>5, <3>6, <3>7 DEF Resolved, First, Kinds
    <3> QED BY <3>7, <3>8 DEF Ledger
  <2> QED BY <2>2, <2>3 DEF ClientsKeepHistory, HistoryFollowsClient, NothingOrphaned, Unless
<1> QED BY <1>1, ClientsHold, PTL

\* The ledger of one client is made of the documents its line in the list is made of.
THEOREM ListsAgree == ClientSpec => []ListAgrees
<1>1. ASSUME ClientInv, Apart, NEW c \in Rows, NEW d \in Ledger(c) PROVE d \in Found(c)
  <2>1. ClientsTyped
    BY <1>1 DEF ClientInv
  <2>2. /\ d \in Docs /\ Resolved(d) # Nobody /\ master[Resolved(d)].name = master[c].name
        /\ d[1] \in Kinds
    BY <2>1, RowFields DEF Ledger
  <2> DEFINE n == doc[d].name
             k == doc[d].code
  <2>3. CASE d[1] = "payment"
    BY <2>2, <2>3 DEF Resolved, Found
  <2>4. CASE Resolved(d) = ByName(n)
    <3>1. ByName(n) \in Named(n) /\ n # Blank
      BY <2>2, <2>4, LookUps
    <3> QED BY <2>2, <2>4, <3>1 DEF Named, Found
  <2>5. CASE Resolved(d) = ByCode(k) /\ d[1] \in {"sale", "pending", "waive", "cancel"}
    <3>1. ByCode(k) \in Coded(k)
      BY <2>2, <2>5, LookUps
    <3>2. ByCode(k) = c
      BY <1>1, <2>2, <2>5, <3>1 DEF Coded, ClientInv, NamesApart
    <3> QED BY <2>2, <2>5, <3>1, <3>2 DEF Coded, Found
  <2> QED BY <2>2, <2>3, <2>4, <2>5 DEF Resolved, First, Kinds
<1>2. ClientInv => ListAgrees
  BY <1>1 DEF ListAgrees, LedgerOfOne, Unless, Apart
<1> QED BY <1>2, ClientsHold, PTL

------------------------------------------------------------------------------
(* Closings of an account, and its locked days.                               *)

Slips == [kind : {"payment", "entry"}, at : Instants, net : Int, live : BOOLEAN] \cup {NoPosting}
Figures == [day : Days, end : Instants, expected : Int, final : Int, difference : Int,
            later : Int, sealed : Int]
Readings == [day : Days, expected : Int, was : Int \cup {Uncounted}, counted : Int]
Totals == Int \cup {Uncounted}

PostingsTyped ==
    /\ clock \in Instants /\ posting \in [Postings -> Slips]
    /\ stored \in [balance : Int, rev : Nat \ {0}]

\* A closing is dated in its day and not later than now.
Dated(c) == c \in Figures /\ DayOf(c.end) = c.day /\ c.end <= clock
ClosingsTyped == closing \in Seq(Figures) /\ \A i \in DOMAIN closing : Dated(closing[i])

BoardTyped ==
    /\ position \in [Days -> [counted : Totals, expected : Totals, locked : BOOLEAN]]
    /\ dayLock \in [Days -> Totals]
    /\ \A day \in Days : position[day].locked => position[day].counted \in Int

\* What a request means to write: a payment made or edited by one that loaded the
\* account, or a void or a restoration by one that did not.
Making(c) == c.was = NoPosting /\ c.new.kind = "payment" /\ c.new.live /\ c.new.net # 0
Editing(c) == /\ c.was.kind = "payment" /\ c.was.live /\ c.new # c.was
              /\ c.new = [c.was EXCEPT !.at = c.new.at, !.net = c.new.net]
Turning(c) == c.was.kind = "payment" /\ c.new = [c.was EXCEPT !.live = ~c.was.live]

PaymentTyped(c) ==
    /\ c.e \in Postings /\ c.was \in Slips /\ c.new \in Slips
    /\ c.rev = 0 => Turning(c)
    /\ c.rev # 0 => Making(c) \/ Editing(c)
CallTyped(c) ==
    /\ c.rev \in Nat /\ c.rev <= stored.rev
    /\ c.step \in {"idle", "payment", "closing", "locking"}
    /\ c.step = "payment" => PaymentTyped(c)
    /\ c.step = "closing" => c.rev # 0 /\ Dated(c.figures)
                             /\ c.figures.difference = c.figures.final - c.figures.expected
    /\ c.step = "locking" => c.figures \in Readings
CallsTyped == DOMAIN call = Actors /\ \A a \in Actors : CallTyped(call[a])
ClosingTyped == PostingsTyped /\ ClosingsTyped /\ BoardTyped /\ CallsTyped

\* The stored balance is what all postings and adjustments add up to.
BalanceIs == stored.balance = Opening + TransactionSum(0, LastInstant)

\* A payment that loaded the account before a closing with an adjustment was written
\* comes too late for its version.
DateChecked(c) == IF c.was = NoPosting THEN c.new.at ELSE c.was.at
GuardedCall(c) ==
    c.step = "payment" /\ c.rev # 0
        => c.rev < stored.rev \/ ~Closed(DateChecked(c)) \/ Latest.difference = 0
Guarded == \A a \in Actors : GuardedCall(call[a])

\* The figures of a closing hang together: what was counted is the opening balance,
\* the closed period with its adjustment, and what was posted after it.
ChainedCall(c) ==
    c.step = "closing" => c.figures.final = Opening + c.figures.sealed + c.figures.later
ExpectsCall(c) ==
    c.step = "closing" /\ c.rev = stored.rev => c.figures.expected = stored.balance
Chain == /\ closing # <<>> => Latest.final = Opening + Latest.sealed
         /\ \A a \in Actors : ChainedCall(call[a])
Chained == Except(Leaks \cup {"later movements"}, Chain)

ClosingInv == /\ ClosingTyped /\ BalanceIs /\ Guarded /\ Chained
              /\ ClosedPeriodKept /\ ExpectedIsBalance /\ BoardFrozen

------------------------------------------------------------------------------
(* Days and instants.                                                         *)

\* A day holds the instants after the end of the day before, through its own end.
LEMMA DayFacts ==
    /\ \A t \in Nat \ {0} : /\ DayOf(t) \in Nat /\ DayOf(t) * DayLength < t /\ t <= EndOfDay(DayOf(t))
    /\ \A day \in Nat : /\ EndOfDay(day) \in Nat \ {0} /\ DayOf(EndOfDay(day)) = day
                        /\ day * DayLength \in Nat /\ day * DayLength < EndOfDay(day)
    /\ \A p, q \in Nat : p < q => EndOfDay(p) <= q * DayLength
<1> DEFINE D == DayLength
<1>0. D \in Nat /\ D > 0
  BY ClosingAssumption
<1> HIDE DEF D
<1>1. ASSUME NEW s \in Nat PROVE (s \div D) \in Nat /\ (s \div D) * D <= s /\ s < ((s \div D) + 1) * D
  BY <1>0, SMT
<1>2. ASSUME NEW p \in Nat, NEW q \in Nat, p < q PROVE (p + 1) * D <= q * D
  BY <1>0, <1>2, SMT
<1>3. ASSUME NEW p \in Nat
      PROVE ((p + 1) * D - 1) \div D = p /\ (p + 1) * D \in Nat \ {0} /\ p * D \in Nat /\ p * D < (p + 1) * D
  BY <1>0, SMT
<1>4. ASSUME NEW t \in Nat \ {0}
      PROVE  DayOf(t) \in Nat /\ DayOf(t) * D < t /\ t <= EndOfDay(DayOf(t))
  <2>1. t - 1 \in Nat
    OBVIOUS
  <2> DEFINE q == (t - 1) \div D
  <2>2. q \in Nat /\ q * D <= t - 1 /\ t - 1 < (q + 1) * D
    BY <1>1, <2>1
  <2>3. q * D \in Nat /\ (q + 1) * D \in Nat
    BY <1>3, <2>2
  <2> HIDE DEF q
  <2>4. q * D < t /\ t <= (q + 1) * D
    BY <2>2, <2>3
  <2> QED BY <2>2, <2>4 DEF DayOf, EndOfDay, q, D
<1> QED BY <1>2, <1>3, <1>4 DEF DayOf, EndOfDay, D

\* Days follow their instants, and lie within the bound.
LEMMA DaysInOrder ==
    /\ \A s, t \in Nat \ {0} : s <= t => DayOf(s) <= DayOf(t)
    /\ Days \subseteq Nat /\ \A t \in Instants : DayOf(t) \in Days /\ t \in Nat \ {0} /\ t <= LastInstant
    /\ \A t \in Nat \ {0}, day \in Nat : day < DayOf(t) => EndOfDay(day) < t
<1>1. ASSUME NEW t \in Nat \ {0}, NEW day \in Nat, day < DayOf(t) PROVE EndOfDay(day) < t
  <2>1. EndOfDay(day) <= DayOf(t) * DayLength /\ DayOf(t) * DayLength < t
        /\ EndOfDay(day) \in Nat /\ DayOf(t) * DayLength \in Nat
    BY <1>1, DayFacts
  <2> QED BY <2>1
<1>2. ASSUME NEW s \in Nat \ {0}, NEW t \in Nat \ {0}, s <= t PROVE DayOf(s) <= DayOf(t)
  <2>1. SUFFICES ASSUME DayOf(t) < DayOf(s) PROVE FALSE
    BY DayFacts
  <2>2. EndOfDay(DayOf(t)) < s /\ t <= EndOfDay(DayOf(t)) /\ EndOfDay(DayOf(t)) \in Nat
    BY <1>1, <2>1, DayFacts
  <2> QED BY <1>2, <2>2
<1>3. Instants \subseteq Nat \ {0} /\ \A t \in Instants : t <= LastInstant
  BY ClosingAssumption DEF Instants
<1>4. Days \subseteq Nat /\ \A t \in Instants : DayOf(t) \in Days
  BY <1>3, DayFacts DEF Days
<1> QED BY <1>1, <1>2, <1>3, <1>4

------------------------------------------------------------------------------
(* Sums of postings and of adjustments.                                       *)

PostedIn(p, from, to) == SumFunctionOnSet([e \in Postings |-> Within(p[e], from, to)], Postings)
AdjustedIn(q, after, through) ==
    SumFunctionOnSet([i \in DOMAIN q |-> Adjustment(q[i], after, through)], DOMAIN q)

\* A slip counts as a whole or not at all, and one that does not exist counts nothing.
LEMMA SlipCounts ==
    ASSUME NEW p \in Slips, NEW x \in Int, NEW y \in Int
    PROVE  /\ p.at \in Nat /\ p.net \in Int /\ p.live \in BOOLEAN /\ Worth(p) \in Int
           /\ Within(p, x, y) \in Int
           /\ p = NoPosting => Worth(p) = 0 /\ Within(p, x, y) = 0
           /\ p # NoPosting => p.at \in Instants /\ p.kind # "none"
           /\ y < p.at => Within(p, x, y) = 0
           /\ \A z \in Int : x <= y + 1 /\ y <= z => Within(p, x, z) = Within(p, x, y) + Within(p, y + 1, z)
<1>1. CASE p = NoPosting
  <2>1. p.at = 0 /\ p.net = 0 /\ p.live = FALSE
    BY <1>1 DEF NoPosting
  <2>2. Worth(p) = 0
    BY <2>1 DEF Worth
  <2>3. \A a, b \in Int : Within(p, a, b) = 0
    BY <2>2 DEF Within
  <2>4. y + 1 \in Int
    OBVIOUS
  <2>5. p.at \in Nat /\ p.net \in Int /\ p.live \in BOOLEAN /\ Worth(p) \in Int /\ Within(p, x, y) \in Int
    <3>1. p.live \in BOOLEAN
      BY <2>1
    <3>2. 0 \in Nat /\ 0 \in Int
      OBVIOUS
    <3>3. Within(p, x, y) = 0
      BY <2>3
    <3>4. p.at \in Nat /\ p.net \in Int /\ Worth(p) \in Int /\ Within(p, x, y) \in Int
      BY <2>1, <2>2, <3>2, <3>3, Zenon
    <3> QED BY <3>1, <3>4
  <2>6. ASSUME NEW z \in Int PROVE Within(p, x, z) = Within(p, x, y) + Within(p, y + 1, z)
    <3>1. Within(p, x, z) = 0 /\ Within(p, x, y) = 0 /\ Within(p, y + 1, z) = 0
      BY <2>3, <2>4
    <3> QED BY <3>1
  <2> QED BY <1>1, <2>2, <2>3, <2>5, <2>6
<1>2. CASE p # NoPosting
  <2>1. p \in [kind : {"payment", "entry"}, at : Instants, net : Int, live : BOOLEAN]
    BY <1>2 DEF Slips
  <2>2. p.at \in Instants /\ p.at \in Nat /\ p.net \in Int /\ p.live \in BOOLEAN /\ p.kind # "none"
    BY <2>1, DaysInOrder
  <2>3. Worth(p) \in Int
    BY <2>2 DEF Worth
  <2> HIDE DEF Worth
  <2> QED BY <1>2, <2>2, <2>3 DEF Within
<1> QED BY <1>1, <1>2

LEMMA PostedType ==
    ASSUME NEW p \in [Postings -> Slips], NEW x \in Int, NEW y \in Int
    PROVE  PostedIn(p, x, y) \in Int
<1> DEFINE f == [e \in Postings |-> Within(p[e], x, y)]
<1>1. \A e \in Postings : f[e] \in Int
  BY SlipCounts
<1> HIDE DEF f
<1>2. SumFunctionOnSet(f, Postings) \in Int
  BY <1>1, SumType, ClosingAssumption
<1> QED BY <1>2 DEF PostedIn, f

\* A period is the sum of its parts.
LEMMA PostedSplit ==
    ASSUME NEW p \in [Postings -> Slips], NEW x \in Int, NEW y \in Int, NEW z \in Int, x <= y + 1, y <= z
    PROVE  PostedIn(p, x, z) = PostedIn(p, x, y) + PostedIn(p, y + 1, z)
<1> DEFINE f == [e \in Postings |-> Within(p[e], x, z)]
           g == [e \in Postings |-> Within(p[e], x, y)]
           h == [e \in Postings |-> Within(p[e], y + 1, z)]
<1>1. \A e \in Postings : g[e] \in Int /\ h[e] \in Int /\ f[e] = g[e] + h[e]
  BY SlipCounts
<1> HIDE DEF f, g, h
<1>2. SumFunctionOnSet(f, Postings) = SumFunctionOnSet(g, Postings) + SumFunctionOnSet(h, Postings)
  BY <1>1, SumPlus, ClosingAssumption
<1> QED BY <1>2 DEF PostedIn, f, g, h

\* One slip replaced by another moves the sum by the difference of the two.
LEMMA PostedMoves ==
    ASSUME NEW p \in [Postings -> Slips], NEW q \in [Postings -> Slips], NEW d \in Postings,
           \A e \in Postings \ {d} : q[e] = p[e], NEW x \in Int, NEW y \in Int
    PROVE  PostedIn(q, x, y) = PostedIn(p, x, y) + Within(q[d], x, y) - Within(p[d], x, y)
<1> DEFINE f == [e \in Postings |-> Within(p[e], x, y)]
           h == [e \in Postings |-> Within(q[e], x, y)]
<1>1. /\ \A e \in Postings : f[e] \in Int /\ h[e] \in Int
      /\ \A e \in Postings \ {d} : h[e] = f[e]
      /\ h[d] = Within(q[d], x, y) /\ f[d] = Within(p[d], x, y)
  BY SlipCounts
<1> HIDE DEF f, h
<1>2. SumFunctionOnSet(h, Postings) = SumFunctionOnSet(f, Postings) + h[d] - f[d]
  BY <1>1, SumChange, ClosingAssumption
<1> QED BY <1>1, <1>2 DEF PostedIn, f, h

LEMMA FiguresAre ==
    ASSUME NEW c \in Figures
    PROVE  /\ c.end \in Nat \ {0} /\ c.end \in Int /\ c.end <= LastInstant
           /\ c.difference \in Int /\ c.sealed \in Int /\ c.final \in Int /\ c.expected \in Int
           /\ c.later \in Int /\ c.day \in Nat /\ c.day \in Days
<1>1. c.end \in Instants /\ c.day \in Days /\ c.difference \in Int /\ c.sealed \in Int /\ c.final \in Int
      /\ c.expected \in Int /\ c.later \in Int
  BY DEF Figures
<1>2. c.end \in Nat \ {0} /\ c.end <= LastInstant /\ c.day \in Nat
  BY <1>1, DaysInOrder
<1> QED BY <1>1, <1>2

LEMMA AdjustmentCounts ==
    ASSUME NEW c \in Figures, NEW x \in Int, NEW y \in Int
    PROVE  /\ Adjustment(c, x, y) \in Int
           /\ \A z \in Int : x <= y /\ y <= z => Adjustment(c, x, z) = Adjustment(c, x, y) + Adjustment(c, y, z)
<1>1. c.end \in Int /\ c.difference \in Int
  BY FiguresAre
<1> QED BY <1>1 DEF Adjustment

LEMMA SeqFinite ==
    ASSUME NEW q \in Seq(Figures)
    PROVE  Len(q) \in Nat /\ DOMAIN q = 1..Len(q) /\ IsFiniteSet(DOMAIN q) /\ \A i \in DOMAIN q : q[i] \in Figures
<1>1. Len(q) \in Nat /\ DOMAIN q = 1..Len(q) /\ \A i \in DOMAIN q : q[i] \in Figures
  OBVIOUS
<1>2. IsFiniteSet(1..Len(q))
  BY <1>1, FS_Interval
<1> QED BY <1>1, <1>2

LEMMA AdjustedType ==
    ASSUME NEW q \in Seq(Figures), NEW x \in Int, NEW y \in Int
    PROVE  AdjustedIn(q, x, y) \in Int
<1> DEFINE f == [i \in DOMAIN q |-> Adjustment(q[i], x, y)]
<1>1. \A i \in DOMAIN q : f[i] \in Int
  BY SeqFinite, FiguresAre, AdjustmentCounts
<1> HIDE DEF f
<1>2. SumFunctionOnSet(f, DOMAIN q) \in Int
  BY <1>1, SumType, SeqFinite
<1> QED BY <1>2 DEF AdjustedIn, f

LEMMA AdjustedSplit ==
    ASSUME NEW q \in Seq(Figures), NEW x \in Int, NEW y \in Int, NEW z \in Int, x <= y, y <= z
    PROVE  AdjustedIn(q, x, z) = AdjustedIn(q, x, y) + AdjustedIn(q, y, z)
<1> DEFINE f == [i \in DOMAIN q |-> Adjustment(q[i], x, z)]
           g == [i \in DOMAIN q |-> Adjustment(q[i], x, y)]
           h == [i \in DOMAIN q |-> Adjustment(q[i], y, z)]
<1>1. \A i \in DOMAIN q : g[i] \in Int /\ h[i] \in Int /\ f[i] = g[i] + h[i]
  BY SeqFinite, FiguresAre, AdjustmentCounts
<1> HIDE DEF f, g, h
<1>2. SumFunctionOnSet(f, DOMAIN q) = SumFunctionOnSet(g, DOMAIN q) + SumFunctionOnSet(h, DOMAIN q)
  BY <1>1, SumPlus, SeqFinite
<1> QED BY <1>2 DEF AdjustedIn, f, g, h

\* A closing adds its adjustment to the periods that hold its end.
LEMMA AdjustedAppend ==
    ASSUME NEW q \in Seq(Figures), NEW c \in Figures, NEW x \in Int, NEW y \in Int
    PROVE  AdjustedIn(Append(q, c), x, y) = AdjustedIn(q, x, y) + Adjustment(c, x, y)
<1> DEFINE r == Append(q, c)
           n == Len(q) + 1
           f == [i \in DOMAIN r |-> Adjustment(r[i], x, y)]
           g == [i \in DOMAIN q |-> Adjustment(q[i], x, y)]
<1>1. r \in Seq(Figures) /\ DOMAIN r = 1..n /\ n \in Nat /\ r[n] = c /\ n \in DOMAIN r
      /\ DOMAIN q = 1..(n - 1) /\ \A i \in DOMAIN q : r[i] = q[i]
  BY SeqFinite
<1> HIDE DEF r, n
<1>2. DOMAIN r \ {n} = DOMAIN q /\ DOMAIN q \subseteq DOMAIN r
  BY <1>1
<1>3. \A i \in DOMAIN r : f[i] \in Int
  BY <1>1, SeqFinite, FiguresAre, AdjustmentCounts
<1>4. \A i \in DOMAIN q : g[i] \in Int /\ f[i] = g[i]
  BY <1>1, <1>2, SeqFinite, FiguresAre, AdjustmentCounts
<1>5. f[n] = Adjustment(c, x, y)
  BY <1>1
<1> HIDE DEF f, g
<1>6. SumFunctionOnSet(f, DOMAIN r) = f[n] + SumFunctionOnSet(f, DOMAIN r \ {n})
  BY <1>1, <1>3, SumRemove, SeqFinite
<1>7. SumFunctionOnSet(f, DOMAIN q) = SumFunctionOnSet(g, DOMAIN q)
  BY <1>4, SumSame, SeqFinite
<1>8. AdjustedIn(q, x, y) \in Int /\ Adjustment(c, x, y) \in Int
  BY AdjustedType, FiguresAre, AdjustmentCounts
<1>9. AdjustedIn(r, x, y) = SumFunctionOnSet(f, DOMAIN r) /\ AdjustedIn(q, x, y) = SumFunctionOnSet(g, DOMAIN q)
  BY DEF AdjustedIn, f, g
<1> QED BY <1>2, <1>5, <1>6, <1>7, <1>8, <1>9 DEF r

------------------------------------------------------------------------------
(* The latest closing.                                                        *)

After(q, i, j) == q[j].day < q[i].day \/ (q[j].day = q[i].day /\ j <= i)
IsLatest(q, i) == i \in DOMAIN q /\ \A j \in DOMAIN q : After(q, i, j)
LatestOf(q) == q[CHOOSE i \in DOMAIN q : \A j \in DOMAIN q : After(q, i, j)]

\* There is a latest one, and only one.
LEMMA OneLatest ==
    ASSUME NEW q \in Seq(Figures), q # <<>>
    PROVE  /\ \E i : IsLatest(q, i)
           /\ \A i : IsLatest(q, i) => LatestOf(q) = q[i]
<1> DEFINE M == DayOf(LastInstant)
           n == Len(q)
           A == {m \in Nat : \E i \in DOMAIN q : m = M - q[i].day}
<1>1. n \in Nat \ {0} /\ DOMAIN q = 1..n
  BY SeqFinite, EmptySeq
<1>2. M \in Nat /\ \A i \in DOMAIN q : q[i].day \in Nat /\ q[i].day <= M
  <2>1. \A i \in DOMAIN q : q[i].day \in Days
    BY SeqFinite DEF Figures
  <2>2. \A day \in Days : day <= M
    BY DaysInOrder, ClosingAssumption DEF Days
  <2> QED BY <2>1, <2>2, DaysInOrder, DayFacts, ClosingAssumption
<1>3. A \in SUBSET Nat /\ A # {}
  <2>1. M - q[1].day \in A
    BY <1>1, <1>2
  <2> QED BY <2>1
<1>4. PICK m \in A : \A k \in A : m <= k
  BY <1>3, LeastNumber
<1>5. PICK d \in DOMAIN q : m = M - q[d].day
  OBVIOUS
<1>6. ASSUME NEW i \in DOMAIN q PROVE q[i].day <= q[d].day
  <2>1. M - q[i].day \in A
    BY <1>2
  <2>2. m <= M - q[i].day
    BY <1>4, <2>1
  <2> DEFINE u == q[i].day
             v == q[d].day
  <2>3. u \in Nat /\ v \in Nat /\ M \in Nat /\ m = M - v /\ m <= M - u
    BY <1>2, <1>5, <2>2
  <2> HIDE DEF u, v, M, A
  <2>4. u <= v
    BY <2>3
  <2> QED BY <2>4 DEF u, v
<1> DEFINE B == {k \in Nat : \E i \in DOMAIN q : q[i].day = q[d].day /\ k = n - i}
<1>7. n - d \in B
  BY <1>1, <1>5
<1>8. PICK b \in B : \A k \in B : b <= k
  BY <1>7, LeastNumber
<1>9. PICK x \in DOMAIN q : q[x].day = q[d].day /\ b = n - x
  OBVIOUS
<1>10. ASSUME NEW i \in DOMAIN q, q[i].day = q[d].day PROVE i <= x
  <2>1. n - i \in B /\ n \in Nat /\ i \in Nat /\ x \in Nat
    BY <1>1, <1>10
  <2>2. b <= n - i /\ b = n - x
    BY <1>8, <1>9, <2>1
  <2> HIDE DEF n
  <2> QED BY <2>1, <2>2
<1> HIDE DEF A, B, M, n
<1>11. IsLatest(q, x)
  <2>1. \A i \in DOMAIN q : After(q, x, i)
    BY <1>2, <1>6, <1>9, <1>10 DEF After
  <2> QED BY <1>9, <2>1 DEF IsLatest
<1>12. ASSUME NEW i, IsLatest(q, i) PROVE LatestOf(q) = q[i]
  <2> DEFINE k == CHOOSE z \in DOMAIN q : \A j \in DOMAIN q : After(q, z, j)
  <2>1. k \in DOMAIN q /\ \A j \in DOMAIN q : After(q, k, j)
    BY <1>12 DEF IsLatest
  <2> HIDE DEF k
  <2>2. After(q, k, i) /\ After(q, i, k) /\ i \in DOMAIN q
    BY <1>12, <2>1 DEF IsLatest
  <2>3. k = i
    BY <1>1, <1>2, <2>1, <2>2 DEF After
  <2> QED BY <2>3 DEF LatestOf, k
<1> QED BY <1>11, <1>12

LEMMA LatestTyped ==
    ASSUME NEW q \in Seq(Figures), q # <<>>
    PROVE  /\ \E i \in DOMAIN q : LatestOf(q) = q[i]
           /\ LatestOf(q) \in Figures
           /\ \A j \in DOMAIN q : q[j].day <= LatestOf(q).day
<1>1. PICK i : IsLatest(q, i) /\ LatestOf(q) = q[i]
  BY OneLatest
<1>2. i \in DOMAIN q /\ \A j \in DOMAIN q : After(q, i, j)
  BY <1>1 DEF IsLatest
<1>3. \A j \in DOMAIN q : q[j] \in Figures /\ q[j].day \in Nat
  BY SeqFinite, FiguresAre, AdjustmentCounts
<1> QED BY <1>1, <1>2, <1>3 DEF After

\* A closing of the same day or a later one becomes the latest.
LEMMA LatestAppended ==
    ASSUME NEW q \in Seq(Figures), NEW c \in Figures
    PROVE  /\ Append(q, c) \in Seq(Figures) /\ Append(q, c) # <<>>
           /\ q = <<>> \/ LatestOf(q).day <= c.day => LatestOf(Append(q, c)) = c
           /\ q # <<>> /\ c.day < LatestOf(q).day => LatestOf(Append(q, c)) = LatestOf(q)
<1> DEFINE r == Append(q, c)
           n == Len(q) + 1
<1>1. r \in Seq(Figures) /\ DOMAIN r = 1..n /\ n \in Nat /\ r[n] = c /\ n \in DOMAIN r /\ r # <<>>
      /\ DOMAIN q = 1..(n - 1) /\ \A i \in DOMAIN q : r[i] = q[i]
  BY SeqFinite, EmptySeq
<1> HIDE DEF r, n
<1>2. \A i \in DOMAIN q : q[i].day \in Nat /\ i \in DOMAIN r /\ i < n
  BY <1>1, SeqFinite, FiguresAre, AdjustmentCounts
<1>3. c.day \in Nat /\ \A i \in DOMAIN r : i \in DOMAIN q \/ i = n
  BY <1>1, FiguresAre, AdjustmentCounts
<1>4. ASSUME q = <<>> \/ LatestOf(q).day <= c.day PROVE LatestOf(r) = c
  <2>1. \A j \in DOMAIN q : q[j].day <= c.day
    <3>1. CASE q = <<>>
      BY <3>1
    <3>2. CASE q # <<>>
      BY <1>2, <1>3, <1>4, <3>2, LatestTyped, FiguresAre, AdjustmentCounts
    <3> QED BY <3>1, <3>2
  <2>2. \A j \in DOMAIN r : After(r, n, j)
    BY <1>1, <1>2, <1>3, <2>1 DEF After
  <2> QED BY <1>1, <2>2, OneLatest DEF IsLatest
<1>5. ASSUME q # <<>>, c.day < LatestOf(q).day PROVE LatestOf(r) = LatestOf(q)
  <2>1. PICK i : IsLatest(q, i) /\ LatestOf(q) = q[i]
    BY <1>5, OneLatest
  <2>2. i \in DOMAIN q /\ \A j \in DOMAIN q : After(q, i, j)
    BY <2>1 DEF IsLatest
  <2>3. \A j \in DOMAIN r : After(r, i, j)
    BY <1>1, <1>2, <1>3, <1>5, <2>1, <2>2 DEF After
  <2>4. LatestOf(r) = r[i]
    BY <1>1, <1>2, <2>2, <2>3, OneLatest DEF IsLatest
  <2> QED BY <1>1, <2>1, <2>2, <2>4
<1> QED BY <1>1, <1>4, <1>5 DEF r
------------------------------------------------------------------------------
(* Sums of both, over the closed period and over all instants.                *)

SumOf(p, q, after, through) == PostedIn(p, after + 1, through) + AdjustedIn(q, after, through)

LEMMA SumOfType ==
    ASSUME NEW p \in [Postings -> Slips], NEW q \in Seq(Figures), NEW x \in Int, NEW y \in Int
    PROVE  SumOf(p, q, x, y) \in Int
<1>1. PostedIn(p, x + 1, y) \in Int /\ AdjustedIn(q, x, y) \in Int
  BY PostedType, AdjustedType
<1> QED BY <1>1 DEF SumOf

\* What came after one instant comes before another or after it.
LEMMA SumOfSplit ==
    ASSUME NEW p \in [Postings -> Slips], NEW q \in Seq(Figures),
           NEW x \in Int, NEW y \in Int, NEW z \in Int, x <= y, y <= z
    PROVE  SumOf(p, q, x, z) = SumOf(p, q, x, y) + SumOf(p, q, y, z)
<1> DEFINE x1 == x + 1
<1>1. x1 \in Int /\ x1 <= y + 1
  OBVIOUS
<1> HIDE DEF x1
<1>2. PostedIn(p, x1, z) = PostedIn(p, x1, y) + PostedIn(p, y + 1, z)
  BY <1>1, PostedSplit
<1>3. AdjustedIn(q, x, z) = AdjustedIn(q, x, y) + AdjustedIn(q, y, z)
  BY AdjustedSplit
<1>4. PostedIn(p, x1, y) \in Int /\ PostedIn(p, y + 1, z) \in Int
      /\ AdjustedIn(q, x, y) \in Int /\ AdjustedIn(q, y, z) \in Int
  BY <1>1, PostedType, AdjustedType
<1>5. SumOf(p, q, x, z) = PostedIn(p, x1, z) + AdjustedIn(q, x, z)
      /\ SumOf(p, q, x, y) = PostedIn(p, x1, y) + AdjustedIn(q, x, y)
      /\ SumOf(p, q, y, z) = PostedIn(p, y + 1, z) + AdjustedIn(q, y, z)
  BY DEF SumOf, x1
<1> QED BY <1>2, <1>3, <1>4, <1>5

\* One slip replaced moves the sum by what the two count in the period: over all
\* instants by what the two are worth, up to an instant before both by nothing.
LEMMA SumOfMoves ==
    ASSUME NEW p \in [Postings -> Slips], NEW q \in Seq(Figures), NEW d \in Postings,
           NEW p2 \in [Postings -> Slips], \A e \in Postings \ {d} : p2[e] = p[e]
    PROVE  /\ SumOf(p2, q, 0, LastInstant) = SumOf(p, q, 0, LastInstant) + Worth(p2[d]) - Worth(p[d])
           /\ \A y \in Int : Within(p2[d], 1, y) = Within(p[d], 1, y) => SumOf(p2, q, 0, y) = SumOf(p, q, 0, y)
           /\ \A x, y, z \in Int : z < y /\ (p2[d].at = 0 \/ y <= p2[d].at) /\ (p[d].at = 0 \/ y <= p[d].at)
                 => PostedIn(p2, x, z) = PostedIn(p, x, z)
<1>1. p2[d] \in Slips
  OBVIOUS
<1>2. p[d] \in Slips
  OBVIOUS
<1>3. ASSUME NEW x \in Int, NEW z \in Int
      PROVE  /\ PostedIn(p2, x, z) = PostedIn(p, x, z) + Within(p2[d], x, z) - Within(p[d], x, z)
             /\ PostedIn(p, x, z) \in Int /\ Within(p2[d], x, z) \in Int /\ Within(p[d], x, z) \in Int
  <2>1. PostedIn(p2, x, z) = PostedIn(p, x, z) + Within(p2[d], x, z) - Within(p[d], x, z)
    BY PostedMoves
  <2> QED BY <1>1, <1>2, <2>1, PostedType, SlipCounts
<1>4. ASSUME NEW z \in Int
      PROVE  /\ SumOf(p2, q, 0, z) = SumOf(p, q, 0, z) + Within(p2[d], 1, z) - Within(p[d], 1, z)
             /\ SumOf(p, q, 0, z) \in Int /\ Within(p2[d], 1, z) \in Int /\ Within(p[d], 1, z) \in Int
  <2>1. SumOf(p2, q, 0, z) = PostedIn(p2, 1, z) + AdjustedIn(q, 0, z)
        /\ SumOf(p, q, 0, z) = PostedIn(p, 1, z) + AdjustedIn(q, 0, z)
    <3>1. 0 + 1 = 1
      OBVIOUS
    <3> QED BY <3>1 DEF SumOf
  <2>2. AdjustedIn(q, 0, z) \in Int /\ PostedIn(p, 1, z) \in Int
    BY AdjustedType, PostedType
  <2> DEFINE pa == PostedIn(p2, 1, z)
             pb == PostedIn(p, 1, z)
             ad == AdjustedIn(q, 0, z)
             wa == Within(p2[d], 1, z)
             wb == Within(p[d], 1, z)
  <2>3. pa = pb + wa - wb /\ pb \in Int /\ wa \in Int /\ wb \in Int /\ ad \in Int
    BY <1>3, <2>2
  <2>4. SumOf(p2, q, 0, z) = pa + ad /\ SumOf(p, q, 0, z) = pb + ad
    BY <2>1
  <2> HIDE DEF pa, pb, ad, wa, wb
  <2>5. SumOf(p2, q, 0, z) = SumOf(p, q, 0, z) + wa - wb /\ SumOf(p, q, 0, z) \in Int
    BY <2>3, <2>4
  <2> QED BY <2>3, <2>5 DEF wa, wb
<1>5. ASSUME NEW s \in Slips PROVE Within(s, 1, LastInstant) = Worth(s)
  <2>1. CASE s = NoPosting
    BY <2>1, SlipCounts, ClosingAssumption
  <2>2. CASE s # NoPosting
    <3>1. s.at \in Instants
      BY <2>2, SlipCounts
    <3>2. 1 <= s.at /\ s.at <= LastInstant
      BY <3>1, ClosingAssumption DEF Instants
    <3> QED BY <3>2 DEF Within
  <2> QED BY <2>1, <2>2
<1>6. SumOf(p2, q, 0, LastInstant) = SumOf(p, q, 0, LastInstant) + Worth(p2[d]) - Worth(p[d])
  <2>1. LastInstant \in Int
    BY ClosingAssumption
  <2>2. Within(p2[d], 1, LastInstant) = Worth(p2[d]) /\ Within(p[d], 1, LastInstant) = Worth(p[d])
    BY <1>2, <1>5
  <2>3. SumOf(p2, q, 0, LastInstant)
          = SumOf(p, q, 0, LastInstant) + Within(p2[d], 1, LastInstant) - Within(p[d], 1, LastInstant)
    BY <1>4, <2>1
  <2> QED BY <2>2, <2>3
<1>7. ASSUME NEW y \in Int, Within(p2[d], 1, y) = Within(p[d], 1, y) PROVE SumOf(p2, q, 0, y) = SumOf(p, q, 0, y)
  BY <1>4, <1>7
<1>8. ASSUME NEW x \in Int, NEW y \in Int, NEW z \in Int, z < y, p2[d].at = 0 \/ y <= p2[d].at, p[d].at = 0 \/ y <= p[d].at
      PROVE  PostedIn(p2, x, z) = PostedIn(p, x, z)
  <2>1. ASSUME NEW s \in Slips, s.at = 0 \/ y <= s.at PROVE Within(s, x, z) = 0
    <3>1. s.at \in Nat /\ (s # NoPosting => s.at \in Instants)
      BY SlipCounts
    <3>2. CASE s = NoPosting
      BY <3>2, SlipCounts
    <3>3. CASE s # NoPosting
      <4>1. z < s.at
        BY <1>8, <2>1, <3>1, <3>3, DaysInOrder
      <4> QED BY <4>1, SlipCounts
    <3> QED BY <3>2, <3>3
  <2>2. Within(p2[d], x, z) = 0 /\ Within(p[d], x, z) = 0
    BY <1>2, <1>8, <2>1
  <2> QED BY <1>3, <2>2
<1> QED BY <1>1, <1>6, <1>7, <1>8

\* A closing moves the sums that hold its end by its adjustment.
LEMMA SumOfAppend ==
    ASSUME NEW p \in [Postings -> Slips], NEW q \in Seq(Figures), NEW c \in Figures
    PROVE  /\ SumOf(p, Append(q, c), 0, LastInstant) = SumOf(p, q, 0, LastInstant) + c.difference
           /\ SumOf(p, Append(q, c), 0, c.end) = SumOf(p, q, 0, c.end) + c.difference
<1>1. c.end \in Nat \ {0} /\ c.end <= LastInstant /\ c.difference \in Int
  BY FiguresAre, AdjustmentCounts
<1>2. ASSUME NEW z \in Int, c.end <= z
      PROVE  SumOf(p, Append(q, c), 0, z) = SumOf(p, q, 0, z) + c.difference
  <2>1. AdjustedIn(Append(q, c), 0, z) = AdjustedIn(q, 0, z) + Adjustment(c, 0, z)
    BY AdjustedAppend
  <2>2. Adjustment(c, 0, z) = c.difference
    BY <1>1, <1>2 DEF Adjustment
  <2>3. AdjustedIn(q, 0, z) \in Int /\ PostedIn(p, 0 + 1, z) \in Int
    BY AdjustedType, PostedType
  <2> QED BY <1>1, <2>1, <2>2, <2>3 DEF SumOf
<1>3. LastInstant \in Int /\ c.end \in Int
  BY <1>1, ClosingAssumption
<1> QED BY <1>1, <1>2, <1>3

------------------------------------------------------------------------------
(* What the board computes.                                                   *)

LockedEarlier(pos, day) == {d \in Days : pos[d].locked /\ d < day}
OpeningFrom(p, pos, day) ==
    IF LockedEarlier(pos, day) = {} THEN Opening + PostedIn(p, 1, day * DayLength)
    ELSE pos[Max(LockedEarlier(pos, day))].counted
         + PostedIn(p, EndOfDay(Max(LockedEarlier(pos, day))) + 1, day * DayLength)
ExpectedFrom(p, pos, day) ==
    OpeningFrom(p, pos, day) + PostedIn(p, day * DayLength + 1, EndOfDay(day))

LEMMA LastLocked ==
    ASSUME NEW pos, NEW day \in Days, LockedEarlier(pos, day) # {}
    PROVE  LET last == Max(LockedEarlier(pos, day)) IN last \in Days /\ pos[last].locked /\ last < day
<1> DEFINE S == LockedEarlier(pos, day)
           A == {m \in Nat : \E d \in S : m = day - d}
<1>1. day \in Nat /\ \A d \in S : d \in Nat /\ d < day
  BY DaysInOrder DEF LockedEarlier
<1>2. A \in SUBSET Nat /\ A # {}
  <2>1. PICK d \in S : TRUE
    OBVIOUS
  <2>2. day - d \in A
    BY <1>1, <2>1
  <2> QED BY <2>2
<1>3. PICK m \in A : \A k \in A : m <= k
  BY <1>2, LeastNumber
<1>4. PICK x \in S : m = day - x
  OBVIOUS
<1>5. ASSUME NEW y \in S PROVE x >= y
  <2>1. day - y \in A
    BY <1>1
  <2>2. m <= day - y /\ m = day - x
    BY <1>3, <1>4, <2>1
  <2>3. x \in Nat /\ y \in Nat /\ day \in Nat
    BY <1>1, <1>4
  <2> HIDE DEF A, S
  <2> QED BY <2>2, <2>3
<1> HIDE DEF S, A
<1>6. Max(S) \in S
  BY <1>4, <1>5 DEF Max
<1> QED BY <1>6 DEF S, LockedEarlier

\* It computes an amount, from what was posted up to the end of the day and from
\* the earlier locked days: what changes elsewhere leaves it alone.
LEMMA ExpectedType ==
    ASSUME NEW p \in [Postings -> Slips], NEW pos, NEW day \in Days,
           \A d \in Days : pos[d].locked => pos[d].counted \in Int
    PROVE  ExpectedFrom(p, pos, day) \in Int
<1>1. day \in Nat /\ day * DayLength \in Int /\ EndOfDay(day) \in Int
  BY DaysInOrder, DayFacts
<1>2. OpeningFrom(p, pos, day) \in Int
  <2>1. CASE LockedEarlier(pos, day) = {}
    <3>1. PostedIn(p, 1, day * DayLength) \in Int /\ Opening \in Int
      BY <1>1, PostedType, ClosingAssumption
    <3> QED BY <2>1, <3>1 DEF OpeningFrom
  <2>2. CASE LockedEarlier(pos, day) # {}
    <3> DEFINE last == Max(LockedEarlier(pos, day))
    <3>1. last \in Days /\ pos[last].locked
      BY <2>2, LastLocked
    <3>2. pos[last].counted \in Int
      BY <3>1
    <3> HIDE DEF last
    <3>3. EndOfDay(last) + 1 \in Int
      BY <3>1, DaysInOrder, DayFacts
    <3>4. PostedIn(p, EndOfDay(last) + 1, day * DayLength) \in Int
      BY <1>1, <3>3, PostedType
    <3> QED BY <2>2, <3>2, <3>4 DEF OpeningFrom, last
  <2> QED BY <2>1, <2>2
<1>3. PostedIn(p, day * DayLength + 1, EndOfDay(day)) \in Int
  BY <1>1, PostedType
<1> QED BY <1>2, <1>3 DEF ExpectedFrom

LEMMA ExpectedSame ==
    ASSUME NEW p \in [Postings -> Slips], NEW p2 \in [Postings -> Slips], NEW pos, NEW pos2, NEW day \in Days,
           \A x, y \in Int : y <= EndOfDay(day) => PostedIn(p2, x, y) = PostedIn(p, x, y),
           \A d \in Days : d < day => pos2[d].locked = pos[d].locked
                                  /\ (pos[d].locked => pos2[d].counted = pos[d].counted)
    PROVE  ExpectedFrom(p2, pos2, day) = ExpectedFrom(p, pos, day)
<1>1. day \in Nat /\ day * DayLength \in Int /\ EndOfDay(day) \in Int /\ day * DayLength <= EndOfDay(day)
  BY DaysInOrder, DayFacts
<1>2. LockedEarlier(pos2, day) = LockedEarlier(pos, day)
  BY DEF LockedEarlier
<1>3. OpeningFrom(p2, pos2, day) = OpeningFrom(p, pos, day)
  <2>1. CASE LockedEarlier(pos, day) = {}
    <3>1. PostedIn(p2, 1, day * DayLength) = PostedIn(p, 1, day * DayLength)
      BY <1>1
    <3> QED BY <1>2, <2>1, <3>1 DEF OpeningFrom
  <2>2. CASE LockedEarlier(pos, day) # {}
    <3> DEFINE last == Max(LockedEarlier(pos, day))
    <3>1. last \in Days /\ pos[last].locked /\ last < day
      BY <2>2, LastLocked
    <3> HIDE DEF last
    <3>2. pos2[last].counted = pos[last].counted
      BY <3>1
    <3>3. EndOfDay(last) + 1 \in Int
      BY <3>1, DaysInOrder, DayFacts
    <3>4. PostedIn(p2, EndOfDay(last) + 1, day * DayLength) = PostedIn(p, EndOfDay(last) + 1, day * DayLength)
      BY <1>1, <3>3
    <3> QED BY <1>2, <2>2, <3>2, <3>4 DEF OpeningFrom, last
  <2> QED BY <2>1, <2>2
<1>4. PostedIn(p2, day * DayLength + 1, EndOfDay(day)) = PostedIn(p, day * DayLength + 1, EndOfDay(day))
  <2>1. day * DayLength + 1 \in Int /\ EndOfDay(day) <= EndOfDay(day)
    BY <1>1
  <2> QED BY <1>1, <2>1
<1> QED BY <1>3, <1>4 DEF ExpectedFrom
------------------------------------------------------------------------------
(* What the state and the next one hold, in the operators above.              *)

ClosedIn(q, at) == q # <<>> /\ at <= LatestOf(q).end
KeptIn(p, q) == q # <<>> => SumOf(p, q, 0, LatestOf(q).end) = LatestOf(q).sealed
FrozenOn(p, pos, lock, day) ==
    /\ pos[day].locked = (lock[day] # Uncounted)
    /\ pos[day].locked => pos[day].expected = ExpectedFrom(p, pos, day) /\ lock[day] = pos[day].counted
BoardEvents == {"posted into locked day", "recounted", "board raced", "earlier day relocked"}
ChainEvents == Leaks \cup {"later movements"}

LEMMA Meanings ==
    /\ Latest = LatestOf(closing) /\ \A at : Closed(at) <=> ClosedIn(closing, at)
    /\ \A x, y : TransactionSum(x, y) = SumOf(posting, closing, x, y)
    /\ \A day : Expected(day) = ExpectedFrom(posting, position, day)
<1>1. Latest = LatestOf(closing)
  BY Zenon DEF Latest, LatestOf, After
<1>2. \A at : Closed(at) <=> ClosedIn(closing, at)
  BY <1>1, Zenon DEF Closed, ClosedIn
<1>3. \A x, y : TransactionSum(x, y) = SumOf(posting, closing, x, y)
  BY Zenon DEF TransactionSum, Posted, Adjusted, SumOf, PostedIn, AdjustedIn
<1>4. \A day : Expected(day) = ExpectedFrom(posting, position, day)
  BY Zenon DEF Expected, OpeningOf, LockedBefore, Posted, ExpectedFrom, OpeningFrom, LockedEarlier, PostedIn
<1> QED BY <1>1, <1>2, <1>3, <1>4

LEMMA MeaningsNext ==
    /\ Latest' = LatestOf(closing') /\ \A at : Closed(at)' <=> ClosedIn(closing', at)
    /\ \A x, y : TransactionSum(x, y)' = SumOf(posting', closing', x, y)
    /\ \A day : Expected(day)' = ExpectedFrom(posting', position', day)
<1>1. Latest' = LatestOf(closing')
  BY Zenon DEF Latest, LatestOf, After
<1>2. \A at : Closed(at)' <=> ClosedIn(closing', at)
  BY <1>1, Zenon DEF Closed, ClosedIn
<1>3. \A x, y : TransactionSum(x, y)' = SumOf(posting', closing', x, y)
  BY Zenon DEF TransactionSum, Posted, Adjusted, SumOf, PostedIn, AdjustedIn
<1>4. \A day : Expected(day)' = ExpectedFrom(posting', position', day)
  BY Zenon DEF Expected, OpeningOf, LockedBefore, Posted, ExpectedFrom, OpeningFrom, LockedEarlier, PostedIn
<1> QED BY <1>1, <1>2, <1>3, <1>4

\* The parts of the invariant, and what has to be shown of the next state.
LEMMA InvMeans ==
    ASSUME ClosingInv
    PROVE  /\ posting \in [Postings -> Slips] /\ closing \in Seq(Figures)
           /\ stored.balance = Opening + SumOf(posting, closing, 0, LastInstant)
           /\ occurred \cap Leaks = {} => KeptIn(posting, closing)
           /\ occurred \cap ChainEvents = {} => /\ closing # <<>> => LatestOf(closing).final = Opening + LatestOf(closing).sealed
                                                /\ \A a \in Actors : ChainedCall(call[a]) /\ ExpectsCall(call[a])
           /\ occurred \cap BoardEvents = {} => \A day \in Days : FrozenOn(posting, position, dayLock, day)
<1>1. stored.balance = Opening + SumOf(posting, closing, 0, LastInstant)
  BY Meanings DEF ClosingInv, BalanceIs
<1>2. occurred \cap Leaks = {} => KeptIn(posting, closing)
  BY Meanings, Zenon DEF ClosingInv, ClosedPeriodKept, Except, KeptIn
<1>3. occurred \cap ChainEvents = {} => /\ closing # <<>> => LatestOf(closing).final = Opening + LatestOf(closing).sealed
                                        /\ \A a \in Actors : ChainedCall(call[a]) /\ ExpectsCall(call[a])
  BY Meanings, Zenon DEF ClosingInv, Chained, Chain, ExpectedIsBalance, Except, ExpectsCall, ChainEvents
<1>4. occurred \cap BoardEvents = {} => \A day \in Days : FrozenOn(posting, position, dayLock, day)
  BY Meanings, Zenon DEF ClosingInv, BoardFrozen, Except, FrozenOn, BoardEvents
<1> QED BY <1>1, <1>2, <1>3, <1>4 DEF ClosingInv, ClosingTyped, PostingsTyped, ClosingsTyped

LEMMA InvNext ==
    ASSUME ClosingTyped', Guarded',
           stored'.balance = Opening + SumOf(posting', closing', 0, LastInstant),
           occurred' \cap Leaks = {} => KeptIn(posting', closing'),
           occurred' \cap ChainEvents = {} =>
               (closing' # <<>> => LatestOf(closing').final = Opening + LatestOf(closing').sealed),
           occurred' \cap ChainEvents = {} => \A a \in Actors : ChainedCall(call'[a]) /\ ExpectsCall(call[a])',
           occurred' \cap BoardEvents = {} => \A day \in Days : FrozenOn(posting', position', dayLock', day)
    PROVE  ClosingInv'
<1>1. BalanceIs'
  BY MeaningsNext DEF BalanceIs
<1>2. ClosedPeriodKept'
  BY MeaningsNext, Zenon DEF ClosedPeriodKept, Except, KeptIn
<1>3. Chained'
  BY MeaningsNext, Zenon DEF Chained, Chain, Except, ChainedCall, ChainEvents
<1>4. ExpectedIsBalance'
  BY Zenon DEF ExpectedIsBalance, Except, ExpectsCall, ChainEvents
<1>5. BoardFrozen'
  BY MeaningsNext, Zenon DEF BoardFrozen, Except, FrozenOn, BoardEvents
<1> QED BY <1>1, <1>2, <1>3, <1>4, <1>5 DEF ClosingInv

\* A request stays well-formed while time and versions advance.
LEMMA CallStaysTyped ==
    ASSUME NEW c, CallTyped(c), {clock, clock', stored.rev, stored'.rev} \subseteq Nat,
           clock <= clock', stored.rev <= stored'.rev
    PROVE  CallTyped(c)'
<1>1. c.step = "closing" => c.figures.end \in Nat
  <2>1. c.step = "closing" => c.figures \in Figures
    BY DEF CallTyped, Dated
  <2> QED BY <2>1, FiguresAre, AdjustmentCounts
<1>2. c.step = "closing" => Dated(c.figures)'
  BY <1>1 DEF CallTyped, Dated
<1>3. c.rev \in Nat /\ c.rev <= stored'.rev
  BY DEF CallTyped
<1> QED BY <1>2, <1>3 DEF CallTyped

LEMMA QuietIs == Quiet.step = "idle" /\ Quiet.rev = 0
BY DEF Quiet
------------------------------------------------------------------------------
(* Each step keeps the invariant.                                             *)

\* A request that reads, or ends without writing, changes only itself.
LEMMA CallChanges ==
    ASSUME ClosingInv, NEW a \in Actors, NEW c, call' = [call EXCEPT ![a] = c],
           UNCHANGED <<clock, posting, stored, closing, position, dayLock, occurred>>,
           CallTyped(c), GuardedCall(c),
           occurred \cap ChainEvents = {} => ChainedCall(c) /\ ExpectsCall(c)
    PROVE  ClosingInv'
<1>1. DOMAIN call = Actors /\ DOMAIN call' = Actors
      /\ \A b \in Actors : call'[b] = c \/ call'[b] = call[b]
  BY DEF ClosingInv, ClosingTyped, CallsTyped
<1>2. ClosingTyped'
  <2>1. ASSUME NEW b \in Actors PROVE CallTyped(call[b])'
    <3>1. CallTyped(call'[b])
      BY <1>1 DEF ClosingInv, ClosingTyped, CallsTyped
    <3> QED BY <3>1 DEF CallTyped, Dated
  <2>2. CallsTyped'
    BY <1>1, <2>1 DEF CallsTyped
  <2>3. PostingsTyped' /\ ClosingsTyped' /\ BoardTyped'
    BY Zenon DEF ClosingInv, ClosingTyped, PostingsTyped, ClosingsTyped, Dated, BoardTyped
  <2> QED BY <2>2, <2>3 DEF ClosingTyped
<1>3. Guarded'
  <2>1. ASSUME NEW b \in Actors PROVE GuardedCall(call[b])'
    <3>1. GuardedCall(call'[b])
      BY <1>1 DEF ClosingInv, Guarded
    <3> QED BY <3>1, Zenon DEF GuardedCall, DateChecked, Closed, Latest
  <2> QED BY <2>1 DEF Guarded
<1>4. occurred \cap ChainEvents = {} => \A b \in Actors : ChainedCall(call'[b]) /\ ExpectsCall(call'[b])
  BY <1>1, InvMeans
<1>5. occurred \cap ChainEvents = {} => \A b \in Actors : ChainedCall(call'[b]) /\ ExpectsCall(call[b])'
  BY <1>4, Zenon DEF ExpectsCall
<1>6. /\ stored'.balance = Opening + SumOf(posting', closing', 0, LastInstant)
      /\ occurred' \cap Leaks = {} => KeptIn(posting', closing')
      /\ occurred' \cap ChainEvents = {} =>
            (closing' # <<>> => LatestOf(closing').final = Opening + LatestOf(closing').sealed)
      /\ occurred' \cap BoardEvents = {} => \A day \in Days : FrozenOn(posting', position', dayLock', day)
  BY InvMeans
<1> QED BY <1>2, <1>3, <1>5, <1>6, InvNext

LEMMA Quieting ==
    ASSUME ClosingInv, NEW a \in Actors, call' = [call EXCEPT ![a] = Quiet],
           UNCHANGED <<clock, posting, stored, closing, position, dayLock, occurred>>
    PROVE  ClosingInv'
<1> DEFINE c == Quiet
<1>1. c.step = "idle" /\ c.rev = 0 /\ call' = [call EXCEPT ![a] = c]
  BY QuietIs
<1> HIDE DEF c
<1>2. stored.rev \in Nat
  BY DEF ClosingInv, ClosingTyped, PostingsTyped
<1>3. CallTyped(c)
  BY <1>1, <1>2 DEF CallTyped
<1>4. GuardedCall(c) /\ ChainedCall(c) /\ ExpectsCall(c)
  BY <1>1 DEF GuardedCall, ChainedCall, ExpectsCall
<1> QED BY <1>1, <1>3, <1>4, CallChanges

\* Time passes.
LEMMA Ticking == ASSUME ClosingInv, Tick PROVE ClosingInv'
<1>1. /\ clock \in Nat /\ clock' \in Instants /\ clock' \in Nat /\ clock <= clock' /\ stored.rev \in Nat
      /\ UNCHANGED <<posting, stored, closing, position, dayLock, call, occurred>>
  <2>1. clock \in Instants /\ clock \in Nat /\ stored.rev \in Nat
    BY DaysInOrder DEF ClosingInv, ClosingTyped, PostingsTyped
  <2>2. clock' = clock + 1 /\ clock < LastInstant
    BY DEF Tick
  <2> QED BY <2>1, <2>2, ClosingAssumption DEF Tick, Instants
<1>2. ClosingTyped'
  <2>1. ASSUME NEW a \in Actors PROVE CallTyped(call[a])'
    <3>1. CallTyped(call[a])
      BY DEF ClosingInv, ClosingTyped, CallsTyped
    <3>2. PICK c : c = call[a]
      OBVIOUS
    <3>3. CallTyped(c)'
      BY <1>1, <3>1, <3>2, CallStaysTyped
    <3> QED BY <1>1, <3>2, <3>3 DEF CallTyped
  <2>2. ASSUME NEW i \in DOMAIN closing PROVE Dated(closing[i])'
    <3>1. Dated(closing[i])
      BY DEF ClosingInv, ClosingTyped, ClosingsTyped
    <3>2. closing[i].end \in Nat
      <4>1. closing[i] \in Figures
        BY <3>1 DEF Dated
      <4> QED BY <4>1, FiguresAre, AdjustmentCounts
    <3> QED BY <1>1, <3>1, <3>2 DEF Dated
  <2> QED BY <1>1, <2>1, <2>2 DEF ClosingInv, ClosingTyped, PostingsTyped, ClosingsTyped, BoardTyped, CallsTyped
<1>3. Guarded'
  BY <1>1, Zenon DEF ClosingInv, Guarded, GuardedCall, DateChecked, Closed, Latest
<1>4. occurred' \cap ChainEvents = {} => \A a \in Actors : ChainedCall(call'[a]) /\ ExpectsCall(call[a])'
  <2>1. occurred \cap ChainEvents = {} => \A a \in Actors : ChainedCall(call[a]) /\ ExpectsCall(call[a])
    BY InvMeans
  <2> QED BY <1>1, <2>1, Zenon DEF ExpectsCall
<1>5. /\ stored'.balance = Opening + SumOf(posting', closing', 0, LastInstant)
      /\ occurred' \cap Leaks = {} => KeptIn(posting', closing')
      /\ occurred' \cap ChainEvents = {} =>
            (closing' # <<>> => LatestOf(closing').final = Opening + LatestOf(closing').sealed)
      /\ occurred' \cap BoardEvents = {} => \A day \in Days : FrozenOn(posting', position', dayLock', day)
  BY <1>1, InvMeans
<1> QED BY <1>2, <1>3, <1>4, <1>5, InvNext
\* What remains of the other requests when the account, the postings or the board
\* change and the clock does not.
CallsRemain == /\ DOMAIN call' = Actors
               /\ \A b \in Actors : call'[b] = call[b] \/ call'[b] = Quiet
               /\ clock' = clock /\ stored'.rev \in Nat /\ stored.rev <= stored'.rev

LEMMA CallsRemainTyped == ASSUME ClosingInv, CallsRemain PROVE CallsTyped'
<1>1. clock \in Nat /\ clock' \in Nat /\ clock <= clock' /\ stored.rev \in Nat /\ stored'.rev \in Nat
  <2>1. clock \in Nat /\ stored.rev \in Nat
    BY DaysInOrder DEF ClosingInv, ClosingTyped, PostingsTyped
  <2> QED BY <2>1 DEF CallsRemain
<1>2. ASSUME NEW a \in Actors PROVE CallTyped(call[a])'
  <2>1. PICK c : c = call'[a]
    OBVIOUS
  <2>2. CallTyped(c)
    <3>1. CASE c = call[a]
      BY <3>1 DEF ClosingInv, ClosingTyped, CallsTyped
    <3>2. CASE c = Quiet
      <4>1. c.step = "idle" /\ c.rev = 0
        BY <3>2, QuietIs
      <4> QED BY <1>1, <4>1 DEF CallTyped
    <3> QED BY <2>1, <3>1, <3>2 DEF CallsRemain
  <2>3. CallTyped(c)'
    BY <1>1, <2>2, CallStaysTyped DEF CallsRemain
  <2> QED BY <2>1, <2>3 DEF CallTyped
<1> QED BY <1>2 DEF CallsTyped, CallsRemain

\* A closing about to be written remembers what it expected while no version passed.
LEMMA CallsRemainChained ==
    ASSUME ClosingInv, CallsRemain, occurred \subseteq occurred',
           stored' = stored \/ stored.rev < stored'.rev
    PROVE  occurred' \cap ChainEvents = {} => \A a \in Actors : ChainedCall(call'[a]) /\ ExpectsCall(call[a])'
<1>1. SUFFICES ASSUME occurred' \cap ChainEvents = {}, NEW a \in Actors
               PROVE  ChainedCall(call'[a]) /\ ExpectsCall(call[a])'
  OBVIOUS
<1>2. ChainedCall(call[a]) /\ ExpectsCall(call[a])
  <2>1. occurred \cap ChainEvents = {}
    BY <1>1
  <2> QED BY <1>1, <2>1, InvMeans
<1>3. call[a].rev \in Nat /\ call[a].rev <= stored.rev /\ stored.rev \in Nat /\ stored'.rev \in Nat
  BY <1>1 DEF ClosingInv, ClosingTyped, CallsTyped, CallTyped, PostingsTyped, CallsRemain
<1>4. CASE call'[a] = Quiet
  BY <1>4, QuietIs DEF ChainedCall, ExpectsCall
<1>5. CASE call'[a] = call[a]
  <2>1. CASE stored' = stored
    BY <1>2, <1>5, <2>1, Zenon DEF ExpectsCall
  <2>2. CASE stored.rev < stored'.rev
    <3>1. call'[a].rev # stored'.rev
      BY <1>3, <1>5, <2>2
    <3> QED BY <1>2, <1>5, <3>1, Zenon DEF ExpectsCall
  <2> QED BY <2>1, <2>2
<1> QED BY <1>1, <1>4, <1>5 DEF CallsRemain

LEMMA CallsRemainGuarded ==
    ASSUME ClosingInv, CallsRemain, closing' = closing
    PROVE  Guarded'
<1>1. ASSUME NEW a \in Actors PROVE GuardedCall(call[a])'
  <2>1. GuardedCall(call[a]) /\ call[a].rev \in Nat /\ stored.rev \in Nat
    BY DEF ClosingInv, Guarded, ClosingTyped, CallsTyped, CallTyped, PostingsTyped
  <2>2. CASE call'[a] = Quiet
    BY <2>2, QuietIs DEF GuardedCall
  <2>3. CASE call'[a] = call[a]
    <3>1. call[a].rev < stored.rev => call'[a].rev < stored'.rev
      BY <2>1, <2>3 DEF CallsRemain
    <3>2. Latest' = Latest /\ \A at : Closed(at)' <=> Closed(at)
      BY Zenon DEF Closed, Latest
    <3> QED BY <2>1, <2>3, <3>1, <3>2, Zenon DEF GuardedCall, DateChecked
  <2> QED BY <2>2, <2>3 DEF CallsRemain
<1> QED BY <1>1 DEF Guarded

LEMMA AddMoves ==
    ASSUME ClosingInv, NEW change \in Int, Add(change)
    PROVE  /\ stored' \in [balance : Int, rev : Nat \ {0}]
           /\ stored'.balance = stored.balance + change
           /\ stored.rev <= stored'.rev /\ stored.rev \in Nat
           /\ change = 0 => stored' = stored
           /\ change # 0 => stored.rev < stored'.rev
<1>1. stored \in [balance : Int, rev : Nat \ {0}]
  BY DEF ClosingInv, ClosingTyped, PostingsTyped
<1>2. CASE change = 0
  BY <1>1, <1>2 DEF Add
<1>3. CASE change # 0
  <2>1. stored' = [balance |-> stored.balance + change, rev |-> stored.rev + 1]
    BY <1>3 DEF Add
  <2> QED BY <1>1, <1>3, <2>1
<1> QED BY <1>2, <1>3

\* One slip is written: the balance follows it, and the closed period and the
\* locked days keep what they hold unless an event says otherwise.
LEMMA SlipChanges ==
    ASSUME ClosingInv, NEW e \in Postings, NEW new \in Slips,
           posting' = [posting EXCEPT ![e] = new], Add(Worth(new) - Worth(posting[e])),
           UNCHANGED <<clock, closing, position, dayLock>>, DOMAIN call' = Actors,
           \A b \in Actors : call'[b] = call[b] \/ call'[b] = Quiet,
           occurred \cup PostedEvents({posting[e].at, new.at} \ {0}) \subseteq occurred',
           occurred' \cap Leaks = {} /\ closing # <<>>
               => Within(new, 1, Latest.end) = Within(posting[e], 1, Latest.end)
    PROVE  ClosingInv'
<1> DEFINE change == Worth(new) - Worth(posting[e])
<1>1. posting \in [Postings -> Slips] /\ closing \in Seq(Figures) /\ posting[e] \in Slips
  BY InvMeans
<1>2. Worth(new) \in Int /\ Worth(posting[e]) \in Int /\ change \in Int
  <2>1. 0 \in Int
    OBVIOUS
  <2>2. Worth(new) \in Int /\ Worth(posting[e]) \in Int
    BY <1>1, <2>1, SlipCounts
  <2> QED BY <2>2
<1> HIDE DEF change
<1>3. /\ stored' \in [balance : Int, rev : Nat \ {0}]
      /\ stored'.balance = stored.balance + change
      /\ stored.rev <= stored'.rev /\ stored.rev \in Nat
      /\ stored' = stored \/ stored.rev < stored'.rev
  BY <1>2, AddMoves DEF change
<1> DEFINE p2 == posting'
<1>4. p2 \in [Postings -> Slips] /\ p2[e] = new /\ \A d \in Postings \ {e} : p2[d] = posting[d]
  BY <1>1
<1> HIDE DEF p2
<1>13. /\ SumOf(p2, closing, 0, LastInstant) = SumOf(posting, closing, 0, LastInstant) + Worth(new) - Worth(posting[e])
       /\ \A y \in Int : Within(new, 1, y) = Within(posting[e], 1, y) => SumOf(p2, closing, 0, y) = SumOf(posting, closing, 0, y)
       /\ \A x, y, z \in Int : z < y /\ (new.at = 0 \/ y <= new.at) /\ (posting[e].at = 0 \/ y <= posting[e].at)
             => PostedIn(p2, x, z) = PostedIn(posting, x, z)
  <2>1. PICK p, q, r : p = posting /\ q = closing /\ r = p2
    OBVIOUS
  <2>2. /\ p \in [Postings -> Slips] /\ q \in Seq(Figures) /\ r \in [Postings -> Slips] /\ r[e] = new
        /\ \A d \in Postings \ {e} : r[d] = p[d]
    BY <1>1, <1>4, <2>1
  <2>3. /\ SumOf(r, q, 0, LastInstant) = SumOf(p, q, 0, LastInstant) + Worth(r[e]) - Worth(p[e])
        /\ \A y \in Int : Within(r[e], 1, y) = Within(p[e], 1, y) => SumOf(r, q, 0, y) = SumOf(p, q, 0, y)
        /\ \A x, y, z \in Int : z < y /\ (r[e].at = 0 \/ y <= r[e].at) /\ (p[e].at = 0 \/ y <= p[e].at)
              => PostedIn(r, x, z) = PostedIn(p, x, z)
    <3>1. \A d \in Postings \ {e} : r[d] = p[d]
      BY <2>2
    <3>2. r \in [Postings -> Slips] /\ p \in [Postings -> Slips] /\ q \in Seq(Figures)
      BY <2>2
    <3> QED BY ONLY <3>1, <3>2, e \in Postings, SumOfMoves
  <2> QED BY <2>1, <2>2, <2>3
<1>5. stored'.balance = Opening + SumOf(posting', closing', 0, LastInstant)
  <2>1. SumOf(posting, closing, 0, LastInstant) \in Int /\ Opening \in Int
    BY <1>1, SumOfType, ClosingAssumption
  <2>2. stored.balance = Opening + SumOf(posting, closing, 0, LastInstant)
    BY InvMeans
  <2>3. SumOf(p2, closing, 0, LastInstant) = SumOf(posting, closing, 0, LastInstant) + Worth(new) - Worth(posting[e])
    BY <1>13
  <2>4. SumOf(posting', closing', 0, LastInstant) = SumOf(p2, closing, 0, LastInstant)
    BY DEF p2
  <2> QED BY <1>2, <1>3, <2>1, <2>2, <2>3, <2>4 DEF change
<1>6. CallsRemain
  BY <1>3 DEF CallsRemain
<1>7. ClosingTyped'
  <2>1. CallsTyped'
    BY <1>6, CallsRemainTyped
  <2>2. PostingsTyped'
    BY <1>3, <1>4 DEF ClosingInv, ClosingTyped, PostingsTyped, p2
  <2>3. ClosingsTyped' /\ BoardTyped'
    BY Zenon DEF ClosingInv, ClosingTyped, ClosingsTyped, Dated, BoardTyped
  <2> QED BY <2>1, <2>2, <2>3 DEF ClosingTyped
<1>8. Guarded'
  BY <1>6, CallsRemainGuarded
<1>9. occurred' \cap ChainEvents = {} => \A a \in Actors : ChainedCall(call'[a]) /\ ExpectsCall(call[a])'
  BY <1>3, <1>6, CallsRemainChained
<1>10. occurred' \cap ChainEvents = {} =>
            (closing' # <<>> => LatestOf(closing').final = Opening + LatestOf(closing').sealed)
  BY InvMeans
<1>11. ASSUME occurred' \cap Leaks = {} PROVE KeptIn(posting', closing')
  <2>1. SUFFICES ASSUME closing # <<>>
                 PROVE  SumOf(posting', closing, 0, LatestOf(closing).end) = LatestOf(closing).sealed
    BY DEF KeptIn
  <2>2. LatestOf(closing).end \in Int
    <3>1. LatestOf(closing) \in Figures
      BY <1>1, <2>1, LatestTyped
    <3> QED BY <3>1, FiguresAre, AdjustmentCounts
  <2>3. Within(new, 1, LatestOf(closing).end) = Within(posting[e], 1, LatestOf(closing).end)
    BY <1>11, <2>1, Meanings
  <2>4. SumOf(posting', closing, 0, LatestOf(closing).end) = SumOf(posting, closing, 0, LatestOf(closing).end)
    BY <2>2, <2>3, <1>13 DEF p2
  <2>5. KeptIn(posting, closing)
    <3>1. occurred \cap Leaks = {}
      BY <1>11
    <3> QED BY <3>1, InvMeans
  <2> QED BY <2>1, <2>4, <2>5 DEF KeptIn
<1>12. ASSUME occurred' \cap BoardEvents = {}, NEW day \in Days
       PROVE  FrozenOn(posting', position', dayLock', day)
  <2>1. FrozenOn(posting, position, dayLock, day)
    <3>1. occurred \cap BoardEvents = {}
      BY <1>12
    <3> QED BY <1>12, <3>1, InvMeans
  <2>2. CASE ~position[day].locked
    BY <2>1, <2>2 DEF FrozenOn
  <2>3. CASE position[day].locked
    <3> DEFINE dates == {posting[e].at, new.at} \ {0}
    <3>1. \A t \in dates : ~(DayOf(t) <= day)
      BY <1>12, <2>3, Zenon DEF PostedEvents, BoardEvents
    <3>2. day \in Nat /\ EndOfDay(day) \in Nat
      BY DaysInOrder, DayFacts
    <3>3. ASSUME NEW s \in Slips, s.at = 0 \/ s.at \in dates PROVE s.at = 0 \/ EndOfDay(day) + 1 <= s.at
      <4>1. s = NoPosting \/ s.at \in Instants
        BY SlipCounts, ClosingAssumption
      <4>2. CASE s = NoPosting
        BY <4>2 DEF NoPosting
      <4>3. CASE s.at \in Instants
        <5>1. s.at \in Nat \ {0}
          BY <4>3, DaysInOrder
        <5>2. s.at \in dates /\ DayOf(s.at) \in Nat
          BY <3>3, <5>1, DayFacts
        <5>3. day < DayOf(s.at)
          BY <3>1, <3>2, <5>2
        <5>4. EndOfDay(day) < s.at
          BY <3>2, <5>1, <5>3, DaysInOrder
        <5> QED BY <3>2, <5>1, <5>4
      <4> QED BY <4>1, <4>2, <4>3
    <3>4. (new.at = 0 \/ EndOfDay(day) + 1 <= new.at) /\ (posting[e].at = 0 \/ EndOfDay(day) + 1 <= posting[e].at)
      BY <1>1, <3>3
    <3> HIDE DEF dates
    <3>5. \A x, y \in Int : y <= EndOfDay(day) => PostedIn(posting', x, y) = PostedIn(posting, x, y)
      <4>1. EndOfDay(day) + 1 \in Int
        BY <3>2
      <4>2. \A x, z \in Int : z < EndOfDay(day) + 1 => PostedIn(posting', x, z) = PostedIn(posting, x, z)
        BY <3>4, <4>1, <1>13 DEF p2
      <4>3. \A y \in Int : y <= EndOfDay(day) => y < EndOfDay(day) + 1
        BY <3>2
      <4> QED BY <4>2, <4>3
    <3>6. ExpectedFrom(posting', position, day) = ExpectedFrom(posting, position, day)
      <4>1. PICK p, r, pos : p = posting /\ r = posting' /\ pos = position
        OBVIOUS
      <4>2. p \in [Postings -> Slips] /\ r \in [Postings -> Slips]
        BY <1>1, <1>4, <4>1 DEF p2
      <4>3. \A x, y \in Int : y <= EndOfDay(day) => PostedIn(r, x, y) = PostedIn(p, x, y)
        BY <3>5, <4>1
      <4>4. ExpectedFrom(r, pos, day) = ExpectedFrom(p, pos, day)
        BY <4>2, <4>3, ExpectedSame
      <4> QED BY <4>1, <4>4
    <3> QED BY <2>1, <2>3, <3>6 DEF FrozenOn
  <2> QED BY <2>2, <2>3
<1> QED BY <1>5, <1>7, <1>8, <1>9, <1>10, <1>11, <1>12, InvNext
\* The requests that write or record one slip.
LEMMA WritePaymentKeeps == ASSUME ClosingInv, NEW a \in Actors, WritePayment(a) PROVE ClosingInv'
<1>1. PICK c : c = call[a]
  OBVIOUS
<1> DEFINE change == Worth(c.new) - Worth(c.was)
           dates == {c.was.at, c.new.at} \ {0}
<1>2. /\ c.step = "payment" /\ posting[c.e] = c.was /\ Unchanged(a, change)
      /\ posting' = [posting EXCEPT ![c.e] = c.new] /\ Add(change)
      /\ call' = [call EXCEPT ![a] = Quiet]
      /\ UNCHANGED <<clock, closing, position, dayLock>>
      /\ occurred' = occurred \cup PostedEvents(dates) \cup
            (IF ~\E t \in dates : Closed(t) THEN {}
             ELSE IF c.was.kind # "none" /\ c.was.at # c.new.at THEN {"date moved"}
             ELSE IF c.was.live # c.new.live /\ c.was.kind # "none" THEN {"late void"}
             ELSE IF Latest.difference = 0 THEN {"late posting"} ELSE {})
  BY <1>1 DEF WritePayment
<1>3. PaymentTyped(c) /\ c.rev \in Nat /\ GuardedCall(c) /\ DOMAIN call = Actors /\ stored.rev \in Nat
  BY <1>1, <1>2 DEF ClosingInv, ClosingTyped, CallsTyped, CallTyped, Guarded, PostingsTyped
<1>4. c.e \in Postings /\ c.was \in Slips /\ c.new \in Slips
  BY <1>3 DEF PaymentTyped
<1>5. ASSUME occurred' \cap Leaks = {}, closing # <<>>
      PROVE  Within(c.new, 1, Latest.end) = Within(c.was, 1, Latest.end)
  <2>1. Latest.end \in Int
    <3>1. LatestOf(closing) \in Figures
      BY <1>5, InvMeans, LatestTyped
    <3> QED BY <3>1, FiguresAre, Meanings
  <2>2. CASE ~\E t \in dates : Closed(t)
    <3>1. ASSUME NEW s \in Slips, s.at = 0 \/ s.at \in dates PROVE Within(s, 1, Latest.end) = 0
      <4>1. CASE s = NoPosting
        BY <2>1, <4>1, SlipCounts
      <4>2. CASE s # NoPosting
        <5>1. s.at \in Instants
          BY <2>1, <4>2, SlipCounts
        <5>2. s.at \in Nat \ {0}
          BY <5>1, DaysInOrder
        <5>3. ~Closed(s.at)
          BY <2>2, <3>1, <5>2
        <5>4. Latest.end < s.at
          BY <1>5, <2>1, <5>2, <5>3 DEF Closed
        <5> QED BY <2>1, <5>4, SlipCounts
      <4> QED BY <4>1, <4>2
    <3>2. Within(c.new, 1, Latest.end) = 0 /\ Within(c.was, 1, Latest.end) = 0
      BY <1>4, <3>1
    <3> QED BY <3>2
  <2>3. CASE \E t \in dates : Closed(t)
    <3>1. c.was.kind = "none" \/ (c.was.at = c.new.at /\ c.was.live = c.new.live)
      BY <1>2, <1>5, <2>3, Zenon DEF Leaks
    <3>2. Latest.difference # 0
      BY <1>2, <1>5, <2>3, <3>1, Zenon DEF Leaks
    <3>3. c.rev # 0
      <4>1. Turning(c) => c.was.kind = "payment" /\ c.new.live # c.was.live
        <5>1. SUFFICES ASSUME Turning(c) PROVE c.was.kind = "payment" /\ c.new.live # c.was.live
          OBVIOUS
        <5>2. c.was # NoPosting
          BY <5>1 DEF Turning, NoPosting
        <5>3. c.was \in [kind : {"payment", "entry"}, at : Instants, net : Int, live : BOOLEAN]
          BY <1>4, <5>2 DEF Slips
        <5>4. c.new.live = ~c.was.live /\ c.was.live \in BOOLEAN
          BY <5>1, <5>3 DEF Turning
        <5> QED BY <5>1, <5>4 DEF Turning
      <4> QED BY <1>3, <3>1, <4>1 DEF PaymentTyped
    <3>4. Making(c) \/ Editing(c)
      BY <1>3, <3>3 DEF PaymentTyped
    <3>5. Closed(DateChecked(c))
      <4>1. CASE Making(c)
        <5>1. c.was = NoPosting /\ c.was.at = 0
          BY <4>1 DEF Making, NoPosting
        <5> QED BY <2>3, <5>1 DEF DateChecked
      <4>2. CASE Editing(c)
        <5>1. c.was # NoPosting /\ c.was.at = c.new.at
          BY <3>1, <4>2 DEF Editing, NoPosting
        <5> QED BY <2>3, <5>1 DEF DateChecked
      <4> QED BY <3>4, <4>1, <4>2
    <3>6. c.rev < stored.rev
      BY <1>2, <1>3, <3>2, <3>3, <3>5, Zenon DEF GuardedCall
    <3>7. change = 0
      <4> HIDE DEF change
      <4>1. Unchanged(a, change) /\ call[a].rev = c.rev
        BY <1>1, <1>2
      <4>2. c.rev # 0 /\ c.rev # stored.rev
        BY <1>3, <3>3, <3>6
      <4> QED BY <4>1, <4>2 DEF Unchanged
    <3>8. Worth(c.new) \in Int /\ Worth(c.was) \in Int /\ c.new.net \in Int /\ c.was.net \in Int
      BY <1>4, <2>1, SlipCounts
    <3>9. Worth(c.new) = Worth(c.was)
      BY <3>7, <3>8
    <3>10. CASE Making(c)
      <4>1. Worth(c.was) = 0 /\ Worth(c.new) = c.new.net /\ c.new.net # 0
        BY <3>10 DEF Making, Worth, NoPosting
      <4> QED BY <3>9, <4>1
    <3>11. CASE Editing(c)
      <4>1. c.was.at = c.new.at
        BY <3>1, <3>11 DEF Editing
      <4> QED BY <3>9, <4>1 DEF Within
    <3> QED BY <3>4, <3>10, <3>11
  <2> QED BY <2>2, <2>3
<1>6. /\ posting[c.e] = c.was /\ DOMAIN call' = Actors
      /\ \A b \in Actors : call'[b] = call[b] \/ call'[b] = Quiet
      /\ occurred \cup PostedEvents({posting[c.e].at, c.new.at} \ {0}) \subseteq occurred'
  BY <1>2, <1>3, Zenon
<1> HIDE DEF dates, change
<1>7. Add(Worth(c.new) - Worth(posting[c.e]))
  BY <1>2 DEF change
<1> QED
  <2>1. PICK e, new : e = c.e /\ new = c.new
    OBVIOUS
  <2>2. /\ e \in Postings /\ new \in Slips /\ posting' = [posting EXCEPT ![e] = new]
        /\ Add(Worth(new) - Worth(posting[e]))
        /\ occurred \cup PostedEvents({posting[e].at, new.at} \ {0}) \subseteq occurred'
    BY <1>2, <1>4, <1>6, <1>7, <2>1
  <2>3. occurred' \cap Leaks = {} /\ closing # <<>> => Within(new, 1, Latest.end) = Within(posting[e], 1, Latest.end)
    BY <1>5, <1>6, <2>1
  <2> QED BY <1>2, <1>6, <2>2, <2>3, SlipChanges

LEMMA PostEntryKeeps ==
    ASSUME ClosingInv, NEW e \in Postings, NEW at \in Instants, NEW net \in Nets, NEW live \in BOOLEAN,
           PostEntry(e, at, net, live)
    PROVE  ClosingInv'
<1>1. PICK new : new = [kind |-> "entry", at |-> at, net |-> net, live |-> live]
  OBVIOUS
<1>2. PICK p : p = posting[e]
  OBVIOUS
<1>3. new \in Slips /\ p \in Slips /\ new.at = at /\ at # 0
  BY <1>1, <1>2, InvMeans, ClosingAssumption, DaysInOrder DEF Slips
<1>4. /\ posting' = [posting EXCEPT ![e] = new] /\ Add(Worth(new) - Worth(p))
      /\ UNCHANGED <<clock, closing, position, dayLock, call>>
      /\ occurred' = occurred \cup PostedEvents({p.at, at} \ {0}) \cup
            (IF Closed(at) \/ (p.at # 0 /\ Closed(p.at)) THEN {"entry in closed period"} ELSE {})
  BY <1>1, <1>2 DEF PostEntry
<1>5. ASSUME occurred' \cap Leaks = {}, closing # <<>>
      PROVE  Within(new, 1, Latest.end) = Within(p, 1, Latest.end)
  <2>1. Latest.end \in Int
    <3>1. LatestOf(closing) \in Figures
      BY <1>5, InvMeans, LatestTyped
    <3> QED BY <3>1, FiguresAre, Meanings
  <2>2. ~Closed(at) /\ (p.at = 0 \/ ~Closed(p.at))
    BY <1>4, <1>5, Zenon DEF Leaks
  <2>3. ASSUME NEW s \in Slips, s.at = 0 \/ ~Closed(s.at) PROVE Within(s, 1, Latest.end) = 0
    <3>1. CASE s = NoPosting
      BY <2>1, <3>1, SlipCounts
    <3>2. CASE s # NoPosting
      <4>1. s.at \in Instants
        BY <2>1, <3>2, SlipCounts
      <4>2. s.at \in Nat \ {0}
        BY <4>1, DaysInOrder
      <4>3. Latest.end < s.at
        BY <1>5, <2>1, <2>3, <4>2 DEF Closed
      <4> QED BY <2>1, <4>3, SlipCounts
    <3> QED BY <3>1, <3>2
  <2>4. Within(new, 1, Latest.end) = 0 /\ Within(p, 1, Latest.end) = 0
    BY <1>3, <2>2, <2>3
  <2> QED BY <2>4
<1>6. DOMAIN call' = Actors /\ \A b \in Actors : call'[b] = call[b] \/ call'[b] = Quiet
  BY <1>4 DEF ClosingInv, ClosingTyped, CallsTyped
<1>7. /\ Add(Worth(new) - Worth(posting[e]))
      /\ occurred \cup PostedEvents({posting[e].at, new.at} \ {0}) \subseteq occurred'
  BY <1>2, <1>3, <1>4, Zenon
<1>8. occurred' \cap Leaks = {} /\ closing # <<>> => Within(new, 1, Latest.end) = Within(posting[e], 1, Latest.end)
  BY <1>2, <1>5
<1> QED BY <1>3, <1>4, <1>6, <1>7, <1>8, SlipChanges
\* A closing not older than the latest is of its day or a later one.
LEMMA DayOfLatest ==
    ASSUME ClosingInv, closing # <<>>
    PROVE  /\ LatestOf(closing) \in Figures /\ Dated(LatestOf(closing))
           /\ \A c \in Figures : Dated(c) /\ LatestOf(closing).end <= c.end => LatestOf(closing).day <= c.day
<1>1. PICK i \in DOMAIN closing : LatestOf(closing) = closing[i]
  BY InvMeans, LatestTyped
<1>2. Dated(LatestOf(closing)) /\ LatestOf(closing) \in Figures
  BY <1>1 DEF ClosingInv, ClosingTyped, ClosingsTyped, Dated
<1>3. ASSUME NEW c \in Figures, Dated(c), LatestOf(closing).end <= c.end PROVE LatestOf(closing).day <= c.day
  <2>1. LatestOf(closing).end \in Nat \ {0} /\ c.end \in Nat \ {0}
    BY <1>2, FiguresAre
  <2>2. DayOf(LatestOf(closing).end) <= DayOf(c.end)
    BY <1>3, <2>1, DaysInOrder
  <2> QED BY <1>2, <1>3, <2>2 DEF Dated
<1> QED BY <1>2, <1>3

LEMMA Appended ==
    ASSUME NEW q \in Seq(Figures), NEW c \in Figures, NEW i \in DOMAIN Append(q, c)
    PROVE  Append(q, c)[i] = c \/ (i \in DOMAIN q /\ Append(q, c)[i] = q[i])
<1>1. Len(q) \in Nat /\ DOMAIN Append(q, c) = 1..(Len(q) + 1) /\ DOMAIN q = 1..Len(q)
  BY SeqFinite
<1>2. i = Len(q) + 1 \/ i \in DOMAIN q
  BY <1>1
<1> QED BY <1>1, <1>2

\* A closing is written: it becomes the latest, with what it sealed.
LEMMA WriteClosingKeeps == ASSUME ClosingInv, NEW a \in Actors, WriteClosing(a) PROVE ClosingInv'
<1>1. PICK c : c = call[a].figures
  OBVIOUS
<1>2. /\ call[a].step = "closing" /\ Unchanged(a, c.difference)
      /\ closing' = Append(closing, c) /\ Add(c.difference)
      /\ call' = [call EXCEPT ![a] = Quiet]
      /\ UNCHANGED <<clock, posting, position, dayLock>>
      /\ occurred' = occurred
            \cup (IF c.later # 0 THEN {"later movements"} ELSE {})
            \cup (IF closing # <<>> /\ Latest.end > c.end THEN {"closings crossed"} ELSE {})
            \cup (IF c.sealed = TransactionSum(0, c.end) + c.difference THEN {}
                  ELSE IF c.difference = 0 THEN {"closed over a change"}
                  ELSE IF call[a].rev = stored.rev THEN {"date moved"} ELSE {})
  BY <1>1 DEF WriteClosing
<1>3. c \in Figures /\ Dated(c) /\ call[a].rev # 0 /\ DOMAIN call = Actors
  <2>1. CallTyped(call[a]) /\ DOMAIN call = Actors
    BY DEF ClosingInv, ClosingTyped, CallsTyped
  <2> QED BY <1>1, <1>2, <2>1 DEF CallTyped, Dated
<1>4. /\ c.end \in Nat \ {0} /\ c.difference \in Int /\ c.sealed \in Int /\ c.final \in Int /\ c.later \in Int
      /\ c.day \in Nat
  BY <1>3, FiguresAre
<1>5. posting \in [Postings -> Slips] /\ closing \in Seq(Figures) /\ closing' \in Seq(Figures) /\ closing' # <<>>
  BY <1>2, <1>3, InvMeans, LatestAppended
<1>6. /\ stored' \in [balance : Int, rev : Nat \ {0}]
      /\ stored'.balance = stored.balance + c.difference
      /\ stored.rev <= stored'.rev /\ stored.rev \in Nat
      /\ c.difference # 0 => stored.rev < stored'.rev
      /\ stored' = stored \/ stored.rev < stored'.rev
  BY <1>2, <1>4, AddMoves
<1>7. /\ SumOf(posting, closing', 0, LastInstant) = SumOf(posting, closing, 0, LastInstant) + c.difference
      /\ SumOf(posting, closing', 0, c.end) = SumOf(posting, closing, 0, c.end) + c.difference
  <2>1. PICK p, q : p = posting /\ q = closing
    OBVIOUS
  <2>2. /\ SumOf(p, Append(q, c), 0, LastInstant) = SumOf(p, q, 0, LastInstant) + c.difference
        /\ SumOf(p, Append(q, c), 0, c.end) = SumOf(p, q, 0, c.end) + c.difference
    BY <1>3, <1>5, <2>1, SumOfAppend
  <2> QED BY <1>2, <2>1, <2>2
<1>8. CallsRemain
  BY <1>2, <1>3, <1>6 DEF CallsRemain
<1>9. ClosingTyped'
  <2>1. CallsTyped'
    BY <1>8, CallsRemainTyped
  <2>2. PostingsTyped' /\ BoardTyped'
    BY <1>2, <1>6, Zenon DEF ClosingInv, ClosingTyped, PostingsTyped, BoardTyped
  <2>3. ClosingsTyped'
    <3>1. ASSUME NEW i \in DOMAIN closing' PROVE Dated(closing'[i])
      <4>1. closing'[i] = c \/ (i \in DOMAIN closing /\ closing'[i] = closing[i])
        <5>1. PICK q, k : q = closing /\ k = i
          OBVIOUS
        <5>2. q \in Seq(Figures) /\ k \in DOMAIN Append(q, c)
          BY <1>2, <1>5, <5>1
        <5>3. Append(q, c)[k] = c \/ (k \in DOMAIN q /\ Append(q, c)[k] = q[k])
          BY <1>3, <5>2, Appended
        <5> QED BY <1>2, <5>1, <5>3
      <4>2. CASE i \in DOMAIN closing /\ closing'[i] = closing[i]
        BY <4>2 DEF ClosingInv, ClosingTyped, ClosingsTyped
      <4>3. CASE closing'[i] = c
        BY <1>3, <4>3
      <4> QED BY <4>1, <4>2, <4>3
    <3>2. \A i \in DOMAIN closing' : Dated(closing[i])'
      BY <1>2, <3>1 DEF Dated
    <3> QED BY <1>5, <3>2 DEF ClosingsTyped
  <2> QED BY <2>1, <2>2, <2>3 DEF ClosingTyped
<1>10. stored'.balance = Opening + SumOf(posting', closing', 0, LastInstant)
  <2>1. SumOf(posting, closing, 0, LastInstant) \in Int /\ Opening \in Int
    <3>1. 0 \in Int /\ LastInstant \in Int
      BY ClosingAssumption
    <3> QED BY <1>5, <3>1, SumOfType, ClosingAssumption
  <2>2. stored.balance = Opening + SumOf(posting, closing, 0, LastInstant)
    BY InvMeans
  <2>3. SumOf(posting', closing', 0, LastInstant) = SumOf(posting, closing', 0, LastInstant)
    BY <1>2
  <2> QED BY <1>4, <1>6, <1>7, <2>1, <2>2, <2>3
\* The latest closing afterwards: the new one, or the same one as before.
<1>11. /\ closing = <<>> \/ LatestOf(closing).day <= c.day => LatestOf(closing') = c
       /\ closing # <<>> /\ c.day < LatestOf(closing).day => LatestOf(closing') = LatestOf(closing)
  BY <1>2, <1>3, <1>5, LatestAppended
<1>12. LatestOf(closing') = c \/ (closing # <<>> /\ LatestOf(closing') = LatestOf(closing))
  <2>1. closing # <<>> => LatestOf(closing).day \in Nat
    BY DayOfLatest, FiguresAre
  <2> QED BY <1>4, <1>11, <2>1
<1>13. Guarded'
  <2>1. ASSUME NEW b \in Actors PROVE GuardedCall(call[b])'
    <3>1. GuardedCall(call[b]) /\ call[b].rev \in Nat /\ call[b].rev <= stored.rev /\ stored'.rev \in Nat
      BY <1>6 DEF ClosingInv, Guarded, ClosingTyped, CallsTyped, CallTyped
    <3>2. CASE call'[b] = Quiet
      BY <3>2, QuietIs DEF GuardedCall
    <3>3. CASE call'[b] = call[b] /\ c.difference # 0
      <4>1. call'[b].rev < stored'.rev
        BY <1>6, <3>1, <3>3
      <4> QED BY <4>1 DEF GuardedCall
    <3>4. CASE call'[b] = call[b] /\ c.difference = 0
      <4>1. CASE LatestOf(closing') = c
        <5>1. Latest'.difference = 0
          BY <3>4, <4>1, MeaningsNext
        <5> QED BY <5>1 DEF GuardedCall
      <4>2. CASE closing # <<>> /\ LatestOf(closing') = LatestOf(closing)
        <5>1. Latest' = Latest /\ \A at : Closed(at)' <=> Closed(at)
          BY <1>5, <4>2, Meanings, MeaningsNext, Zenon DEF ClosedIn
        <5>2. call[b].rev < stored.rev => call'[b].rev < stored'.rev
          BY <1>6, <3>1, <3>4
        <5> QED BY <3>1, <3>4, <5>1, <5>2, Zenon DEF GuardedCall, DateChecked
      <4> QED BY <1>12, <4>1, <4>2
    <3> QED BY <1>8, <3>2, <3>3, <3>4 DEF CallsRemain
  <2> QED BY <2>1 DEF Guarded
<1>14. occurred' \cap ChainEvents = {} => \A b \in Actors : ChainedCall(call'[b]) /\ ExpectsCall(call[b])'
  <2>1. occurred \subseteq occurred'
    BY <1>2, Zenon
  <2> QED BY <1>6, <1>8, <2>1, CallsRemainChained
\* Without an event, the new closing is the latest and was made over what it sealed.
<1>15. ASSUME occurred' \cap Leaks = {}
       PROVE  LatestOf(closing') = c /\ c.sealed = SumOf(posting, closing, 0, c.end) + c.difference
  <2>1. ~(closing # <<>> /\ Latest.end > c.end)
    BY <1>2, <1>15, Zenon DEF Leaks
  <2>2. LatestOf(closing') = c
    <3>1. CASE closing = <<>>
      BY <1>11, <3>1
    <3>2. CASE closing # <<>>
      <4>1. Latest.end \in Nat /\ LatestOf(closing).end <= c.end
        <5>1. LatestOf(closing).end \in Nat
          BY <3>2, DayOfLatest, FiguresAre
        <5> QED BY <1>4, <2>1, <3>2, <5>1, Meanings
      <4> QED BY <1>3, <1>11, <3>2, <4>1, DayOfLatest
    <3> QED BY <3>1, <3>2
  <2>3. c.sealed = TransactionSum(0, c.end) + c.difference
    <3>1. SUFFICES ASSUME c.sealed # TransactionSum(0, c.end) + c.difference PROVE FALSE
      OBVIOUS
    <3>2. c.difference # 0 /\ call[a].rev # stored.rev
      BY <1>2, <1>15, <3>1, Zenon DEF Leaks
    <3>3. call[a].rev \in {0, stored.rev}
      <4>1. PICK d : d = c.difference
        OBVIOUS
      <4>2. Unchanged(a, d) /\ d # 0
        BY <1>2, <3>2, <4>1
      <4> QED BY <4>2 DEF Unchanged
    <3> QED BY <1>3, <3>2, <3>3
  <2> QED BY <2>2, <2>3, Meanings
<1>16. ASSUME occurred' \cap Leaks = {} PROVE KeptIn(posting', closing')
  BY <1>2, <1>7, <1>15, <1>16 DEF KeptIn
<1>17. ASSUME occurred' \cap ChainEvents = {}
       PROVE  closing' # <<>> => LatestOf(closing').final = Opening + LatestOf(closing').sealed
  <2>1. LatestOf(closing') = c
    BY <1>15, <1>17 DEF ChainEvents
  <2>2. c.later = 0
    BY <1>2, <1>17, Zenon DEF ChainEvents
  <2>3. ChainedCall(call[a])
    <3>1. occurred \cap ChainEvents = {}
      BY <1>2, <1>17, Zenon
    <3> QED BY <3>1, InvMeans
  <2>4. c.final = Opening + c.sealed + c.later
    BY <1>1, <1>2, <2>3 DEF ChainedCall
  <2>5. Opening \in Int
    BY ClosingAssumption
  <2> QED BY <1>4, <2>1, <2>2, <2>4, <2>5
<1>18. occurred' \cap BoardEvents = {} => \A day \in Days : FrozenOn(posting', position', dayLock', day)
  <2>1. occurred' \cap BoardEvents = {} => occurred \cap BoardEvents = {}
    BY <1>2, Zenon
  <2> QED BY <1>2, <2>1, InvMeans
<1> QED BY <1>9, <1>10, <1>13, <1>14, <1>16, <1>17, <1>18, InvNext
------------------------------------------------------------------------------
(* The board.                                                                 *)

\* A step of the board leaves the account alone.
LEMMA BoardChanges ==
    ASSUME ClosingInv, UNCHANGED <<clock, posting, stored, closing>>, DOMAIN call' = Actors,
           \A b \in Actors : call'[b] = call[b] \/ call'[b] = Quiet,
           occurred \subseteq occurred', BoardTyped',
           occurred' \cap BoardEvents = {} => \A day \in Days : FrozenOn(posting', position', dayLock', day)
    PROVE  ClosingInv'
<1>1. CallsRemain /\ stored' = stored
  <2>1. stored.rev \in Nat
    BY DEF ClosingInv, ClosingTyped, PostingsTyped
  <2> QED BY <2>1 DEF CallsRemain
<1>2. ClosingTyped'
  <2>1. CallsTyped'
    BY <1>1, CallsRemainTyped
  <2>2. PostingsTyped' /\ ClosingsTyped'
    BY Zenon DEF ClosingInv, ClosingTyped, PostingsTyped, ClosingsTyped, Dated
  <2> QED BY <2>1, <2>2 DEF ClosingTyped
<1>3. Guarded'
  BY <1>1, CallsRemainGuarded
<1>4. occurred' \cap ChainEvents = {} => \A a \in Actors : ChainedCall(call'[a]) /\ ExpectsCall(call[a])'
  BY <1>1, CallsRemainChained
<1>5. /\ occurred' \cap Leaks = {} => occurred \cap Leaks = {}
      /\ occurred' \cap ChainEvents = {} => occurred \cap ChainEvents = {}
  BY Zenon
<1>6. /\ stored'.balance = Opening + SumOf(posting', closing', 0, LastInstant)
      /\ occurred' \cap Leaks = {} => KeptIn(posting', closing')
      /\ occurred' \cap ChainEvents = {} =>
            (closing' # <<>> => LatestOf(closing').final = Opening + LatestOf(closing').sealed)
  BY <1>5, InvMeans
<1> QED BY <1>2, <1>3, <1>4, <1>6, InvNext

\* A locked day stays as it was frozen when only a day that is not locked, or a
\* day with no locked day after it, changes on the board.
LEMMA OthersFrozen ==
    ASSUME ClosingInv, posting' = posting, NEW day \in Days, NEW d \in Days, d # day,
           DOMAIN position = Days, \A x \in Days \ {day} : position'[x] = position[x] /\ dayLock'[x] = dayLock[x],
           \/ ~position[d].locked \/ d < day
           \/ ~position[day].locked /\ ~position'[day].locked,
           FrozenOn(posting, position, dayLock, d)
    PROVE  FrozenOn(posting', position', dayLock', d)
<1>1. position'[d] = position[d] /\ dayLock'[d] = dayLock[d] /\ day \in Nat /\ d \in Nat
  BY DaysInOrder
<1>2. CASE ~position[d].locked
  BY <1>1, <1>2 DEF FrozenOn
<1>3. CASE position[d].locked
  <2>1. PICK p, pos, pos2 : p = posting /\ pos = position /\ pos2 = position'
    OBVIOUS
  <2>2. p \in [Postings -> Slips]
    BY <2>1, InvMeans
  <2>3. \A x \in Days : pos[x].locked \in BOOLEAN
    BY <2>1 DEF ClosingInv, ClosingTyped, BoardTyped
  <2>4. ASSUME NEW x \in Days, x < d
        PROVE  \/ pos2[x].locked = pos[x].locked /\ (pos[x].locked => pos2[x].counted = pos[x].counted)
               \/ (x = day /\ ~pos[day].locked /\ ~pos2[day].locked)
    <3>1. CASE x # day
      BY <2>1, <3>1
    <3>2. CASE x = day
      <4>1. ~(d < day)
        BY <1>1, <2>4, <3>2
      <4> QED BY <1>3, <2>1, <3>2, <4>1
    <3> QED BY <3>1, <3>2
  <2>5. LockedEarlier(pos2, d) = LockedEarlier(pos, d)
    BY <2>4, Zenon DEF LockedEarlier
  <2>6. \A x \in LockedEarlier(pos, d) : pos2[x].counted = pos[x].counted
    BY <2>4, Zenon DEF LockedEarlier
  <2>7. OpeningFrom(p, pos2, d) = OpeningFrom(p, pos, d)
    <3>1. CASE LockedEarlier(pos, d) = {}
      BY <2>5, <3>1 DEF OpeningFrom
    <3>2. CASE LockedEarlier(pos, d) # {}
      <4>1. Max(LockedEarlier(pos, d)) \in LockedEarlier(pos, d)
        <5>1. PICK last : last = Max(LockedEarlier(pos, d))
          OBVIOUS
        <5>2. last \in Days /\ pos[last].locked /\ last < d
          BY <3>2, <5>1, LastLocked
        <5> QED BY <5>1, <5>2 DEF LockedEarlier
      <4>2. pos2[Max(LockedEarlier(pos, d))].counted = pos[Max(LockedEarlier(pos, d))].counted
        BY <2>6, <4>1
      <4> QED BY <2>5, <3>2, <4>2 DEF OpeningFrom
    <3> QED BY <3>1, <3>2
  <2>8. ExpectedFrom(posting', position', d) = ExpectedFrom(posting, position, d)
    BY <2>1, <2>7 DEF ExpectedFrom
  <2> QED BY <1>1, <2>8 DEF FrozenOn
<1> QED BY <1>2, <1>3

\* Counting a day that is not locked.
LEMMA CountKeeps ==
    ASSUME ClosingInv, NEW day \in Days,
           (\E n \in Counts : SaveCount(day, n)) \/ DeleteCount(day)
    PROVE  ClosingInv'
<1>1. PICK r : /\ r \in [counted : Totals, expected : Totals, locked : BOOLEAN]
               /\ position' = [position EXCEPT ![day] = r]
               /\ r.locked => position[day].locked /\ r.counted \in Int
               /\ UNCHANGED <<clock, posting, stored, closing, dayLock, call>>
               /\ occurred' = occurred \cup (IF position[day].locked THEN {"recounted"} ELSE {})
  <2>1. position[day] \in [counted : Totals, expected : Totals, locked : BOOLEAN]
        /\ position \in [Days -> [counted : Totals, expected : Totals, locked : BOOLEAN]]
    BY DEF ClosingInv, ClosingTyped, BoardTyped
  <2>2. CASE \E n \in Counts : SaveCount(day, n)
    <3>1. PICK n \in Counts : SaveCount(day, n)
      BY <2>2
    <3>2. n \in Int
      BY ClosingAssumption
    <3> DEFINE r == [position[day] EXCEPT !.counted = n]
    <3>3. r \in [counted : Totals, expected : Totals, locked : BOOLEAN] /\ r.locked = position[day].locked
          /\ r.counted = n
      BY <2>1, <3>2 DEF Totals
    <3>4. position' = [position EXCEPT ![day] = r]
      BY <2>1, <3>1 DEF SaveCount
    <3> QED BY <3>1, <3>2, <3>3, <3>4 DEF SaveCount
  <2>3. CASE DeleteCount(day)
    <3>1. Open \in [counted : Totals, expected : Totals, locked : BOOLEAN] /\ ~Open.locked
      BY DEF Open, Totals
    <3> QED BY <2>3, <3>1 DEF DeleteCount
  <2> QED BY <2>2, <2>3
<1>2. position \in [Days -> [counted : Totals, expected : Totals, locked : BOOLEAN]] /\ DOMAIN position = Days
      /\ dayLock \in [Days -> Totals]
  BY DEF ClosingInv, ClosingTyped, BoardTyped
<1>3. BoardTyped'
  <2>1. position' \in [Days -> [counted : Totals, expected : Totals, locked : BOOLEAN]]
    BY <1>1, <1>2
  <2>2. ASSUME NEW d \in Days, position'[d].locked PROVE position'[d].counted \in Int
    <3>1. CASE d = day
      BY <1>1, <1>2, <2>2, <3>1
    <3>2. CASE d # day
      <4>1. position'[d] = position[d]
        BY <1>1, <1>2, <3>2
      <4> QED BY <2>2, <4>1 DEF ClosingInv, ClosingTyped, BoardTyped
    <3> QED BY <3>1, <3>2
  <2> QED BY <1>1, <1>2, <2>1, <2>2 DEF BoardTyped
<1>4. ASSUME occurred' \cap BoardEvents = {}, NEW d \in Days PROVE FrozenOn(posting', position', dayLock', d)
  <2>1. ~position[day].locked /\ occurred \cap BoardEvents = {}
    BY <1>1, <1>4, Zenon DEF BoardEvents
  <2>2. FrozenOn(posting, position, dayLock, d)
    BY <2>1, InvMeans
  <2>3. position'[day] = r /\ ~r.locked /\ \A x \in Days \ {day} : position'[x] = position[x] /\ dayLock'[x] = dayLock[x]
    BY <1>1, <1>2, <2>1
  <2>4. CASE d = day
    <3>1. r.locked = FALSE /\ position[day].locked = FALSE
      <4>1. r.locked \in BOOLEAN /\ position[day].locked \in BOOLEAN
        BY <1>1, <1>2
      <4> QED BY <2>1, <2>3, <4>1
    <3>2. dayLock' = dayLock /\ position'[day].locked = FALSE
      BY <1>1, <2>3, <3>1
    <3>3. dayLock[day] = Uncounted
      BY <2>2, <2>4, <3>1 DEF FrozenOn
    <3> QED BY <2>4, <3>2, <3>3, Zenon DEF FrozenOn
  <2>5. CASE d # day
    BY <1>1, <1>2, <2>1, <2>2, <2>3, <2>5, OthersFrozen
  <2> QED BY <2>4, <2>5
<1>5. /\ UNCHANGED <<clock, posting, stored, closing>> /\ DOMAIN call' = Actors
      /\ \A b \in Actors : call'[b] = call[b] \/ call'[b] = Quiet
      /\ occurred \subseteq occurred'
  BY <1>1, Zenon DEF ClosingInv, ClosingTyped, CallsTyped
<1> QED BY <1>3, <1>4, <1>5, BoardChanges

\* Unlocking a day that has no locked day after it.
LEMMA UnlockKeeps == ASSUME ClosingInv, NEW day \in Days, UnlockDay(day) PROVE ClosingInv'
<1>1. position \in [Days -> [counted : Totals, expected : Totals, locked : BOOLEAN]] /\ DOMAIN position = Days
      /\ dayLock \in [Days -> Totals]
  BY DEF ClosingInv, ClosingTyped, BoardTyped
<1>2. /\ position' = [position EXCEPT ![day].locked = FALSE]
      /\ dayLock' = [dayLock EXCEPT ![day] = Uncounted]
      /\ UNCHANGED <<clock, posting, stored, closing, call>>
      /\ occurred' = occurred \cup CarriedEvents(day)
  BY DEF UnlockDay
<1>3. /\ position'[day].locked = FALSE /\ dayLock'[day] = Uncounted
      /\ \A x \in Days \ {day} : position'[x] = position[x] /\ dayLock'[x] = dayLock[x]
  BY <1>1, <1>2
<1>4. BoardTyped'
  <2>1. position' \in [Days -> [counted : Totals, expected : Totals, locked : BOOLEAN]]
        /\ dayLock' \in [Days -> Totals]
    BY <1>1, <1>2 DEF Totals
  <2>2. ASSUME NEW d \in Days, position'[d].locked PROVE position'[d].counted \in Int
    <3>1. position'[d] = position[d]
      BY <1>3, <2>2
    <3> QED BY <2>2, <3>1 DEF ClosingInv, ClosingTyped, BoardTyped
  <2> QED BY <2>1, <2>2 DEF BoardTyped
<1>5. ASSUME occurred' \cap BoardEvents = {}, NEW d \in Days PROVE FrozenOn(posting', position', dayLock', d)
  <2>1. occurred \cap BoardEvents = {} /\ ~\E x \in Days : x > day /\ position[x].locked
    BY <1>2, <1>5, Zenon DEF BoardEvents, CarriedEvents
  <2>2. FrozenOn(posting, position, dayLock, d)
    BY <2>1, InvMeans
  <2>3. CASE d = day
    BY <1>3, <2>3, Zenon DEF FrozenOn
  <2>4. CASE d # day
    <3>1. ~position[d].locked \/ d < day
      <4>1. d \in Nat /\ day \in Nat
        BY DaysInOrder
      <4> QED BY <2>1, <2>4, <4>1
    <3> QED BY <1>1, <1>2, <1>3, <2>2, <2>4, <3>1, OthersFrozen
  <2> QED BY <2>3, <2>4
<1>6. /\ DOMAIN call' = Actors /\ \A b \in Actors : call'[b] = call[b] \/ call'[b] = Quiet
      /\ occurred \subseteq occurred'
  BY <1>2, Zenon DEF ClosingInv, ClosingTyped, CallsTyped
<1> QED BY <1>2, <1>4, <1>5, <1>6, BoardChanges

\* Locking the day that was read, with no locked day after it.
LEMMA LockKeeps == ASSUME ClosingInv, NEW a \in Actors, LockDay(a) PROVE ClosingInv'
<1>1. PICK c : c = call[a].figures
  OBVIOUS
<1>2. PICK r : r = [counted |-> c.counted, expected |-> c.expected, locked |-> TRUE]
  OBVIOUS
<1>3. /\ position' = [position EXCEPT ![c.day] = r]
      /\ dayLock' = [dayLock EXCEPT ![c.day] = c.counted]
      /\ call' = [call EXCEPT ![a] = Quiet]
      /\ UNCHANGED <<clock, posting, stored, closing>>
      /\ occurred' = occurred \cup CarriedEvents(c.day)
           \cup (IF <<c.expected, c.was>> # <<Expected(c.day), position[c.day].counted>> THEN {"board raced"} ELSE {})
  BY <1>1, <1>2 DEF LockDay
<1>4. c \in Readings
  <2>1. CallTyped(call[a]) /\ call[a].step = "locking"
    BY DEF ClosingInv, ClosingTyped, CallsTyped, LockDay
  <2> QED BY <1>1, <2>1 DEF CallTyped
<1>5. c.day \in Days /\ c.counted \in Int /\ c.expected \in Int /\ c.counted # Uncounted
  BY <1>4, ClosingAssumption DEF Readings
<1>6. position \in [Days -> [counted : Totals, expected : Totals, locked : BOOLEAN]] /\ DOMAIN position = Days
      /\ dayLock \in [Days -> Totals]
  BY DEF ClosingInv, ClosingTyped, BoardTyped
<1>7. /\ position'[c.day] = r /\ r.locked = TRUE /\ r.counted = c.counted /\ r.expected = c.expected
      /\ dayLock'[c.day] = c.counted
      /\ \A x \in Days \ {c.day} : position'[x] = position[x] /\ dayLock'[x] = dayLock[x]
  BY <1>2, <1>3, <1>5, <1>6
<1>8. BoardTyped'
  <2>1. r \in [counted : Totals, expected : Totals, locked : BOOLEAN] /\ c.counted \in Totals
    BY <1>2, <1>5 DEF Totals
  <2>2. position' \in [Days -> [counted : Totals, expected : Totals, locked : BOOLEAN]]
        /\ dayLock' \in [Days -> Totals]
    BY <1>3, <1>5, <1>6, <2>1
  <2>3. ASSUME NEW d \in Days, position'[d].locked PROVE position'[d].counted \in Int
    <3>1. CASE d = c.day
      BY <1>5, <1>7, <3>1
    <3>2. CASE d # c.day
      BY <1>7, <2>3, <3>2 DEF ClosingInv, ClosingTyped, BoardTyped
    <3> QED BY <3>1, <3>2
  <2> QED BY <2>2, <2>3 DEF BoardTyped
<1>9. ASSUME occurred' \cap BoardEvents = {}, NEW d \in Days PROVE FrozenOn(posting', position', dayLock', d)
  <2>1. /\ occurred \cap BoardEvents = {} /\ ~\E x \in Days : x > c.day /\ position[x].locked
        /\ c.expected = Expected(c.day)
    BY <1>3, <1>9, Zenon DEF BoardEvents, CarriedEvents
  <2>2. FrozenOn(posting, position, dayLock, d)
    BY <2>1, InvMeans
  <2>3. CASE d = c.day
    <3>1. LockedEarlier(position', d) = LockedEarlier(position, d)
      <4>1. \A x \in Days : x < d => x # c.day
        BY <1>5, <2>3, DaysInOrder
      <4> QED BY <1>7, <4>1, Zenon DEF LockedEarlier
    <3>2. LockedEarlier(position, d) # {} =>
             position'[Max(LockedEarlier(position, d))].counted = position[Max(LockedEarlier(position, d))].counted
      <4>1. SUFFICES ASSUME LockedEarlier(position, d) # {}
                     PROVE  position'[Max(LockedEarlier(position, d))] = position[Max(LockedEarlier(position, d))]
        OBVIOUS
      <4>2. PICK x : x = Max(LockedEarlier(position, d))
        OBVIOUS
      <4>3. x \in Days /\ x < d
        <5>1. PICK pos : pos = position
          OBVIOUS
        <5> QED BY <4>1, <4>2, <5>1, LastLocked
      <4>4. x # c.day
        BY <1>5, <2>3, <4>3, DaysInOrder
      <4> QED BY <1>7, <4>2, <4>3, <4>4
    <3>3. ExpectedFrom(posting', position', d) = ExpectedFrom(posting, position, d)
      <4>1. PICK p, pos, pos2 : p = posting /\ pos = position /\ pos2 = position'
        OBVIOUS
      <4>2. LockedEarlier(pos2, d) = LockedEarlier(pos, d)
        BY <3>1, <4>1
      <4>3. OpeningFrom(p, pos2, d) = OpeningFrom(p, pos, d)
        BY <3>2, <4>1, <4>2 DEF OpeningFrom
      <4> QED BY <1>3, <4>1, <4>3 DEF ExpectedFrom
    <3>4. c.expected = ExpectedFrom(posting, position, d)
      BY <2>1, <2>3, Meanings
    <3> QED BY <1>5, <1>7, <2>3, <3>3, <3>4 DEF FrozenOn
  <2>4. CASE d # c.day
    <3>1. ~position[d].locked \/ d < c.day
      <4>1. d \in Nat /\ c.day \in Nat
        BY <1>5, DaysInOrder
      <4> QED BY <2>1, <2>4, <4>1
    <3>2. PICK day \in Days : day = c.day
      BY <1>5
    <3> QED BY <1>3, <1>6, <1>7, <2>2, <2>4, <3>1, <3>2, OthersFrozen
  <2> QED BY <2>3, <2>4
<1>10. /\ DOMAIN call' = Actors /\ \A b \in Actors : call'[b] = call[b] \/ call'[b] = Quiet
       /\ occurred \subseteq occurred'
  BY <1>3, Zenon DEF ClosingInv, ClosingTyped, CallsTyped
<1> QED BY <1>3, <1>8, <1>9, <1>10, BoardChanges
------------------------------------------------------------------------------
(* What requests read.                                                        *)

LEMMA CheckPaymentKeeps ==
    ASSUME ClosingInv, NEW a \in Actors, NEW e \in Postings, NEW at \in Instants, NEW net \in Nets,
           CheckPayment(a, e, at, net)
    PROVE  ClosingInv'
<1>1. PICK new : new = [kind |-> "payment", at |-> at, net |-> net, live |-> TRUE]
  OBVIOUS
<1>2. PICK c : c = [Quiet EXCEPT !.step = "payment", !.e = e, !.rev = stored.rev, !.new = new]
  OBVIOUS
<1>3. call' = [call EXCEPT ![a] = c] /\ UNCHANGED <<clock, posting, stored, closing, position, dayLock, occurred>>
  BY <1>1, <1>2 DEF CheckPayment, Start
<1>4. c.step = "payment" /\ c.e = e /\ c.rev = stored.rev /\ c.was = NoPosting /\ c.new = new
  BY <1>2 DEF Quiet
<1>5. new \in Slips /\ new.kind = "payment" /\ new.live = TRUE /\ new.net # 0 /\ new.at = at /\ net \in Int
  BY <1>1, ClosingAssumption DEF Slips
<1>6. stored.rev \in Nat \ {0}
  BY DEF ClosingInv, ClosingTyped, PostingsTyped
<1>7. CallTyped(c)
  <2>1. NoPosting \in Slips
    BY DEF Slips
  <2> QED BY <1>4, <1>5, <1>6, <2>1 DEF CallTyped, PaymentTyped, Making
<1>8. GuardedCall(c)
  <2>1. ~Closed(at)
    BY DEF CheckPayment
  <2> QED BY <1>4, <1>5, <2>1 DEF GuardedCall, DateChecked
<1>9. ChainedCall(c) /\ ExpectsCall(c)
  BY <1>4 DEF ChainedCall, ExpectsCall
<1> QED BY <1>3, <1>7, <1>8, <1>9, CallChanges

LEMMA CheckEditKeeps ==
    ASSUME ClosingInv, NEW a \in Actors, NEW e \in Postings, NEW at \in Instants, NEW net \in Nets,
           CheckEdit(a, e, at, net)
    PROVE  ClosingInv'
<1>1. PICK p, new : p = posting[e] /\ new = [p EXCEPT !.at = at, !.net = net]
  OBVIOUS
<1>2. PICK c : c = [Quiet EXCEPT !.step = "payment", !.e = e, !.rev = stored.rev, !.was = p, !.new = new]
  OBVIOUS
<1>3. /\ call' = [call EXCEPT ![a] = c] /\ UNCHANGED <<clock, posting, stored, closing, position, dayLock, occurred>>
      /\ p.kind = "payment" /\ p.live /\ new # p /\ ~Closed(p.at)
  BY <1>1, <1>2 DEF CheckEdit, Start
<1>4. c.step = "payment" /\ c.e = e /\ c.rev = stored.rev /\ c.was = p /\ c.new = new
  BY <1>2 DEF Quiet
<1>5. p # NoPosting /\ p \in [kind : {"payment", "entry"}, at : Instants, net : Int, live : BOOLEAN]
  <2>1. p \in Slips
    BY <1>1, InvMeans
  <2>2. p # NoPosting
    BY <1>3 DEF NoPosting
  <2> QED BY <2>1, <2>2 DEF Slips
<1>6. new \in Slips /\ p \in Slips /\ new.at = at /\ new.net = net
  BY <1>1, <1>5, ClosingAssumption DEF Slips
<1>7. stored.rev \in Nat \ {0}
  BY DEF ClosingInv, ClosingTyped, PostingsTyped
<1>8. CallTyped(c)
  <2>1. Editing(c)
    BY <1>1, <1>3, <1>4, <1>6 DEF Editing
  <2> QED BY <1>4, <1>6, <1>7, <2>1 DEF CallTyped, PaymentTyped
<1>9. GuardedCall(c)
  BY <1>3, <1>4, <1>5 DEF GuardedCall, DateChecked
<1>10. ChainedCall(c) /\ ExpectsCall(c)
  BY <1>4 DEF ChainedCall, ExpectsCall
<1> QED BY <1>3, <1>8, <1>9, <1>10, CallChanges

LEMMA CheckVoidKeeps ==
    ASSUME ClosingInv, NEW a \in Actors, NEW e \in Postings, CheckVoid(a, e)
    PROVE  ClosingInv'
<1>1. PICK p, new : p = posting[e] /\ new = [p EXCEPT !.live = ~p.live]
  OBVIOUS
<1>2. PICK c : c = [Quiet EXCEPT !.step = "payment", !.e = e, !.was = p, !.new = new]
  OBVIOUS
<1>3. /\ call' = [call EXCEPT ![a] = c] /\ UNCHANGED <<clock, posting, stored, closing, position, dayLock, occurred>>
      /\ p.kind = "payment"
  BY <1>1, <1>2 DEF CheckVoid, Start
<1>4. c.step = "payment" /\ c.e = e /\ c.rev = 0 /\ c.was = p /\ c.new = new
  BY <1>2 DEF Quiet
<1>5. p \in [kind : {"payment", "entry"}, at : Instants, net : Int, live : BOOLEAN]
  <2>1. p \in Slips
    BY <1>1, InvMeans
  <2>2. p # NoPosting
    BY <1>3 DEF NoPosting
  <2> QED BY <2>1, <2>2 DEF Slips
<1>6. new \in Slips /\ p \in Slips
  BY <1>1, <1>5 DEF Slips
<1>7. stored.rev \in Nat
  BY DEF ClosingInv, ClosingTyped, PostingsTyped
<1>8. CallTyped(c)
  <2>1. Turning(c)
    BY <1>1, <1>3, <1>4 DEF Turning
  <2> QED BY <1>4, <1>6, <1>7, <2>1 DEF CallTyped, PaymentTyped
<1>9. GuardedCall(c)
  BY <1>4 DEF GuardedCall
<1>10. ChainedCall(c) /\ ExpectsCall(c)
  BY <1>4 DEF ChainedCall, ExpectsCall
<1> QED BY <1>3, <1>8, <1>9, <1>10, CallChanges

LEMMA ReadBoardKeeps ==
    ASSUME ClosingInv, NEW a \in Actors, NEW day \in Days, ReadBoard(a, day)
    PROVE  ClosingInv'
<1>1. PICK g : g = [day |-> day, expected |-> Expected(day), was |-> position[day].counted,
                    counted |-> IF position[day].counted = Uncounted THEN Expected(day) ELSE position[day].counted]
  OBVIOUS
<1>2. PICK c : c = [Quiet EXCEPT !.step = "locking", !.figures = g]
  OBVIOUS
<1>3. call' = [call EXCEPT ![a] = c] /\ UNCHANGED <<clock, posting, stored, closing, position, dayLock, occurred>>
  BY <1>1, <1>2 DEF ReadBoard, Start
<1>4. c.step = "locking" /\ c.rev = 0 /\ c.figures = g
  BY <1>2 DEF Quiet
<1>5. Expected(day) \in Int
  <2>1. PICK p, pos : p = posting /\ pos = position
    OBVIOUS
  <2>2. p \in [Postings -> Slips] /\ \A d \in Days : pos[d].locked => pos[d].counted \in Int
    BY <2>1, InvMeans DEF ClosingInv, ClosingTyped, BoardTyped
  <2>3. ExpectedFrom(p, pos, day) \in Int
    BY <2>2, ExpectedType
  <2> QED BY <2>1, <2>3, Meanings
<1>6. g \in Readings
  <2>1. position[day].counted \in Totals
    BY DEF ClosingInv, ClosingTyped, BoardTyped
  <2>2. PICK x, y : x = Expected(day) /\ y = position[day].counted
    OBVIOUS
  <2>3. g = [day |-> day, expected |-> x, was |-> y, counted |-> IF y = Uncounted THEN x ELSE y]
    BY <1>1, <2>2
  <2>4. x \in Int /\ y \in Int \cup {Uncounted} /\ (IF y = Uncounted THEN x ELSE y) \in Int
    BY <1>5, <2>1, <2>2 DEF Totals
  <2> QED BY <2>3, <2>4 DEF Readings
<1>7. CallTyped(c) /\ GuardedCall(c) /\ ChainedCall(c) /\ ExpectsCall(c)
  <2>1. stored.rev \in Nat
    BY DEF ClosingInv, ClosingTyped, PostingsTyped
  <2> QED BY <1>4, <1>6, <2>1 DEF CallTyped, GuardedCall, ChainedCall, ExpectsCall
<1> QED BY <1>3, <1>7, CallChanges
\* The figures of a closing: what it expects is the balance the account shows, as
\* the latest closing counted the balance of its own period.
LEMMA ReadClosingKeeps ==
    ASSUME ClosingInv, NEW a \in Actors, NEW day \in Days, NEW actual \in Counts, ReadClosing(a, day, actual)
    PROVE  ClosingInv'
<1>1. PICK p, q, g : p = posting /\ q = closing /\ g = NewClosing(day, actual)
  OBVIOUS
<1> DEFINE end == IF day = DayOf(clock) THEN clock ELSE EndOfDay(day)
           before == IF q = <<>> THEN Opening ELSE LatestOf(q).final
           start == IF q = <<>> THEN 0 ELSE LatestOf(q).end
           later == SumOf(p, q, end, LastInstant)
           expected == before + SumOf(p, q, start, end) + later
           sealed == SumOf(p, q, 0, end) + actual - expected
<1>2. g = [day |-> day, end |-> end, expected |-> expected, final |-> actual, difference |-> actual - expected,
           later |-> later, sealed |-> sealed]
  BY <1>1, Meanings, Zenon DEF NewClosing, PeriodStart
<1>3. PICK c : c = [Quiet EXCEPT !.step = "closing", !.rev = stored.rev, !.figures = g]
  OBVIOUS
<1>4. /\ call' = [call EXCEPT ![a] = c] /\ UNCHANGED <<clock, posting, stored, closing, position, dayLock, occurred>>
      /\ day <= DayOf(clock) /\ (q # <<>> => day >= LatestOf(q).day)
  BY <1>1, <1>3, Meanings DEF ReadClosing, Start
<1>5. c.step = "closing" /\ c.rev = stored.rev /\ c.figures = g
  BY <1>3 DEF Quiet
<1>6. /\ p \in [Postings -> Slips] /\ q \in Seq(Figures) /\ stored.rev \in Nat \ {0}
      /\ clock \in Nat \ {0} /\ clock <= LastInstant /\ clock \in Instants /\ actual \in Int /\ Opening \in Int
      /\ LastInstant \in Int
  BY <1>1, InvMeans, DaysInOrder, ClosingAssumption DEF ClosingInv, ClosingTyped, PostingsTyped
<1>7. /\ end \in Instants /\ end \in Int /\ DayOf(end) = day /\ end <= clock /\ 0 <= end /\ end <= LastInstant
  <2>1. CASE day = DayOf(clock)
    BY <1>6, <2>1
  <2>2. CASE day # DayOf(clock)
    <3>1. day \in Nat /\ DayOf(clock) \in Nat /\ day < DayOf(clock)
      BY <1>4, <1>6, <2>2, DaysInOrder, DayFacts
    <3>2. EndOfDay(day) < clock /\ EndOfDay(day) \in Nat \ {0} /\ DayOf(EndOfDay(day)) = day
      BY <1>6, <3>1, DaysInOrder, DayFacts
    <3>3. end = EndOfDay(day)
      BY <2>2
    <3>4. EndOfDay(day) \in Instants
      BY <1>6, <3>2 DEF Instants
    <3> QED BY <1>6, <3>2, <3>3, <3>4
  <2> QED BY <2>1, <2>2
<1>19. end = clock \/ (day # DayOf(clock) /\ end = EndOfDay(day))
  OBVIOUS
<1> HIDE DEF end
\* The period begins no later than it ends.
<1>8. ASSUME q # <<>>
      PROVE  /\ LatestOf(q).end \in Int /\ 0 <= LatestOf(q).end /\ LatestOf(q).end <= end
             /\ LatestOf(q).final \in Int /\ LatestOf(q).sealed \in Int
  <2>1. LatestOf(q) \in Figures /\ Dated(LatestOf(q))
    BY <1>1, <1>8, DayOfLatest
  <2>2. /\ LatestOf(q).end \in Nat \ {0} /\ LatestOf(q).end \in Int /\ LatestOf(q).day \in Nat
        /\ LatestOf(q).final \in Int /\ LatestOf(q).sealed \in Int
    BY <2>1, FiguresAre
  <2>3. DayOf(LatestOf(q).end) = LatestOf(q).day /\ LatestOf(q).end <= clock /\ LatestOf(q).day <= day
    BY <1>4, <1>8, <2>1 DEF Dated
  <2>4. day \in Nat /\ end \in Nat \ {0}
    BY <1>7, DaysInOrder
  <2>5. ASSUME LatestOf(q).day = day PROVE LatestOf(q).end <= end
    <3>1. LatestOf(q).end <= EndOfDay(day)
      BY <2>2, <2>3, <2>5, DayFacts
    <3> QED BY <1>19, <2>3, <3>1
  <2>6. ASSUME LatestOf(q).day < day PROVE LatestOf(q).end <= end
    <3>1. PICK k \in Nat \ {0} : k = end
      BY <2>4
    <3>2. DayOf(k) = day
      BY <1>7, <3>1
    <3>3. EndOfDay(LatestOf(q).day) < k /\ LatestOf(q).end <= EndOfDay(LatestOf(q).day)
          /\ EndOfDay(LatestOf(q).day) \in Nat
      BY <2>2, <2>3, <2>6, <3>2, DaysInOrder, DayFacts
    <3>4. LatestOf(q).end <= k
      BY <2>2, <3>3
    <3> QED BY <3>1, <3>4
  <2>7. LatestOf(q).end <= end
    BY <2>2, <2>3, <2>4, <2>5, <2>6
  <2> QED BY <2>2, <2>7
<1>9. before \in Int /\ start \in Int /\ 0 <= start /\ start <= end
  BY <1>6, <1>7, <1>8
<1>10. later \in Int /\ SumOf(p, q, start, end) \in Int /\ SumOf(p, q, 0, end) \in Int /\ SumOf(p, q, 0, LastInstant) \in Int
  BY <1>6, <1>7, <1>9, SumOfType
<1>11. SumOf(p, q, 0, LastInstant) = SumOf(p, q, 0, end) + later
  BY <1>6, <1>7, SumOfSplit
<1> DEFINE period == SumOf(p, q, start, end)
           held == SumOf(p, q, 0, end)
           all == SumOf(p, q, 0, LastInstant)
<1>12. occurred \cap ChainEvents = {} => before + period = Opening + held
  <2>1. SUFFICES ASSUME occurred \cap ChainEvents = {} PROVE before + period = Opening + held
    OBVIOUS
  <2>2. CASE q = <<>>
    <3>1. before = Opening /\ start = 0
      BY <2>2
    <3> QED BY <3>1
  <2>3. CASE q # <<>>
    <3>1. start = LatestOf(q).end /\ before = LatestOf(q).final
      BY <2>3
    <3>2. LatestOf(q).final = Opening + LatestOf(q).sealed
      BY <1>1, <2>1, <2>3, InvMeans
    <3>3. LatestOf(q).sealed = SumOf(p, q, 0, LatestOf(q).end)
      <4>1. occurred \cap Leaks = {}
        BY <2>1 DEF ChainEvents
      <4> QED BY <1>1, <2>3, <4>1, InvMeans DEF KeptIn
    <3>4. SumOf(p, q, 0, end) = SumOf(p, q, 0, start) + SumOf(p, q, start, end)
      BY <1>6, <1>7, <1>9, SumOfSplit
    <3>5. SumOf(p, q, 0, start) \in Int /\ before = Opening + SumOf(p, q, 0, start)
      BY <1>8, <2>3, <3>1, <3>2, <3>3
    <3> HIDE DEF start, before
    <3> QED BY <1>6, <1>10, <3>4, <3>5
  <2> QED BY <2>2, <2>3
<1> HIDE DEF before, start, later, period, held, all
<1>13. before \in Int /\ period \in Int /\ later \in Int /\ held \in Int /\ all \in Int /\ all = held + later
  BY <1>9, <1>10, <1>11 DEF period, held, all
<1>14. expected = before + period + later /\ sealed = held + actual - expected
  BY DEF period, held
<1> HIDE DEF expected, sealed
<1>15. expected \in Int /\ sealed \in Int
  BY <1>6, <1>13, <1>14
<1>16. CallTyped(c)
  <2>1. g \in Figures
    BY <1>2, <1>6, <1>7, <1>13, <1>15 DEF Figures
  <2>2. Dated(g) /\ g.difference = g.final - g.expected
    BY <1>2, <1>7, <2>1 DEF Dated
  <2> QED BY <1>5, <1>6, <2>2 DEF CallTyped
<1>17. GuardedCall(c)
  BY <1>5 DEF GuardedCall
<1>18. ASSUME occurred \cap ChainEvents = {} PROVE ChainedCall(c) /\ ExpectsCall(c)
  <2>1. g.final = actual /\ g.sealed = sealed /\ g.later = later /\ g.expected = expected
    BY <1>2
  <2>2. expected = Opening + all
    BY <1>6, <1>12, <1>13, <1>14, <1>18
  <2>3. actual = Opening + sealed + later
    BY <1>6, <1>13, <1>14, <1>15, <2>2
  <2>4. stored.balance = Opening + all
    BY <1>1, InvMeans DEF all
  <2> QED BY <1>5, <2>1, <2>2, <2>3, <2>4 DEF ChainedCall, ExpectsCall
<1> QED BY <1>4, <1>16, <1>17, <1>18, CallChanges

------------------------------------------------------------------------------
(* The account begins with nothing posted, closed or counted.                 *)

LEMMA ClosingBegins == ASSUME ClosingInit PROVE ClosingInv
<1>1. /\ clock = 1 /\ posting = [e \in Postings |-> NoPosting] /\ stored = [balance |-> Opening, rev |-> 1]
      /\ closing = <<>> /\ position = [day \in Days |-> Open] /\ dayLock = [day \in Days |-> Uncounted]
      /\ call = [a \in Actors |-> Quiet] /\ occurred = {}
  BY DEF ClosingInit
<1>2. PostingsTyped
  <2>1. 1 \in Instants
    BY ClosingAssumption DEF Instants
  <2> QED BY <1>1, <2>1, ClosingAssumption DEF PostingsTyped, Slips
<1>3. ClosingsTyped /\ closing \in Seq(Figures) /\ DOMAIN closing = {}
  BY <1>1 DEF ClosingsTyped
<1>4. BoardTyped
  BY <1>1 DEF BoardTyped, Open, Totals
<1>5. \A a \in Actors : call[a].step = "idle" /\ call[a].rev = 0
  BY <1>1, QuietIs
<1>6. CallsTyped
  BY <1>1, <1>5 DEF CallsTyped, CallTyped
<1>7. Guarded /\ Chained /\ ExpectedIsBalance /\ ClosedPeriodKept
  BY <1>1, <1>5 DEF Guarded, GuardedCall, Chained, Chain, ChainedCall, ExpectedIsBalance, ClosedPeriodKept, Except
<1>8. BoardFrozen
  BY <1>1 DEF BoardFrozen, Open, Except
<1>9. TransactionSum(0, LastInstant) = 0
  <2>1. PICK p, q : p = posting /\ q = closing
    OBVIOUS
  <2>2. PostedIn(p, 1, LastInstant) = 0
    <3> DEFINE f == [e \in Postings |-> Within(p[e], 1, LastInstant)]
    <3>1. \A e \in Postings : f[e] = 0
      <4>1. NoPosting \in Slips /\ 1 \in Int /\ LastInstant \in Int
        BY ClosingAssumption DEF Slips
      <4>2. Within(NoPosting, 1, LastInstant) = 0
        BY <4>1, SlipCounts
      <4> QED BY <1>1, <2>1, <4>2
    <3> HIDE DEF f
    <3>2. SumFunctionOnSet(f, Postings) = 0
      BY <3>1, SumZero, ClosingAssumption
    <3> QED BY <3>2 DEF PostedIn, f
  <2>3. AdjustedIn(q, 0, LastInstant) = 0
    <3> DEFINE f == [i \in DOMAIN q |-> Adjustment(q[i], 0, LastInstant)]
    <3>1. DOMAIN q = {} /\ IsFiniteSet(DOMAIN q)
      BY <1>3, <2>1, FS_EmptySet
    <3> HIDE DEF f
    <3>2. SumFunctionOnSet(f, DOMAIN q) = 0
      BY <3>1, SumZero
    <3> QED BY <3>2 DEF AdjustedIn, f
  <2>4. 0 + 1 = 1 /\ 0 + 0 = 0
    OBVIOUS
  <2>5. SumOf(p, q, 0, LastInstant) = 0
    BY <2>2, <2>3, <2>4 DEF SumOf
  <2> QED BY <2>1, <2>5, Meanings
<1>10. BalanceIs
  BY <1>1, <1>9, ClosingAssumption DEF BalanceIs
<1> QED BY <1>2, <1>3, <1>4, <1>6, <1>7, <1>8, <1>10 DEF ClosingInv, ClosingTyped

LEMMA ClosingStays == ASSUME ClosingInv, [ClosingNext]_closingVars PROVE ClosingInv'
<1>1. CASE UNCHANGED closingVars
  <2>1. UNCHANGED <<clock, posting, stored, closing, position, dayLock, call, occurred>>
    BY <1>1 DEF closingVars
  <2>2. DOMAIN call' = Actors /\ occurred \subseteq occurred' /\ \A b \in Actors : call'[b] = call[b] \/ call'[b] = Quiet
    BY <2>1 DEF ClosingInv, ClosingTyped, CallsTyped
  <2>3. BoardTyped'
    BY <2>1, Zenon DEF ClosingInv, ClosingTyped, BoardTyped
  <2>4. occurred' \cap BoardEvents = {} => \A day \in Days : FrozenOn(posting', position', dayLock', day)
    BY <2>1, InvMeans
  <2> QED BY <2>1, <2>2, <2>3, <2>4, BoardChanges
<1>2. CASE Tick
  BY <1>2, Ticking
<1>3. ASSUME NEW a \in Actors, WritePayment(a) PROVE ClosingInv'
  BY <1>3, WritePaymentKeeps
<1>4. ASSUME NEW a \in Actors, WriteClosing(a) PROVE ClosingInv'
  BY <1>4, WriteClosingKeeps
<1>5. ASSUME NEW a \in Actors, RefusePayment(a) \/ RefuseClosing(a) PROVE ClosingInv'
  <2>1. call' = [call EXCEPT ![a] = Quiet]
        /\ UNCHANGED <<clock, posting, stored, closing, position, dayLock, occurred>>
    BY <1>5 DEF RefusePayment, RefuseClosing
  <2> QED BY <2>1, Quieting
<1>6. ASSUME NEW a \in Actors, LockDay(a) PROVE ClosingInv'
  BY <1>6, LockKeeps
<1>7. ASSUME NEW a \in Actors, NEW e \in Postings, CheckVoid(a, e) PROVE ClosingInv'
  BY <1>7, CheckVoidKeeps
<1>8. ASSUME NEW a \in Actors, NEW e \in Postings, NEW at \in Instants, NEW net \in Nets,
             CheckPayment(a, e, at, net) \/ CheckEdit(a, e, at, net)
      PROVE  ClosingInv'
  BY <1>8, CheckPaymentKeeps, CheckEditKeeps
<1>9. ASSUME NEW a \in Actors, NEW day \in Days, ReadBoard(a, day) PROVE ClosingInv'
  BY <1>9, ReadBoardKeeps
<1>10. ASSUME NEW a \in Actors, NEW day \in Days, NEW n \in Counts, ReadClosing(a, day, n) PROVE ClosingInv'
  BY <1>10, ReadClosingKeeps
<1>11. ASSUME NEW e \in Postings, NEW at \in Instants, NEW net \in Nets, NEW live \in BOOLEAN,
              PostEntry(e, at, net, live)
       PROVE  ClosingInv'
  BY <1>11, PostEntryKeeps
<1>12. ASSUME NEW day \in Days, UnlockDay(day) PROVE ClosingInv'
  BY <1>12, UnlockKeeps
<1>13. ASSUME NEW day \in Days, DeleteCount(day) \/ \E n \in Counts : SaveCount(day, n) PROVE ClosingInv'
  BY <1>13, CountKeeps
<1> QED BY <1>1, <1>2, <1>3, <1>4, <1>5, <1>6, <1>7, <1>8, <1>9, <1>10, <1>11, <1>12, <1>13, Zenon DEF ClosingNext

LEMMA ClosingHolds == ClosingSpec => []ClosingInv
<1>1. ClosingInit => ClosingInv
  BY ClosingBegins
<1>2. ClosingInv /\ [ClosingNext]_closingVars => ClosingInv'
  BY ClosingStays
<1> QED BY <1>1, <1>2, PTL DEF ClosingSpec

\* A finalised period keeps what it was closed with, however the requests overlap:
\* the version of the account refuses every payment that was checked before a closing
\* with an adjustment (_assert_period_open and reconcile_account, payments_crud.py),
\* but for the listed leaks.
THEOREM PeriodsKept == ClosingSpec => []ClosedPeriodKept
<1>1. ClosingInv => ClosedPeriodKept
  BY DEF ClosingInv
<1> QED BY <1>1, ClosingHolds, PTL

\* What a closing expects along the chain of closings is the stored balance as long
\* as the account has the version it was read with (reconcile_account).
THEOREM ClosingsExpectBalance == ClosingSpec => []ExpectedIsBalance
<1>1. ClosingInv => ExpectedIsBalance
  BY DEF ClosingInv
<1> QED BY <1>1, ClosingHolds, PTL

\* What locking froze for a day stays what the board computes from the postings and
\* the earlier locked days (cash_day_recon.py), but for the listed events.
THEOREM LockedDaysFrozen == ClosingSpec => []BoardFrozen
<1>1. ClosingInv => BoardFrozen
  BY DEF ClosingInv
<1> QED BY <1>1, ClosingHolds, PTL

------------------------------------------------------------------------------
(* What one client owes, as four places compute it.                          *)
\* What the client's documents look like.
BookingRecords == [ours : BOOLEAN, number : Typed \cup {NoNumber}, bill : Typed \cup {NoNumber, Own},
                   qty : Nat, paid : Nat, disc : Nat]
Cancellations == [ref : Nat, qty : Nat \ {0}]
StatementTyped ==
    /\ Ids \in SUBSET (1..MaxBookings) /\ booking \in [Ids -> BookingRecords]
    /\ Entries \in SUBSET (1..MaxCancels) /\ cancel \in [Entries -> Cancellations]
    /\ hand \in [amount : Nat, number : Typed \cup {NoNumber}]
    /\ paid \in [amount : Int, disc : Nat, waive : Nat] /\ paid.waive \in {0, paid.disc}

\* Until a request has parted an entry from its booking, no typed number stands twice,
\* and every entry names a booking of the client by its present number.
NumbersOnce ==
    /\ \A b, c \in Ids : booking[b].number # NoNumber /\ booking[b].number = booking[c].number => b = c
    /\ \A b \in Ids : hand.number # NoNumber => booking[b].number # hand.number
EntriesFound == \A e \in Entries : \E b \in Ours : cancel[e].ref = NumberOf(b)
HandWhole == hand = NoHand \/ hand.amount = HandAmount

StatementInv ==
    /\ StatementTyped
    /\ "parted" \notin seen => NumbersOnce /\ EntriesFound
    /\ "settled" \notin seen => HandWhole

\* The documents are finitely many.
LEMMA FiniteDocuments ==
    ASSUME StatementTyped
    PROVE  /\ IsFiniteSet(Ids) /\ IsFiniteSet(Ours) /\ IsFiniteSet(Entries)
           /\ Ours \in SUBSET Ids /\ Ours \in SUBSET (1..MaxBookings) /\ MaxBookings \in Nat
<1>1. MaxBookings \in Nat /\ MaxCancels \in Nat
  BY NumbersAssumption
<1>2. IsFiniteSet(1..MaxBookings) /\ IsFiniteSet(1..MaxCancels)
  BY <1>1, FS_Interval
<1>3. Ids \in SUBSET (1..MaxBookings) /\ Entries \in SUBSET (1..MaxCancels) /\ Ours \in SUBSET Ids
  BY DEF StatementTyped, Ours
<1>4. IsFiniteSet(Ids) /\ IsFiniteSet(Entries)
  BY <1>2, <1>3, FS_Subset
<1>5. IsFiniteSet(Ours)
  BY <1>3, <1>4, FS_Subset
<1> QED
  BY <1>1, <1>3, <1>4, <1>5

\* Bags are counted in natural numbers.
LEMMA BagsAreNumbers ==
    ASSUME StatementTyped, NEW E \in SUBSET Entries
    PROVE  SumBags(E) \in Nat /\ (SumBags(E) > 0 <=> E # {})
<1> DEFINE f == [e \in Entries |-> cancel[e].qty]
<1>1. IsFiniteSet(E)
  BY FiniteDocuments, FS_Subset
<1>2. \A e \in E : f[e] \in Nat /\ f[e] > 0
  BY DEF StatementTyped, Cancellations
<1>3. SumBags(E) = SumFunctionOnSet(f, E)
  BY DEF SumBags
<1> HIDE DEF f
<1>4. SumFunctionOnSet(f, E) \in Nat
  BY <1>1, <1>2, SumType
<1>5. CASE E = {}
  <2>1. SumFunctionOnSet(f, E) = 0
    BY <1>1, <1>5, SumZero
  <2> QED
    BY <1>3, <1>5, <2>1
<1>6. CASE E # {}
  <2>1. PICK e \in E : TRUE
    BY <1>6
  <2>2. \A x \in E : f[x] \in Int
    BY <1>2
  <2>3. SumFunctionOnSet(f, E) = f[e] + SumFunctionOnSet(f, E \ {e})
    BY <1>1, <2>2, SumRemove
  <2>4. SumFunctionOnSet(f, E \ {e}) \in Nat
    <3>1. IsFiniteSet(E \ {e})
      BY <1>1, FS_Subset
    <3> QED
      BY <1>2, <3>1, SumType
  <2> QED
    BY <1>2, <1>3, <1>4, <1>6, <2>3, <2>4
<1> QED
  BY <1>5, <1>6

\* What a booking says, and what the statements show of it, are numbers.
LEMMA BookingInFigures ==
    ASSUME StatementTyped, NEW b \in Ids
    PROVE  /\ b \in Nat \ {0} /\ b \notin Typed /\ booking[b].number \in Typed \cup {NoNumber} /\ NoNumber \notin Typed
           /\ booking[b].qty \in Nat /\ booking[b].paid \in Nat /\ booking[b].disc \in Nat
           /\ Embedded(b) = booking[b].paid + booking[b].disc
           /\ CancelCredit(b) \in Nat /\ Gross(b) \in Nat /\ PageGross(b) \in Nat
           /\ NumberOf(b) \in RefsOfBooking(b)
<1>1. booking[b] \in BookingRecords /\ b \in 1..MaxBookings /\ MaxBookings \in Nat
  BY FiniteDocuments DEF StatementTyped
<1>2. /\ booking[b].number \in Typed \cup {NoNumber}
      /\ booking[b].qty \in Nat /\ booking[b].paid \in Nat /\ booking[b].disc \in Nat
  BY <1>1 DEF BookingRecords
<1>3. CancelCredit(b) \in Nat /\ SumBags(EntriesUnder({NumberOf(b)})) \in Nat
  <2>1. EntriesUnder(RefsOfBooking(b)) \in SUBSET Entries /\ EntriesUnder({NumberOf(b)}) \in SUBSET Entries
    BY DEF EntriesUnder
  <2> QED
    BY <2>1, BagsAreNumbers DEF CancelCredit
<1>4. Gross(b) \in Nat /\ PageGross(b) \in Nat
  <2>1. \A full \in Nat, c \in BOOLEAN : Shown(b, full, c) \in Nat
    BY <1>2 DEF Shown
  <2>2. booking[b].qty + CancelCredit(b) \in Nat /\ (CancelCredit(b) > 0) \in BOOLEAN
    BY <1>2, <1>3
  <2>3. Gross(b) \in Nat
    BY <2>1, <2>2 DEF Gross
  <2>4. /\ booking[b].qty + SumBags(EntriesUnder({NumberOf(b)})) \in Nat
        /\ (EntriesUnder({NumberOf(b)}) # {}) \in BOOLEAN
    BY <1>2, <1>3
  <2>5. PageGross(b) \in Nat
    BY <2>1, <2>4 DEF PageGross
  <2> QED
    BY <2>3, <2>5
<1>5. b \in Nat \ {0} /\ b \notin Typed /\ NoNumber \notin Typed
  BY <1>1, NumbersAssumption DEF NoNumber
<1>6. NumberOf(b) \in RefsOfBooking(b)
  BY <1>2, <1>5 DEF NumberOf, RefsOfBooking, NoNumber
<1> QED
  BY <1>2, <1>3, <1>4, <1>5, <1>6 DEF Embedded

\* The sums over the bookings of the client that the statements are made of.
Gained(f) == SumFunctionOnSet(f, Ours)
SumsOfBookings(g, e, p, d) ==
    /\ Gained(g) \in Int /\ Gained(e) \in Int /\ Gained(p) \in Int /\ Gained(d) \in Int
    /\ Gained(g) = Gained(e) + (Gained(p) + Gained(d))

\* A sum of values less what is embedded is the sum of the values less those sums.
LEMMA BookingsAddUp ==
    ASSUME StatementTyped, NEW g, \A b \in Ours : g[b] \in Int
    PROVE  SumsOfBookings(g, [b \in Ours |-> g[b] - Embedded(b)],
                          [b \in Ours |-> booking[b].paid], [b \in Ours |-> booking[b].disc])
<1> DEFINE e == [b \in Ours |-> g[b] - Embedded(b)]
           p == [b \in Ours |-> booking[b].paid]
           d == [b \in Ours |-> booking[b].disc]
           m == [b \in Ours |-> booking[b].paid + booking[b].disc]
<1>1. IsFiniteSet(Ours) /\ Ours \in SUBSET Ids
  BY FiniteDocuments
<1>2. \A b \in Ours : booking[b].paid \in Nat /\ booking[b].disc \in Nat /\ Embedded(b) = booking[b].paid + booking[b].disc
  BY <1>1, BookingInFigures
<1>3. \A b \in Ours : /\ e[b] \in Int /\ p[b] \in Int /\ d[b] \in Int /\ m[b] \in Int
                      /\ g[b] = e[b] + m[b] /\ m[b] = p[b] + d[b]
  BY <1>2
<1> HIDE DEF e, p, d, m
<1>4. SumFunctionOnSet(g, Ours) = SumFunctionOnSet(e, Ours) + SumFunctionOnSet(m, Ours)
  BY <1>1, <1>3, SumPlus
<1>5. SumFunctionOnSet(m, Ours) = SumFunctionOnSet(p, Ours) + SumFunctionOnSet(d, Ours)
  BY <1>1, <1>3, SumPlus
<1>6. /\ SumFunctionOnSet(g, Ours) \in Int /\ SumFunctionOnSet(e, Ours) \in Int
      /\ SumFunctionOnSet(p, Ours) \in Int /\ SumFunctionOnSet(d, Ours) \in Int
  BY <1>1, <1>3, SumType
<1>7. SumsOfBookings(g, e, p, d)
  BY <1>4, <1>5, <1>6 DEF SumsOfBookings, Gained
<1> QED
  BY <1>7 DEF e, p, d

\* The figures of the payment, the sale and the entries.
Amounts(pa, credits) ==
    /\ pa \in Int /\ credits \in Nat
    /\ Credits = credits /\ SumBags(Entries) \in Nat /\ Discount(paid) \in Nat
    /\ credits = AtLeast0(pa) + Discount(paid) + SumBags(Entries)
    /\ HandGross \in Nat /\ hand.amount \in Nat /\ OpeningBalance \in Int
    /\ SaleBill.qty \in Nat /\ SaleBill.paid \in Nat /\ SaleBill.disc \in Nat
LEMMA OtherFigures ==
    ASSUME StatementTyped
    PROVE  Amounts(paid.amount, Credits)
<1>1. paid.amount \in Int /\ Discount(paid) \in Nat
  BY DEF StatementTyped, Discount
<1>2. SumBags(Entries) \in Nat
  BY BagsAreNumbers
<1>3. AtLeast0(paid.amount) \in Nat
  BY <1>1 DEF AtLeast0
<1>4. hand.amount \in Nat /\ HandGross \in Nat
  BY DEF StatementTyped, HandGross
<1>5. OpeningBalance \in Int /\ SaleBill \in [qty : Nat, paid : Nat, disc : Nat]
  BY NumbersAssumption
<1> QED
  BY <1>1, <1>2, <1>3, <1>4, <1>5 DEF Amounts, Credits

\* The balance of the ledger, as one sum over the bookings.
Balance(n) ==
    OpeningBalance + n + (SaleBill.qty - SaleBill.paid - SaleBill.disc) + HandGross
        - paid.amount - Discount(paid) - SumBags(Entries)
LEMMA LedgerBalance ==
    ASSUME StatementTyped
    PROVE  /\ Gained([b \in Ours |-> Gross(b) - Embedded(b)]) \in Int
           /\ ClosingBalance = Balance(Gained([b \in Ours |-> Gross(b) - Embedded(b)]))
           /\ SummaryBalance = ClosingBalance
<1> DEFINE g == [b \in Ours |-> Gross(b)]
           e == [b \in Ours |-> Gross(b) - Embedded(b)]
           p == [b \in Ours |-> booking[b].paid]
           d == [b \in Ours |-> booking[b].disc]
<1>1. \A b \in Ours : g[b] \in Int
  BY FiniteDocuments, BookingInFigures
<1>2. SumsOfBookings(g, e, p, d)
  <2>1. SumsOfBookings(g, [b \in Ours |-> g[b] - Embedded(b)], p, d)
    <3> HIDE DEF g
    <3> QED
      BY <1>1, BookingsAddUp
  <2>2. [b \in Ours |-> g[b] - Embedded(b)] = e
    OBVIOUS
  <2> QED
    BY <2>1, <2>2
<1>3. /\ SumFunction(g) = Gained(g) /\ SumFunction(e) = Gained(e)
      /\ SumFunction(p) = Gained(p) /\ SumFunction(d) = Gained(d)
  BY DEF SumFunction, Gained
<1>4. PICK pa, credits : pa = paid.amount /\ credits = Credits /\ Amounts(pa, credits)
  BY OtherFigures
<1>5. ClosingBalance = OpeningBalance + (SumFunction(g) + SaleBill.qty + HandGross + AtLeast0(-pa))
          - (SumFunction(p) + SumFunction(d) + SaleBill.paid + SaleBill.disc
             + AtLeast0(pa) + Discount(paid) + SumBags(Entries))
  BY <1>4 DEF ClosingBalance
<1>6. SummaryBalance = OpeningBalance + SumFunction(e) + (SaleBill.qty - SaleBill.paid - SaleBill.disc)
          + HandGross - credits - (IF pa < 0 THEN pa ELSE 0)
  BY <1>4 DEF SummaryBalance
<1> HIDE DEF g, e, p, d
<1>7. Gained(e) \in Int /\ ClosingBalance = Balance(Gained(e)) /\ SummaryBalance = ClosingBalance
  <2>1. /\ AtLeast0(pa) \in Int /\ AtLeast0(-pa) \in Int /\ AtLeast0(pa) - AtLeast0(-pa) = pa
        /\ AtLeast0(pa) + (IF pa < 0 THEN pa ELSE 0) = pa
    BY <1>4 DEF Amounts, AtLeast0
  <2>2. /\ pa \in Int /\ credits = AtLeast0(pa) + Discount(paid) + SumBags(Entries)
        /\ Discount(paid) \in Int /\ SumBags(Entries) \in Int /\ HandGross \in Int /\ OpeningBalance \in Int
        /\ SaleBill.qty \in Int /\ SaleBill.paid \in Int /\ SaleBill.disc \in Int
    BY <1>4 DEF Amounts
  <2>3. /\ Gained(g) \in Int /\ Gained(e) \in Int /\ Gained(p) \in Int /\ Gained(d) \in Int
        /\ Gained(g) = Gained(e) + (Gained(p) + Gained(d))
    BY <1>2 DEF SumsOfBookings
  <2>4. ClosingBalance = Balance(Gained(e))
    BY <1>3, <1>4, <1>5, <2>1, <2>2, <2>3 DEF Balance
  <2>5. SummaryBalance = Balance(Gained(e))
    BY <1>3, <1>4, <1>6, <2>1, <2>2, <2>3 DEF Balance
  <2> QED
    BY <2>3, <2>4, <2>5
<1> QED
  BY <1>7 DEF e

\* The bills in their order, and what is due on them.
Bill == 0..(MaxBookings + 1)
DueOf == [i \in Bill |-> BillDue(i)]
LEMMA BillsInFigures ==
    ASSUME StatementTyped
    PROVE  /\ MaxBookings + 1 \in Nat /\ IsFiniteSet(Bill)
           /\ \A i \in Bill : DueOf[i] \in Nat /\ DueOf[i] = BillDue(i)
<1>1. MaxBookings \in Nat
  BY FiniteDocuments
<1>2. IsFiniteSet(Bill)
  <2>1. MaxBookings + 1 \in Int /\ 0 \in Int
    BY <1>1
  <2> QED
    BY <2>1, FS_Interval DEF Bill
<1>3. \A n \in Int : AtLeast0(n) \in Nat
  BY DEF AtLeast0
<1>4. ASSUME NEW i \in Bill PROVE BillDue(i) \in Nat
  <2>1. HandGross \in Nat /\ SaleBill.qty - SaleBill.paid - SaleBill.disc \in Int
    BY OtherFigures DEF Amounts
  <2>2. i \in Ours => Gross(i) - Embedded(i) \in Int
    BY FiniteDocuments, BookingInFigures
  <2>3. \/ BillDue(i) = AtLeast0(SaleBill.qty - SaleBill.paid - SaleBill.disc)
        \/ i \in Ours /\ BillDue(i) = AtLeast0(Gross(i) - Embedded(i))
        \/ BillDue(i) = HandGross
        \/ BillDue(i) = 0
    <3>1. 0 \notin Ours /\ MaxBookings + 1 \notin Ours /\ MaxBookings + 1 # 0
      BY <1>1, FiniteDocuments
    <3> QED
      BY <3>1 DEF BillDue
  <2> QED
    BY <1>3, <2>1, <2>2, <2>3
<1> QED
  BY <1>1, <1>2, <1>4 DEF DueOf

\* What is left of the bills up to one of them is what the credits do not cover.
LEMMA RemainingUpTo ==
    ASSUME StatementTyped
    PROVE  SumFunctionOnSet([i \in Bill |-> Remaining(i)], Bill)
               = AtLeast0(SumFunctionOnSet(DueOf, Bill) - Credits)
<1> DEFINE k == MaxBookings + 1
           left == [i \in Bill |-> Remaining(i)]
           Due(n) == SumFunctionOnSet(DueOf, 0..n)
           A == {n \in 0..k : SumFunctionOnSet(left, 0..n) = AtLeast0(Due(n) - Credits)}
<1>1. k \in Nat /\ Bill = 0..k /\ \A i \in 0..k : DueOf[i] \in Nat /\ DueOf[i] = BillDue(i)
  BY BillsInFigures DEF Bill
<1> HIDE DEF k
<1>2. PICK c : c = Credits /\ c \in Nat
  BY OtherFigures DEF Amounts
<1>3. \A n \in 0..k : IsFiniteSet(0..n) /\ 0..n \subseteq Bill /\ Due(n) \in Nat
  <2> TAKE n \in 0..k
  <2>1. n \in Int /\ 0 \in Int
    OBVIOUS
  <2>2. IsFiniteSet(0..n)
    BY <2>1, FS_Interval
  <2>3. 0..n \subseteq Bill /\ \A i \in 0..n : DueOf[i] \in Nat
    BY <1>1
  <2> QED
    BY <2>2, <2>3, SumType
<1>4. \A n \in 0..k : Remaining(n) = AtLeast0(DueOf[n] - AtLeast0(c - (IF n = 0 THEN 0 ELSE Due(n - 1))))
  <2> TAKE n \in 0..k
  <2> DEFINE older == [j \in 0..(n - 1) |-> BillDue(j)]
  <2>1. SumFunction(older) = SumFunctionOnSet(older, 0..(n - 1))
    BY DEF SumFunction
  <2>2. Remaining(n) = AtLeast0(DueOf[n] - AtLeast0(c - SumFunction(older)))
    BY <1>1, <1>2 DEF Remaining
  <2>3. CASE n = 0
    <3>1. 0..(n - 1) = {} /\ IsFiniteSet({})
      BY <2>3, FS_EmptySet
    <3>2. SumFunctionOnSet(older, 0..(n - 1)) = 0
      BY <3>1, SumZero
    <3> QED
      BY <2>1, <2>2, <2>3, <3>2
  <2>4. CASE n # 0
    <3>1. n - 1 \in 0..k /\ IsFiniteSet(0..(n - 1))
      BY <1>1, <1>3, <2>4
    <3>2. \A j \in 0..(n - 1) : DueOf[j] \in Int /\ older[j] = DueOf[j]
      BY <1>1, <2>4
    <3>3. SumFunctionOnSet(older, 0..(n - 1)) = Due(n - 1)
      <4> HIDE DEF older
      <4> QED
        BY <3>1, <3>2, SumSame
    <3> QED
      BY <2>1, <2>2, <2>4, <3>3
  <2> QED
    BY <2>3, <2>4
<1>5. \A n \in 0..k : left[n] = Remaining(n) /\ left[n] \in Nat
  <2> TAKE n \in 0..k
  <2>1. (IF n = 0 THEN 0 ELSE Due(n - 1)) \in Int
    <3>1. n # 0 => n - 1 \in 0..k
      BY <1>1
    <3> HIDE DEF Due
    <3> QED
      BY <1>3, <3>1
  <2>2. \A x \in Int : AtLeast0(x) \in Nat
    BY DEF AtLeast0
  <2>3. DueOf[n] - AtLeast0(c - (IF n = 0 THEN 0 ELSE Due(n - 1))) \in Int
    <3>1. PICK d, o : d = DueOf[n] /\ o = (IF n = 0 THEN 0 ELSE Due(n - 1)) /\ d \in Nat /\ o \in Int
      BY <1>1, <2>1
    <3>2. AtLeast0(c - o) \in Nat
      <4>1. c - o \in Int
        BY <1>2, <3>1
      <4> QED
        BY <2>2, <4>1
    <3>3. d - AtLeast0(c - o) \in Int
      BY <3>1, <3>2
    <3> HIDE DEF Due
    <3> QED
      BY <1>2, <3>1, <3>3
  <2> HIDE DEF Due
  <2> QED
    BY <1>1, <1>4, <2>2, <2>3
<1> HIDE DEF left
<1>6. 0 \in A
  <2>1. 0 \in 0..k /\ 0..0 = {0} /\ {0} \ {0} = {} /\ IsFiniteSet({0}) /\ IsFiniteSet({})
    <3>1. IsFiniteSet({0}) /\ IsFiniteSet({})
      BY FS_Singleton, FS_EmptySet
    <3> QED
      BY <1>1, <3>1
  <2>2. \A f : f[0] \in Int => SumFunctionOnSet(f, {0}) = f[0]
    <3> TAKE f
    <3> HAVE f[0] \in Int
    <3>1. SumFunctionOnSet(f, {0}) = f[0] + SumFunctionOnSet(f, {0} \ {0})
      BY <2>1, SumRemove
    <3>2. SumFunctionOnSet(f, {0} \ {0}) = 0
      BY <2>1, SumZero
    <3> QED
      BY <3>1, <3>2
  <2>3. SumFunctionOnSet(left, 0..0) = left[0] /\ Due(0) = DueOf[0] /\ DueOf[0] \in Nat
    <3>1. left[0] \in Int /\ DueOf[0] \in Int /\ DueOf[0] \in Nat
      BY <1>1, <1>5, <2>1
    <3>2. SumFunctionOnSet(left, {0}) = left[0] /\ SumFunctionOnSet(DueOf, {0}) = DueOf[0]
      BY <2>2, <3>1
    <3> QED
      BY <2>1, <3>1, <3>2
  <2>4. left[0] = AtLeast0(DueOf[0] - AtLeast0(c - 0))
    BY <1>4, <1>5, <2>1
  <2>5. AtLeast0(DueOf[0] - AtLeast0(c - 0)) = AtLeast0(DueOf[0] - c)
    BY <1>2, <2>3 DEF AtLeast0
  <2> HIDE DEF Due
  <2> QED
    BY <1>2, <2>1, <2>3, <2>4, <2>5
<1>7. ASSUME NEW n \in 1..k, n - 1 \in A PROVE n \in A
  <2>1. n \in 0..k /\ n - 1 \in 0..k /\ n \in 0..n /\ 0..n \ {n} = 0..(n - 1)
    BY <1>1
  <2>2. Due(n) = DueOf[n] + Due(n - 1)
    <3>1. \A i \in 0..n : DueOf[i] \in Int
      BY <1>1, <2>1
    <3>2. SumFunctionOnSet(DueOf, 0..n) = DueOf[n] + SumFunctionOnSet(DueOf, 0..n \ {n})
      BY <1>3, <2>1, <3>1, SumRemove
    <3> QED
      BY <2>1, <3>2
  <2>3. SumFunctionOnSet(left, 0..n) = left[n] + SumFunctionOnSet(left, 0..(n - 1))
    <3>1. \A i \in 0..n : left[i] \in Int
      BY <1>1, <1>5, <2>1
    <3>2. SumFunctionOnSet(left, 0..n) = left[n] + SumFunctionOnSet(left, 0..n \ {n})
      BY <1>3, <2>1, <3>1, SumRemove
    <3> QED
      BY <2>1, <3>2
  <2>4. SumFunctionOnSet(left, 0..(n - 1)) = AtLeast0(Due(n - 1) - c)
    BY <1>2, <1>7
  <2>5. left[n] = AtLeast0(DueOf[n] - AtLeast0(c - Due(n - 1)))
    <3>1. n # 0
      OBVIOUS
    <3> HIDE DEF Due
    <3> QED
      BY <1>4, <1>5, <2>1, <3>1
  <2>6. PICK o, d : o = Due(n - 1) /\ d = DueOf[n] /\ o \in Nat /\ d \in Nat
    BY <1>1, <1>3, <2>1
  <2>7. AtLeast0(d - AtLeast0(c - o)) + AtLeast0(o - c) = AtLeast0(d + o - c)
    BY <1>2, <2>6 DEF AtLeast0
  <2> HIDE DEF Due
  <2> QED
    BY <1>2, <2>1, <2>2, <2>3, <2>4, <2>5, <2>6, <2>7
<1> HIDE DEF A
<1>8. \A n \in 0..k : n \in A
  BY <1>1, <1>6, <1>7, UpTo
<1>9. k \in A
  BY <1>1, <1>8
<1> QED
  BY <1>1, <1>9 DEF A, left

\* While nothing is overpaid, all bills together are the balance before the credits.
LEMMA AllBillsDue ==
    ASSUME StatementTyped, SaleBill.qty >= SaleBill.paid + SaleBill.disc, \A b \in Ours : Gross(b) >= Embedded(b)
    PROVE  SumFunctionOnSet(DueOf, Bill) =
               (SaleBill.qty - SaleBill.paid - SaleBill.disc) + HandGross
                   + Gained([b \in Ours |-> Gross(b) - Embedded(b)])
<1> DEFINE e == [b \in Ours |-> Gross(b) - Embedded(b)]
           last == MaxBookings + 1
           rest == 1..MaxBookings
           h == [i \in rest |-> IF i \in Ours THEN DueOf[i] ELSE 0]
<1>1. MaxBookings \in Nat /\ Ours \in SUBSET rest /\ IsFiniteSet(rest) /\ IsFiniteSet(Ours) /\ Ours \in SUBSET Ids
  <2>1. 1 \in Int /\ MaxBookings \in Int
    BY FiniteDocuments
  <2> QED
    BY <2>1, FiniteDocuments, FS_Interval
<1>2. /\ Bill = 0..last /\ IsFiniteSet(Bill) /\ 0 \in Bill /\ last \in Bill \ {0} /\ (Bill \ {0}) \ {last} = rest
      /\ IsFiniteSet(Bill \ {0}) /\ \A i \in Bill : DueOf[i] \in Int /\ DueOf[i] = BillDue(i)
  <2>1. IsFiniteSet(Bill \ {0})
    BY BillsInFigures, FS_Subset
  <2>2. Bill = 0..last /\ 0 \in 0..last /\ last \in 0..last /\ last # 0 /\ (0..last \ {0}) \ {last} = rest
    BY <1>1 DEF Bill
  <2> QED
    BY <2>1, <2>2, BillsInFigures
<1>3. /\ SumFunctionOnSet(DueOf, Bill) = DueOf[0] + SumFunctionOnSet(DueOf, Bill \ {0})
      /\ SumFunctionOnSet(DueOf, Bill \ {0}) = DueOf[last] + SumFunctionOnSet(DueOf, rest)
  <2>1. SumFunctionOnSet(DueOf, Bill) = DueOf[0] + SumFunctionOnSet(DueOf, Bill \ {0})
    BY <1>2, SumRemove
  <2>2. \A i \in Bill \ {0} : DueOf[i] \in Int
    BY <1>2
  <2>3. SumFunctionOnSet(DueOf, Bill \ {0}) = DueOf[last] + SumFunctionOnSet(DueOf, (Bill \ {0}) \ {last})
    BY <1>2, <2>2, SumRemove
  <2> QED
    BY <1>2, <2>1, <2>3
<1>4. DueOf[0] = SaleBill.qty - SaleBill.paid - SaleBill.disc
  <2>1. SaleBill.qty \in Nat /\ SaleBill.paid \in Nat /\ SaleBill.disc \in Nat
    BY OtherFigures DEF Amounts
  <2>2. BillDue(0) = AtLeast0(SaleBill.qty - SaleBill.paid - SaleBill.disc)
    <3>1. 0 \notin Ours /\ MaxBookings + 1 # 0
      BY <1>1
    <3> QED
      BY <3>1 DEF BillDue
  <2> QED
    BY <1>2, <2>1, <2>2 DEF AtLeast0
<1>5. DueOf[last] = HandGross
  <2>1. last \notin Ours /\ last # 0
    BY <1>1
  <2>2. BillDue(last) = HandGross
    BY <2>1 DEF BillDue
  <2> QED
    BY <1>2, <2>2
<1>6. \A i \in rest : i # 0 /\ i # last /\ i \in Bill
  BY <1>1, <1>2
<1>7. ASSUME NEW i \in rest PROVE DueOf[i] = h[i] /\ (i \in Ours => DueOf[i] = e[i]) /\ DueOf[i] \in Int
  <2>1. i # 0 /\ i # MaxBookings + 1 /\ i \in Bill
    BY <1>6
  <2>2. CASE i \in Ours
    <3>1. BillDue(i) = AtLeast0(Gross(i) - Embedded(i))
      BY <2>1, <2>2 DEF BillDue
    <3>2. Gross(i) \in Nat /\ Embedded(i) \in Nat /\ Gross(i) >= Embedded(i)
      BY <1>1, <2>2, BookingInFigures
    <3> QED
      BY <1>2, <2>1, <2>2, <3>1, <3>2 DEF AtLeast0
  <2>3. CASE i \notin Ours
    <3>1. BillDue(i) = 0
      BY <2>1, <2>3 DEF BillDue
    <3> QED
      BY <1>2, <2>1, <2>3, <3>1
  <2> QED
    BY <2>2, <2>3
<1> HIDE DEF rest, last
<1>8. SumFunctionOnSet(DueOf, rest) = Gained(e)
  <2>1. \A i \in rest : h[i] = IF i \in Ours THEN DueOf[i] ELSE 0
    OBVIOUS
  <2>2. \A i \in rest : h[i] \in Int /\ DueOf[i] = h[i] /\ DueOf[i] \in Int
    BY <1>7
  <2> HIDE DEF h
  <2>3. SumFunctionOnSet(DueOf, Ours) = SumFunctionOnSet(h, rest)
    BY <1>1, <2>1, <2>2, SumPart
  <2>4. SumFunctionOnSet(DueOf, rest) = SumFunctionOnSet(h, rest)
    BY <1>1, <2>2, SumSame
  <2>5. \A b \in Ours : e[b] \in Int /\ DueOf[b] = e[b]
    BY <1>1, <1>7
  <2>6. SumFunctionOnSet(DueOf, Ours) = SumFunctionOnSet(e, Ours)
    <3> HIDE DEF e
    <3> QED
      BY <1>1, <2>5, SumSame
  <2> QED
    BY <2>3, <2>4, <2>6 DEF Gained
<1>9. Gained(e) \in Int /\ HandGross \in Int
  BY LedgerBalance, OtherFigures DEF Amounts
<1> HIDE DEF e, h
<1>10. SumFunctionOnSet(DueOf, Bill) = (SaleBill.qty - SaleBill.paid - SaleBill.disc) + HandGross + Gained(e)
  <2>1. SaleBill.qty - SaleBill.paid - SaleBill.disc \in Int
    BY OtherFigures DEF Amounts
  <2> QED
    BY <1>3, <1>4, <1>5, <1>8, <1>9, <2>1
<1> QED
  BY <1>10 DEF e

\* An entry under a number of a booking is under its present number, and of no other booking.
LEMMA EntriesOfBooking ==
    ASSUME StatementTyped, NumbersOnce, EntriesFound, NEW b \in Ours
    PROVE  /\ EntriesUnder(RefsOfBooking(b)) = EntriesUnder({NumberOf(b)})
           /\ \A c \in Ours : NumberOf(c) = NumberOf(b) => c = b
<1>1. \A c \in Ids : /\ c \in Nat \ {0} /\ c \notin Typed /\ booking[c].number \in Typed \cup {NoNumber}
                     /\ NoNumber \notin Typed
  BY BookingInFigures
<1>2. b \in Ids /\ Ours \in SUBSET Ids
  BY FiniteDocuments
<1>3. \A c \in Ours : NumberOf(c) \in RefsOfBooking(b) => c = b
  <2> TAKE c \in Ours
  <2> HAVE NumberOf(c) \in RefsOfBooking(b)
  <2>1. CASE booking[c].number = NoNumber
    BY <1>1, <1>2, <2>1 DEF NumberOf, RefsOfBooking
  <2>2. CASE booking[c].number # NoNumber
    BY <1>1, <1>2, <2>2 DEF NumberOf, RefsOfBooking, NumbersOnce
  <2> QED
    BY <2>1, <2>2
<1>4. NumberOf(b) \in RefsOfBooking(b)
  BY <1>2, BookingInFigures
<1>5. ASSUME NEW e \in Entries, cancel[e].ref \in RefsOfBooking(b) PROVE cancel[e].ref = NumberOf(b)
  <2>1. PICK c \in Ours : cancel[e].ref = NumberOf(c)
    BY DEF EntriesFound
  <2> QED
    BY <1>3, <1>5, <2>1
<1> QED
  BY <1>3, <1>4, <1>5 DEF EntriesUnder

\* So the client's page, which looks under the present number only, shows the same values,
LEMMA PageShowsTheSame ==
    ASSUME StatementTyped, NumbersOnce, EntriesFound, NEW b \in Ours
    PROVE  PageGross(b) = Gross(b)
<1>1. PICK E : E = EntriesUnder(RefsOfBooking(b)) /\ E = EntriesUnder({NumberOf(b)}) /\ E \in SUBSET Entries
  BY EntriesOfBooking DEF EntriesUnder
<1>2. SumBags(E) > 0 <=> E # {}
  BY <1>1, BagsAreNumbers
<1>3. Gross(b) = Shown(b, booking[b].qty + SumBags(E), SumBags(E) > 0)
  BY <1>1 DEF Gross, CancelCredit
<1>4. PageGross(b) = Shown(b, booking[b].qty + SumBags(E), E # {})
  BY <1>1 DEF PageGross
<1> QED
  BY <1>2, <1>3, <1>4 DEF Shown

\* and the bill entered by hand is taken for no booking's.
LEMMA HandIsOwn ==
    ASSUME StatementTyped, NumbersOnce
    PROVE  HandGross = hand.amount
<1>1. hand.number \in Typed \cup {NoNumber}
  BY DEF StatementTyped
<1>2. \A b \in Ids : b \notin Typed /\ b # NoNumber
  BY BookingInFigures DEF NoNumber
<1>3. ASSUME NEW b \in Ours PROVE hand.number \notin RefsOfBooking(b)
  <2>1. b \in Ids
    BY FiniteDocuments
  <2> QED
    BY <1>1, <1>2, <2>1 DEF NumbersOnce, RefsOfBooking
<1> QED
  BY <1>3 DEF HandGross

\* What the bookings show as cancelled are all entries, each of them once.
LEMMA CreditsAreEntries ==
    ASSUME StatementTyped, NumbersOnce, EntriesFound
    PROVE  Gained([b \in Ours |-> CancelCredit(b)]) = SumBags(Entries)
<1> DEFINE q == [e \in Entries |-> cancel[e].qty]
           h == [b \in Ours |-> CancelCredit(b)]
           IsUnder(e, b) == cancel[e].ref \in RefsOfBooking(b)
           f == [p \in Entries \X Ours |-> IF IsUnder(p[1], p[2]) THEN q[p[1]] ELSE 0]
           byBooking == [b \in Ours |-> [e \in Entries |-> IF IsUnder(e, b) THEN q[e] ELSE 0]]
           byEntry == [e \in Entries |-> [b \in Ours |-> IF IsUnder(e, b) THEN q[e] ELSE 0]]
<1>1. IsFiniteSet(Ours) /\ IsFiniteSet(Entries)
  BY FiniteDocuments
<1>2. \A e \in Entries : q[e] \in Int
  BY DEF StatementTyped, Cancellations
<1>3. \A e \in Entries, b \in Ours : /\ f[<<e, b>>] = (IF IsUnder(e, b) THEN q[e] ELSE 0)
                                     /\ byBooking[b][e] = f[<<e, b>>] /\ byEntry[e][b] = f[<<e, b>>]
  BY Zenon
<1>4. \A e \in Entries, b \in Ours : f[<<e, b>>] \in Int
  <2> TAKE e \in Entries, b \in Ours
  <2>1. f[<<e, b>>] = (IF IsUnder(e, b) THEN q[e] ELSE 0) /\ q[e] \in Int
    BY <1>2, <1>3
  <2> HIDE DEF q, f, byBooking, byEntry, IsUnder
  <2> QED
    BY <2>1
<1>5. ASSUME NEW b \in Ours PROVE h[b] = SumFunctionOnSet(byBooking[b], Entries)
  <2>1. PICK E : E = EntriesUnder(RefsOfBooking(b)) /\ E \in SUBSET Entries
    BY DEF EntriesUnder
  <2>2. \A e \in Entries : e \in E <=> IsUnder(e, b)
    BY <2>1 DEF EntriesUnder
  <2>3. PICK k : k = byBooking[b]
    OBVIOUS
  <2>4. \A e \in Entries : k[e] = IF e \in E THEN q[e] ELSE 0
    BY <1>3, <2>2, <2>3
  <2>5. h[b] = SumFunctionOnSet(q, E)
    BY <2>1 DEF CancelCredit, SumBags
  <2> HIDE DEF q, h, f, byBooking, byEntry
  <2>6. SumFunctionOnSet(q, E) = SumFunctionOnSet(k, Entries)
    BY <1>1, <1>2, <2>1, <2>4, SumPart
  <2> QED
    BY <2>3, <2>5, <2>6
<1>6. ASSUME NEW e \in Entries PROVE q[e] = SumFunctionOnSet(byEntry[e], Ours)
  <2>1. PICK k : k = byEntry[e]
    OBVIOUS
  <2>2. PICK b \in Ours : cancel[e].ref = NumberOf(b)
    BY DEF EntriesFound
  <2>3. IsUnder(e, b)
    BY <2>2, FiniteDocuments, BookingInFigures
  <2>4. \A c \in Ours \ {b} : ~IsUnder(e, c)
    <3> TAKE c \in Ours \ {b}
    <3> SUFFICES ASSUME IsUnder(e, c) PROVE FALSE
      OBVIOUS
    <3>1. e \in EntriesUnder(RefsOfBooking(c))
      BY DEF EntriesUnder
    <3>2. e \in EntriesUnder({NumberOf(c)})
      BY <3>1, EntriesOfBooking
    <3>3. NumberOf(c) = NumberOf(b)
      BY <2>2, <3>2 DEF EntriesUnder
    <3> QED
      BY <3>3, EntriesOfBooking
  <2>5. k[b] = q[e] /\ \A c \in Ours \ {b} : k[c] = 0
    BY <1>3, <2>1, <2>3, <2>4
  <2> HIDE DEF q, h, f, byBooking, byEntry, IsUnder
  <2>6. \A c \in Ours : k[c] \in Int
    BY <1>2, <2>5
  <2>7. SumFunctionOnSet(k, Ours) = k[b] + SumFunctionOnSet(k, Ours \ {b})
    BY <1>1, <2>6, SumRemove
  <2>8. SumFunctionOnSet(k, Ours \ {b}) = 0
    <3>1. IsFiniteSet(Ours \ {b})
      BY <1>1, FS_Subset
    <3> QED
      BY <2>5, <3>1, SumZero
  <2> QED
    BY <1>2, <2>1, <2>5, <2>7, <2>8
<1>7. SumBags(Entries) = SumFunctionOnSet(q, Entries)
  BY DEF SumBags
<1> HIDE DEF q, h, f, byBooking, byEntry, IsUnder
<1>8. TableColumns(f, Entries, Ours, h, byBooking) /\ TableRows(f, Entries, Ours, q, byEntry)
  BY <1>3, <1>4, <1>5, <1>6 DEF TableColumns, TableRows
<1>9. SumFunctionOnSet(f, Entries \X Ours) = SumFunctionOnSet(h, Ours)
  BY <1>1, <1>8, SumColumns
<1>10. SumFunctionOnSet(f, Entries \X Ours) = SumFunctionOnSet(q, Entries)
  BY <1>1, <1>8, SumRows
<1> QED
  BY <1>7, <1>9, <1>10 DEF Gained, h

\* Then the balance is what the documents say, unless a booking is taken for broken.
LEMMA BalanceOfDocuments ==
    ASSUME StatementInv, "parted" \notin seen, TakenForBroken = {}, "settled" \notin seen
    PROVE  ClosingBalance = Documents
<1> DEFINE e == [b \in Ours |-> Gross(b) - Embedded(b)]
           t == [b \in Ours |-> booking[b].qty - Embedded(b)]
           h == [b \in Ours |-> CancelCredit(b)]
<1>1. StatementTyped /\ NumbersOnce /\ EntriesFound /\ HandWhole
  BY DEF StatementInv
<1>2. ASSUME NEW b \in Ours
      PROVE  e[b] \in Int /\ t[b] \in Int /\ h[b] \in Int /\ e[b] = t[b] + h[b]
  <2>1. b \in Ids
    BY <1>1, FiniteDocuments
  <2>2. /\ booking[b].qty \in Nat /\ booking[b].paid \in Nat /\ booking[b].disc \in Nat
        /\ Embedded(b) = booking[b].paid + booking[b].disc /\ CancelCredit(b) \in Nat
    BY <1>1, <2>1, BookingInFigures
  <2>3. Gross(b) = booking[b].qty + CancelCredit(b)
    <3>1. ~(booking[b].disc > 0 /\ Gross(b) > booking[b].qty + CancelCredit(b))
      BY DEF TakenForBroken
    <3> QED
      BY <2>2, <3>1 DEF Gross, Shown
  <2> QED
    BY <2>2, <2>3
<1>3. Gained(e) = Gained(t) + Gained(h) /\ Gained(t) \in Int /\ Gained(h) \in Int
  <2>1. IsFiniteSet(Ours)
    BY <1>1, FiniteDocuments
  <2> HIDE DEF e, t, h
  <2>2. SumFunctionOnSet(e, Ours) = SumFunctionOnSet(t, Ours) + SumFunctionOnSet(h, Ours)
    BY <1>2, <2>1, SumPlus
  <2>3. SumFunctionOnSet(t, Ours) \in Int /\ SumFunctionOnSet(h, Ours) \in Int
    BY <1>2, <2>1, SumType
  <2> QED
    BY <2>2, <2>3 DEF Gained
<1>4. Gained(h) = SumBags(Entries)
  BY <1>1, CreditsAreEntries
<1>5. HandGross = IF hand = NoHand THEN 0 ELSE HandAmount
  <2>1. HandGross = hand.amount
    BY <1>1, HandIsOwn
  <2> QED
    BY <1>1, <2>1 DEF HandWhole, NoHand
<1>6. Discount(paid) = paid.disc /\ paid.disc \in Nat
  BY <1>1 DEF StatementTyped, Discount
<1>7. ClosingBalance = Balance(Gained(e)) /\ Gained(e) \in Int
  BY <1>1, LedgerBalance
<1>8. SumFunction(t) = Gained(t)
  BY DEF SumFunction, Gained
<1>9. Documents = OpeningBalance + SumFunction(t) + (SaleBill.qty - SaleBill.paid - SaleBill.disc)
                      + HandGross - paid.amount - paid.disc
  BY <1>5 DEF Documents
<1>10. /\ OpeningBalance \in Int /\ SaleBill.qty \in Int /\ SaleBill.paid \in Int /\ SaleBill.disc \in Int
       /\ HandGross \in Int /\ paid.amount \in Int /\ SumBags(Entries) \in Int
  BY <1>1, OtherFigures DEF Amounts
<1> HIDE DEF e, t, h
<1> QED
  BY <1>3, <1>4, <1>6, <1>7, <1>8, <1>9, <1>10 DEF Balance

\* In a sound state the statements agree with one another and with the documents.
LEMMA SoundStatementsAgree ==
    ASSUME StatementInv
    PROVE  StatementsAgree
<1>1. StatementTyped
  BY DEF StatementInv
<1>2. SummaryBalance = ClosingBalance
  BY <1>1, LedgerBalance
<1>3. ASSUME OpeningBalance = 0, paid.amount >= 0, SaleBill.qty >= SaleBill.paid + SaleBill.disc,
             \A b \in Ours : Gross(b) >= Embedded(b)
      PROVE  SumFunction([i \in 0..(MaxBookings + 1) |-> Remaining(i)]) = AtLeast0(ClosingBalance)
  <2> DEFINE left == [i \in 0..(MaxBookings + 1) |-> Remaining(i)]
             gained == Gained([b \in Ours |-> Gross(b) - Embedded(b)])
  <2>1. SumFunction(left) = SumFunctionOnSet(left, Bill)
    BY DEF SumFunction, Bill
  <2>2. SumFunctionOnSet(left, Bill) = AtLeast0(SumFunctionOnSet(DueOf, Bill) - Credits)
    BY <1>1, RemainingUpTo DEF Bill
  <2>3. SumFunctionOnSet(DueOf, Bill) = (SaleBill.qty - SaleBill.paid - SaleBill.disc) + HandGross + gained
    BY <1>1, <1>3, AllBillsDue
  <2>4. ClosingBalance = Balance(gained) /\ gained \in Int
    BY <1>1, LedgerBalance
  <2>5. PICK pa, credits : pa = paid.amount /\ credits = Credits /\ Amounts(pa, credits)
    BY <1>1, OtherFigures
  <2> HIDE DEF gained, left
  <2>6. SumFunctionOnSet(DueOf, Bill) - Credits = ClosingBalance
    <3>1. AtLeast0(pa) = pa
      BY <1>3, <2>5 DEF AtLeast0, Amounts
    <3> QED
      BY <1>3, <2>3, <2>4, <2>5, <3>1 DEF Balance, Amounts
  <2>7. SumFunction(left) = AtLeast0(ClosingBalance)
    BY <2>1, <2>2, <2>6
  <2> QED
    BY <2>7 DEF left
<1>4. ASSUME "parted" \notin seen PROVE PageBalance = ClosingBalance - hand.amount
  <2> DEFINE e == [b \in Ours |-> Gross(b) - Embedded(b)]
  <2>1. NumbersOnce /\ EntriesFound
    BY <1>4 DEF StatementInv
  <2>2. [b \in Ours |-> PageGross(b) - Embedded(b)] = e
    BY <1>1, <2>1, PageShowsTheSame
  <2>3. PageBalance = OpeningBalance + SumFunction(e) + (SaleBill.qty - SaleBill.paid - SaleBill.disc)
                          - paid.amount - Discount(paid) - SumBags(Entries)
    BY <2>2 DEF PageBalance
  <2>4. SumFunction(e) = Gained(e)
    BY DEF SumFunction, Gained
  <2>5. ClosingBalance = Balance(Gained(e)) /\ Gained(e) \in Int
    BY <1>1, LedgerBalance
  <2>6. HandGross = hand.amount
    BY <1>1, <2>1, HandIsOwn
  <2>7. /\ OpeningBalance \in Int /\ SaleBill.qty \in Int /\ SaleBill.paid \in Int /\ SaleBill.disc \in Int
        /\ HandGross \in Int /\ paid.amount \in Int /\ SumBags(Entries) \in Int /\ Discount(paid) \in Int
    BY <1>1, OtherFigures DEF Amounts
  <2> HIDE DEF e
  <2> QED
    BY <2>3, <2>4, <2>5, <2>6, <2>7 DEF Balance
<1>5. ASSUME "parted" \notin seen, TakenForBroken = {}, "settled" \notin seen PROVE ClosingBalance = Documents
  BY <1>5, BalanceOfDocuments
<1> QED
  BY <1>2, <1>3, <1>4, <1>5 DEF StatementsAgree

------------------------------------------------------------------------------
(* What the requests on a client's documents keep.                            *)

\* The statements are sound before the first request.
LEMMA InitKeepsStatement == StatementInit => StatementInv
<1> SUFFICES ASSUME StatementInit PROVE StatementInv
  OBVIOUS
<1>1. /\ booking = <<>> /\ cancel = <<>> /\ hand = NoHand
      /\ paid \in {NoPayment} \cup {[amount |-> p.amount, disc |-> p.disc, waive |-> 0] : p \in PaymentForms}
  BY DEF StatementInit
<1>2. paid \in [amount : Int, disc : Nat, waive : Nat] /\ paid.waive \in {0, paid.disc}
  BY <1>1, NumbersAssumption DEF NoPayment
<1>3. Ids = {} /\ Entries = {}
  BY <1>1 DEF Ids, Entries
<1>4. hand \in [amount : Nat, number : Typed \cup {NoNumber}] /\ hand.number = NoNumber
  BY <1>1 DEF NoHand, NoNumber
<1>5. booking \in [Ids -> BookingRecords] /\ cancel \in [Entries -> Cancellations]
  BY <1>1, <1>3
<1> QED
  BY <1>1, <1>2, <1>3, <1>4, <1>5
  DEF StatementInv, StatementTyped, NumbersOnce, EntriesFound, HandWhole

\* A new booking is one.
LEMMA NewBookingTyped ==
    ASSUME NEW f \in BookingForms, NEW n \in Typed \cup {NoNumber}, NEW ours \in BOOLEAN
    PROVE  /\ NewBooking(ours, f, n) \in BookingRecords
           /\ NewBooking(ours, f, n).number = n /\ NewBooking(ours, f, n).ours = ours
BY NumbersAssumption DEF NewBooking, BookingRecords

\* What an inductive step needs of the documents before the request.
LEMMA StatementParts ==
    ASSUME StatementInv
    PROVE  /\ StatementTyped
           /\ Ids \in SUBSET (1..MaxBookings) /\ booking \in [Ids -> BookingRecords]
           /\ Entries \in SUBSET (1..MaxCancels) /\ cancel \in [Entries -> Cancellations]
           /\ "parted" \notin seen => NumbersOnce /\ EntriesFound
           /\ "settled" \notin seen => HandWhole
BY DEF StatementInv, StatementTyped

\* A request that leaves the bill entered by hand and the payment alone.
LEMMA OnlyBookings ==
    ASSUME StatementInv, UNCHANGED <<hand, paid>>, seen \subseteq seen',
           booking' \in [Ids' -> BookingRecords], Ids' \in SUBSET (1..MaxBookings),
           cancel' \in [Entries' -> Cancellations], Entries' \in SUBSET (1..MaxCancels),
           "parted" \notin seen' => NumbersOnce' /\ EntriesFound'
    PROVE  StatementInv'
<1>1. StatementTyped'
  BY DEF StatementInv, StatementTyped
<1>2. "settled" \notin seen' => HandWhole'
  BY DEF StatementInv, HandWhole
<1> QED
  BY <1>1, <1>2 DEF StatementInv

\* A booking added under a number nobody has.
LEMMA AddBookingKeeps ==
    ASSUME StatementInv, NEW f \in BookingForms, NEW n \in Typed \cup {NoNumber}, AddBooking(f, n)
    PROVE  StatementInv'
<1> DEFINE b == IF Ids = {} THEN 1 ELSE Max(Ids) + 1
           r == NewBooking(TRUE, f, n)
<1>1. /\ b <= MaxBookings /\ ~Taken(n) /\ booking' = With(booking, b, r)
      /\ seen' = seen /\ UNCHANGED <<cancel, hand, paid>>
  BY DEF AddBooking, Write
<1>2. /\ StatementTyped /\ Ids \in SUBSET (1..MaxBookings) /\ booking \in [Ids -> BookingRecords]
      /\ Entries \in SUBSET (1..MaxCancels) /\ cancel \in [Entries -> Cancellations]
      /\ "parted" \notin seen => NumbersOnce /\ EntriesFound
  BY StatementParts
<1>3. b \in 1..MaxBookings /\ b \notin Ids
  <2>1. MaxBookings \in Nat /\ IsFiniteSet(Ids)
    BY <1>2, FiniteDocuments
  <2>2. CASE Ids = {}
    BY <1>1, <2>1, <2>2
  <2>3. CASE Ids # {}
    <3>1. Ids \in SUBSET Nat
      BY <1>2
    <3>2. Max(Ids) \in Ids /\ \A x \in Ids : x <= Max(Ids)
      BY <2>1, <2>3, <3>1, GreatestAndLeast
    <3>3. b = Max(Ids) + 1
      BY <2>3
    <3> HIDE DEF b
    <3>4. Max(Ids) \in Nat /\ Max(Ids) >= 1
      <4>1. \A x \in Ids : x \in Nat /\ x >= 1
        BY <1>2
      <4> QED
        BY ONLY <3>2, <4>1
    <3>5. b \notin Ids
      BY <3>2, <3>3, <3>4
    <3> QED
      BY <3>3, <3>4, <3>5, <1>1, <2>1
  <2> QED
    BY <2>2, <2>3
<1>4. r \in BookingRecords /\ r.number = n /\ r.ours = TRUE
  BY NewBookingTyped
<1> HIDE DEF b, r
<1>5. /\ Ids' = Ids \cup {b} /\ booking'[b] = r /\ \A c \in Ids : booking'[c] = booking[c]
      /\ booking' \in [Ids' -> BookingRecords]
  BY <1>1, <1>2, <1>3, <1>4 DEF With, Ids
<1>6. Entries' = Entries /\ cancel' \in [Entries' -> Cancellations] /\ Ids' \in SUBSET (1..MaxBookings)
  BY <1>1, <1>2, <1>3, <1>5 DEF Entries
<1>7. ASSUME "parted" \notin seen' PROVE NumbersOnce' /\ EntriesFound'
  <2>1. NumbersOnce /\ EntriesFound
    BY <1>1, <1>2, <1>7
  <2>2. n = NoNumber \/ (hand.number # n /\ \A c \in Ids : booking[c].number # n)
    BY <1>1 DEF Taken
  <2>3. NumbersOnce'
    <3>1. \A c \in Ids' : booking'[c].number = IF c = b THEN n ELSE booking[c].number
      BY <1>3, <1>4, <1>5
    <3>2. \A c \in Ids' : c = b \/ c \in Ids
      BY <1>5
    <3> QED
      BY <2>1, <2>2, <3>1, <3>2, <1>1 DEF NumbersOnce
  <2>4. EntriesFound'
    <3>1. SUFFICES ASSUME NEW e \in Entries PROVE \E c \in Ours' : cancel[e].ref = NumberOf(c)'
      BY <1>1, <1>6 DEF EntriesFound
    <3>2. PICK c \in Ours : cancel[e].ref = NumberOf(c)
      BY <2>1 DEF EntriesFound
    <3>3. c \in Ids /\ booking'[c] = booking[c]
      BY <1>5 DEF Ours
    <3>4. NumberOf(c)' = NumberOf(c) /\ c \in Ours'
      BY <3>3, <1>5 DEF NumberOf, Ours
    <3> QED
      BY <3>2, <3>4
  <2> QED
    BY <2>3, <2>4
<1>8. seen \subseteq seen' /\ UNCHANGED <<hand, paid>> /\ Entries' \in SUBSET (1..MaxCancels)
  BY <1>1, <1>2, <1>6
<1> QED
  BY <1>5, <1>6, <1>7, <1>8, OnlyBookings

\* A booking edited: its number, its client and its amounts.
LEMMA EditBookingKeeps ==
    ASSUME StatementInv, NEW b \in Ids, NEW f \in BookingForms, NEW n \in Typed \cup {NoNumber},
           NEW ours \in BOOLEAN, EditBooking(b, f, n, ours)
    PROVE  StatementInv'
<1> DEFINE r == NewBooking(ours, f, n)
           parts == \/ EntriesUnder(RefsOfBooking(b)) # {} /\ (n # booking[b].number \/ ours # booking[b].ours)
                    \/ n # NoNumber /\ (hand.number = n \/ \E c \in Ids \ {b} : booking[c].number = n)
<1>1. booking' = [booking EXCEPT ![b] = r] /\ UNCHANGED <<cancel, hand, paid>>
  BY DEF EditBooking
<1>2. seen' = IF parts THEN seen \cup {"parted"} ELSE seen
  BY DEF EditBooking, Write
<1>3. /\ StatementTyped /\ Ids \in SUBSET (1..MaxBookings) /\ booking \in [Ids -> BookingRecords]
      /\ Entries \in SUBSET (1..MaxCancels) /\ cancel \in [Entries -> Cancellations]
      /\ "parted" \notin seen => NumbersOnce /\ EntriesFound
  BY StatementParts
<1>4. r \in BookingRecords /\ r.number = n /\ r.ours = ours
  BY NewBookingTyped
<1> HIDE DEF r
<1>5. /\ Ids' = Ids /\ booking'[b] = r /\ \A c \in Ids \ {b} : booking'[c] = booking[c]
      /\ booking' \in [Ids' -> BookingRecords]
  BY <1>1, <1>3, <1>4 DEF Ids
<1>6. Entries' = Entries /\ cancel' \in [Entries' -> Cancellations]
  BY <1>1, <1>3 DEF Entries
<1>7. ASSUME "parted" \notin seen' PROVE NumbersOnce' /\ EntriesFound'
  <2>1. ~parts /\ seen' = seen
    BY <1>2, <1>7
  <2>2. NumbersOnce /\ EntriesFound
    BY <1>3, <1>7, <2>1
  <2>3. NumbersOnce'
    <3>1. \A c \in Ids : booking'[c].number = IF c = b THEN n ELSE booking[c].number
      BY <1>4, <1>5
    <3>2. n # NoNumber => hand.number # n /\ \A c \in Ids \ {b} : booking[c].number # n
      BY <2>1
    <3> QED
      BY <2>2, <3>1, <3>2, <1>1, <1>5 DEF NumbersOnce
  <2>4. EntriesFound'
    <3>1. SUFFICES ASSUME NEW e \in Entries PROVE \E c \in Ours' : cancel[e].ref = NumberOf(c)'
      BY <1>1, <1>6 DEF EntriesFound
    <3>2. PICK c \in Ours : cancel[e].ref = NumberOf(c)
      BY <2>2 DEF EntriesFound
    <3>3. c \in Ids
      BY DEF Ours
    <3>4. booking'[c].number = booking[c].number /\ booking'[c].ours = booking[c].ours
      <4>1. CASE c # b
        BY <4>1, <3>3, <1>5
      <4>2. CASE c = b
        <5>1. NumberOf(b) \in RefsOfBooking(b)
          BY <1>3, BookingInFigures
        <5>2. e \in EntriesUnder(RefsOfBooking(b))
          BY <3>2, <4>2, <5>1 DEF EntriesUnder
        <5>3. n = booking[b].number /\ ours = booking[b].ours
          BY <2>1, <5>2
        <5> QED
          BY <4>2, <5>3, <1>4, <1>5
      <4> QED
        BY <4>1, <4>2
    <3>5. NumberOf(c)' = NumberOf(c) /\ c \in Ours'
      BY <3>3, <3>4, <1>5 DEF NumberOf, Ours
    <3> QED
      BY <3>2, <3>5
  <2> QED
    BY <2>3, <2>4
<1>8. seen \subseteq seen' /\ UNCHANGED <<hand, paid>> /\ Ids' \in SUBSET (1..MaxBookings)
      /\ Entries' \in SUBSET (1..MaxCancels)
  BY <1>1, <1>2, <1>3, <1>5, <1>6
<1> QED
  BY <1>5, <1>6, <1>7, <1>8, OnlyBookings

\* A booking deleted with the entries under its numbers.
LEMMA DeleteBookingKeeps ==
    ASSUME StatementInv, NEW b \in Ids, DeleteBooking(b)
    PROVE  StatementInv'
<1> DEFINE E == EntriesUnder(RefsOfBooking(b))
<1>1. /\ booking' = Without(booking, {b}) /\ cancel' = Without(cancel, E)
      /\ seen' = seen /\ UNCHANGED <<hand, paid>>
  BY DEF DeleteBooking, Write
<1>2. /\ StatementTyped /\ Ids \in SUBSET (1..MaxBookings) /\ booking \in [Ids -> BookingRecords]
      /\ Entries \in SUBSET (1..MaxCancels) /\ cancel \in [Entries -> Cancellations]
      /\ "parted" \notin seen => NumbersOnce /\ EntriesFound
  BY StatementParts
<1>3. \A e \in Entries \ E : cancel[e].ref \notin RefsOfBooking(b)
  BY DEF EntriesUnder
<1> HIDE DEF E
<1>4. /\ Ids' = Ids \ {b} /\ \A c \in Ids' : booking'[c] = booking[c]
      /\ booking' \in [Ids' -> BookingRecords]
  BY <1>1, <1>2 DEF Without, Ids
<1>5. /\ Entries' = Entries \ E /\ \A e \in Entries' : cancel'[e] = cancel[e]
      /\ cancel' \in [Entries' -> Cancellations]
  BY <1>1, <1>2 DEF Without, Entries
<1>6. ASSUME "parted" \notin seen' PROVE NumbersOnce' /\ EntriesFound'
  <2>1. NumbersOnce /\ EntriesFound
    BY <1>1, <1>2, <1>6
  <2>2. NumbersOnce'
    <3>1. \A c \in Ids' : c \in Ids /\ booking'[c].number = booking[c].number
      BY <1>4
    <3>2. \A c, d \in Ids' : booking'[c].number # NoNumber /\ booking'[c].number = booking'[d].number => c = d
      BY <2>1, <3>1 DEF NumbersOnce
    <3>3. \A c \in Ids' : hand.number # NoNumber => booking'[c].number # hand.number
      BY <2>1, <3>1 DEF NumbersOnce
    <3> QED
      BY <1>1, <3>2, <3>3 DEF NumbersOnce
  <2>3. EntriesFound'
    <3>1. SUFFICES ASSUME NEW e \in Entries \ E PROVE \E c \in Ours' : cancel'[e].ref = NumberOf(c)'
      BY <1>5 DEF EntriesFound
    <3>2. PICK c \in Ours : cancel[e].ref = NumberOf(c)
      BY <2>1 DEF EntriesFound
    <3>3. NumberOf(b) \in RefsOfBooking(b)
      BY <1>2, BookingInFigures
    <3>4. c \in Ids' /\ c \in Ids
      BY <1>3, <1>4, <3>2, <3>3 DEF Ours
    <3>5. NumberOf(c)' = NumberOf(c) /\ c \in Ours'
      BY <3>4, <1>4 DEF NumberOf, Ours
    <3> QED
      BY <3>2, <3>5, <1>5
  <2> QED
    BY <2>2, <2>3
<1>7. seen \subseteq seen' /\ UNCHANGED <<hand, paid>> /\ Ids' \in SUBSET (1..MaxBookings)
      /\ Entries' \in SUBSET (1..MaxCancels)
  BY <1>1, <1>2, <1>4, <1>5
<1> QED
  BY <1>4, <1>5, <1>6, <1>7, OnlyBookings

\* Bags cancelled: the entry names the booking by its present number.
LEMMA CancelBagsKeeps ==
    ASSUME StatementInv, NEW b \in Ids, NEW k \in 1..booking[b].qty, CancelBags(b, k)
    PROVE  StatementInv'
<1> DEFINE e == CHOOSE x \in 1..MaxCancels : x \notin Entries
           r == [ref |-> NumberOf(b), qty |-> k]
<1>1. /\ booking[b].ours /\ k <= booking[b].qty /\ Cardinality(Entries) < MaxCancels
      /\ booking' = [booking EXCEPT ![b].qty = @ - k] /\ cancel' = With(cancel, e, r)
      /\ seen' = seen /\ UNCHANGED <<hand, paid>>
  BY DEF CancelBags, Write
<1>2. /\ StatementTyped /\ Ids \in SUBSET (1..MaxBookings) /\ booking \in [Ids -> BookingRecords]
      /\ Entries \in SUBSET (1..MaxCancels) /\ cancel \in [Entries -> Cancellations]
      /\ "parted" \notin seen => NumbersOnce /\ EntriesFound
  BY StatementParts
<1>3. e \in 1..MaxCancels /\ e \notin Entries
  <2>1. MaxCancels \in Nat
    BY NumbersAssumption
  <2>2. Cardinality(1..MaxCancels) = MaxCancels
    BY <2>1, FS_Interval
  <2>3. Entries # 1..MaxCancels
    BY <1>1, <2>1, <2>2
  <2> QED
    BY <1>2, <2>3
<1>4. r \in Cancellations /\ r.ref = NumberOf(b)
  <2>1. /\ b \in Nat \ {0} /\ booking[b].number \in Typed \cup {NoNumber} /\ booking[b].qty \in Nat
    BY <1>2, BookingInFigures
  <2>2. Typed \subseteq Nat /\ NoNumber \in Nat
    BY NumbersAssumption DEF NoNumber
  <2>3. NumberOf(b) \in Nat
    BY <2>1, <2>2 DEF NumberOf
  <2>4. k \in Nat \ {0}
    BY <2>1
  <2> QED
    BY <2>3, <2>4 DEF Cancellations
<1> HIDE DEF e, r
<1>5. booking[b] \in BookingRecords /\ k \in Nat /\ k <= booking[b].qty
  BY <1>1, <1>2, BookingInFigures
<1>6. [booking[b] EXCEPT !.qty = @ - k] \in BookingRecords
  BY <1>5 DEF BookingRecords
<1>7. /\ Ids' = Ids /\ booking' \in [Ids' -> BookingRecords]
      /\ \A c \in Ids : booking'[c].number = booking[c].number /\ booking'[c].ours = booking[c].ours
  <2>1. booking' = [booking EXCEPT ![b] = [booking[b] EXCEPT !.qty = @ - k]]
    BY <1>1
  <2>2. /\ [booking[b] EXCEPT !.qty = @ - k].number = booking[b].number
        /\ [booking[b] EXCEPT !.qty = @ - k].ours = booking[b].ours
    BY <1>5 DEF BookingRecords
  <2>3. PICK v : v = [booking[b] EXCEPT !.qty = @ - k]
    OBVIOUS
  <2>4. booking' = [booking EXCEPT ![b] = v] /\ v \in BookingRecords
    BY <2>1, <2>3, <1>6
  <2>5. v.number = booking[b].number /\ v.ours = booking[b].ours
    BY <2>2, <2>3
  <2> QED
    BY <1>2, <2>4, <2>5 DEF Ids
<1>8. /\ Entries' = Entries \cup {e} /\ cancel'[e] = r /\ \A x \in Entries : cancel'[x] = cancel[x]
      /\ cancel' \in [Entries' -> Cancellations]
  BY <1>1, <1>2, <1>3, <1>4 DEF With, Entries
<1>9. \A c \in Ids : NumberOf(c)' = NumberOf(c)
  BY <1>7 DEF NumberOf
<1>10. Ours' = Ours /\ b \in Ours
  BY <1>1, <1>7 DEF Ours
<1>11. ASSUME "parted" \notin seen' PROVE NumbersOnce' /\ EntriesFound'
  <2>1. NumbersOnce /\ EntriesFound
    BY <1>1, <1>2, <1>11
  <2>2. NumbersOnce'
    BY <2>1, <1>1, <1>7 DEF NumbersOnce
  <2>3. EntriesFound'
    <3>1. SUFFICES ASSUME NEW x \in Entries \cup {e} PROVE \E c \in Ours : cancel'[x].ref = NumberOf(c)'
      BY <1>8, <1>10 DEF EntriesFound
    <3>2. \A c \in Ours : c \in Ids
      BY DEF Ours
    <3>3. CASE x = e
      BY <3>2, <3>3, <1>4, <1>8, <1>9, <1>10
    <3>4. CASE x \in Entries
      BY <3>2, <3>4, <2>1, <1>8, <1>9 DEF EntriesFound
    <3> QED
      BY <3>3, <3>4
  <2> QED
    BY <2>2, <2>3
<1>12. seen \subseteq seen' /\ UNCHANGED <<hand, paid>> /\ Ids' \in SUBSET (1..MaxBookings)
      /\ Entries' \in SUBSET (1..MaxCancels)
  BY <1>1, <1>2, <1>3, <1>7, <1>8
<1> QED
  BY <1>7, <1>8, <1>11, <1>12, OnlyBookings

\* A cancellation reverted: the goods return to a booking that has its number.
LEMMA RevertBagsKeeps ==
    ASSUME StatementInv, NEW e \in Entries, RevertBags(e)
    PROVE  StatementInv'
<1>1. PICK named : named = {b \in Ours : cancel[e].ref \in RefsOfBooking(b)}
  OBVIOUS
<1>2. PICK b : b = Max(named)
  OBVIOUS
<1>3. /\ named # {} /\ booking' = [booking EXCEPT ![b].qty = @ + cancel[e].qty]
      /\ cancel' = Without(cancel, {e}) /\ seen' = seen /\ UNCHANGED <<hand, paid>>
  BY <1>1, <1>2 DEF RevertBags, Write
<1>4. /\ StatementTyped /\ Ids \in SUBSET (1..MaxBookings) /\ booking \in [Ids -> BookingRecords]
      /\ Entries \in SUBSET (1..MaxCancels) /\ cancel \in [Entries -> Cancellations]
      /\ "parted" \notin seen => NumbersOnce /\ EntriesFound
  BY StatementParts
<1>5. b \in Ids
  <2>1. IsFiniteSet(Ours) /\ Ours \in SUBSET Ids
    BY <1>4, FiniteDocuments
  <2>2. named \in SUBSET Ours
    BY <1>1
  <2>3. IsFiniteSet(named)
    BY <2>1, <2>2, FS_Subset
  <2>4. named \in SUBSET Nat
    BY <2>1, <2>2, <1>4
  <2>5. Max(named) \in named
    BY <1>3, <2>3, <2>4, GreatestAndLeast
  <2> QED
    BY <2>1, <2>2, <2>5, <1>2
<1>6. PICK q : q = cancel[e].qty /\ q \in Nat
  BY <1>4 DEF Cancellations
<1>7. PICK v : v = [booking[b] EXCEPT !.qty = @ + q]
  OBVIOUS
<1>8. v \in BookingRecords /\ v.number = booking[b].number /\ v.ours = booking[b].ours
  <2>1. booking[b] \in BookingRecords
    BY <1>4, <1>5
  <2> QED
    BY <2>1, <1>6, <1>7 DEF BookingRecords
<1>9. booking' = [booking EXCEPT ![b] = v]
  BY <1>3, <1>6, <1>7
<1>10. /\ Ids' = Ids /\ booking' \in [Ids' -> BookingRecords]
       /\ \A c \in Ids : booking'[c].number = booking[c].number /\ booking'[c].ours = booking[c].ours
  BY <1>4, <1>5, <1>8, <1>9 DEF Ids
<1>11. /\ Entries' = Entries \ {e} /\ \A x \in Entries' : cancel'[x] = cancel[x]
       /\ cancel' \in [Entries' -> Cancellations]
  BY <1>3, <1>4 DEF Without, Entries
<1>12. ASSUME "parted" \notin seen' PROVE NumbersOnce' /\ EntriesFound'
  <2>1. NumbersOnce /\ EntriesFound
    BY <1>3, <1>4, <1>12
  <2>2. NumbersOnce'
    BY <2>1, <1>3, <1>10 DEF NumbersOnce
  <2>3. Ours' = Ours /\ \A c \in Ours : NumberOf(c)' = NumberOf(c)
    BY <1>10 DEF Ours, NumberOf
  <2>4. EntriesFound'
    BY <2>1, <2>3, <1>11 DEF EntriesFound
  <2> QED
    BY <2>2, <2>4
<1>13. seen \subseteq seen' /\ UNCHANGED <<hand, paid>> /\ Ids' \in SUBSET (1..MaxBookings)
      /\ Entries' \in SUBSET (1..MaxCancels)
  BY <1>3, <1>4, <1>10, <1>11
<1> QED
  BY <1>10, <1>11, <1>12, <1>13, OnlyBookings

\* A bill renumbered: only entries under its former number follow it.
LEMMA RenumberBillKeeps ==
    ASSUME StatementInv, NEW b \in Ids, NEW n \in Typed \cup {NoNumber}, RenumberBill(b, n)
    PROVE  StatementInv'
<1>1. PICK E : E = EntriesUnder({BillOf(b)})
  OBVIOUS
<1>2. /\ booking' = [booking EXCEPT ![b].bill = n]
      /\ cancel' = [e \in Entries |->
             IF cancel[e].ref = BillOf(b) THEN [cancel[e] EXCEPT !.ref = n] ELSE cancel[e]]
      /\ seen' = (IF E # {} THEN seen \cup {"parted"} ELSE seen) /\ UNCHANGED <<hand, paid>>
  BY <1>1 DEF RenumberBill, Write
<1>3. /\ StatementTyped /\ Ids \in SUBSET (1..MaxBookings) /\ booking \in [Ids -> BookingRecords]
      /\ Entries \in SUBSET (1..MaxCancels) /\ cancel \in [Entries -> Cancellations]
      /\ "parted" \notin seen => NumbersOnce /\ EntriesFound
  BY StatementParts
<1>4. PICK v : v = [booking[b] EXCEPT !.bill = n]
  OBVIOUS
<1>5. v \in BookingRecords /\ v.number = booking[b].number /\ v.ours = booking[b].ours
  <2>1. booking[b] \in BookingRecords
    BY <1>3
  <2> QED
    BY <2>1, <1>4 DEF BookingRecords
<1>6. booking' = [booking EXCEPT ![b] = v]
  BY <1>2, <1>4
<1>7. /\ Ids' = Ids /\ booking' \in [Ids' -> BookingRecords]
      /\ \A c \in Ids : booking'[c].number = booking[c].number /\ booking'[c].ours = booking[c].ours
  BY <1>3, <1>5, <1>6 DEF Ids
<1>8. Entries' = Entries /\ cancel' \in [Entries' -> Cancellations]
  <2>1. n \in Nat
    BY NumbersAssumption DEF NoNumber
  <2>2. \A e \in Entries : cancel[e] \in Cancellations /\ [cancel[e] EXCEPT !.ref = n] \in Cancellations
    BY <1>3, <2>1 DEF Cancellations
  <2>3. \A e \in Entries :
            (IF cancel[e].ref = BillOf(b) THEN [cancel[e] EXCEPT !.ref = n] ELSE cancel[e]) \in Cancellations
    BY <2>2
  <2>4. cancel' \in [Entries -> Cancellations]
    BY <1>2, <2>3
  <2>5. Entries' = Entries
    BY <1>2 DEF Entries
  <2> QED
    BY <2>4, <2>5
<1>9. ASSUME "parted" \notin seen' PROVE NumbersOnce' /\ EntriesFound'
  <2>1. NumbersOnce /\ EntriesFound
    BY <1>2, <1>3, <1>9
  <2>2. NumbersOnce'
    BY <2>1, <1>2, <1>7 DEF NumbersOnce
  <2>3. \A e \in Entries : cancel'[e] = cancel[e]
    <3>1. \A e \in Entries : cancel[e].ref # BillOf(b)
      BY <1>1, <1>2, <1>9 DEF EntriesUnder
    <3> QED
      BY <3>1, <1>2
  <2>4. Ours' = Ours /\ \A c \in Ours : NumberOf(c)' = NumberOf(c)
    BY <1>7 DEF Ours, NumberOf
  <2>5. EntriesFound'
    BY <2>1, <2>3, <2>4, <1>8 DEF EntriesFound
  <2> QED
    BY <2>2, <2>5
<1>10. seen \subseteq seen' /\ UNCHANGED <<hand, paid>> /\ Ids' \in SUBSET (1..MaxBookings)
      /\ Entries' \in SUBSET (1..MaxCancels)
  BY <1>2, <1>3, <1>7, <1>8
<1> QED
  BY <1>7, <1>8, <1>9, <1>10, OnlyBookings

\* A bill entered by hand, under a number nobody has, or deleted.
LEMMA HandKeeps ==
    ASSUME StatementInv, (\E n \in Typed : AddHand(n)) \/ DeleteHand
    PROVE  StatementInv'
<1>1. UNCHANGED <<booking, cancel, paid>> /\ seen' = seen
  BY DEF AddHand, DeleteHand, Write
<1>2. /\ hand' \in [amount : Nat, number : Typed \cup {NoNumber}] /\ HandWhole'
      /\ hand'.number = NoNumber \/ ~Taken(hand'.number)
  <2>1. ASSUME NEW n \in Typed, AddHand(n)
        PROVE  /\ hand' \in [amount : Nat, number : Typed \cup {NoNumber}] /\ HandWhole'
               /\ hand'.number = NoNumber \/ ~Taken(hand'.number)
    BY <2>1, NumbersAssumption DEF AddHand, HandWhole
  <2>2. CASE DeleteHand
    BY <2>2 DEF DeleteHand, HandWhole, NoHand
  <2> QED
    BY <2>1, <2>2
<1>3. Ids' = Ids /\ Entries' = Entries /\ Ours' = Ours /\ \A c \in Ours : NumberOf(c)' = NumberOf(c)
  BY <1>1 DEF Ids, Entries, Ours, NumberOf
<1>4. StatementTyped'
  BY <1>1, <1>2, <1>3 DEF StatementInv, StatementTyped
<1>5. ASSUME "parted" \notin seen' PROVE NumbersOnce' /\ EntriesFound'
  <2>1. NumbersOnce /\ EntriesFound
    BY <1>1, <1>5 DEF StatementInv
  <2>2. NumbersOnce'
    BY <2>1, <1>1, <1>2, <1>3 DEF NumbersOnce, Taken
  <2>3. EntriesFound'
    BY <2>1, <1>1, <1>3 DEF EntriesFound
  <2> QED
    BY <2>2, <2>3
<1> QED
  BY <1>2, <1>4, <1>5 DEF StatementInv

\* The client's payment, saved or deleted: bills get their numbers back, and only
\* a bill entered by hand loses what it settles.
LEMMA PaymentKeeps ==
    ASSUME StatementInv, (\E p \in PaymentForms : SaveClientPayment(p)) \/ DeleteClientPayment
    PROVE  StatementInv'
<1>1. /\ Rebuilt /\ cancel' = cancel /\ seen \subseteq seen'
      /\ "parted" \in seen' => "parted" \in seen
  BY DEF SaveClientPayment, DeleteClientPayment, Write
<1>2. /\ paid' \in [amount : Int, disc : Nat, waive : Nat] /\ paid'.waive \in {0, paid'.disc}
      /\ hand' \in [amount : Nat, number : Typed \cup {NoNumber}] /\ hand'.number = hand.number
      /\ hand' = hand \/ "settled" \in seen'
  <2>1. hand \in [amount : Nat, number : Typed \cup {NoNumber}]
    BY DEF StatementInv, StatementTyped
  <2>2. ASSUME NEW p \in PaymentForms, SaveClientPayment(p)
        PROVE  /\ paid' \in [amount : Int, disc : Nat, waive : Nat] /\ paid'.waive \in {0, paid'.disc}
               /\ hand' \in [amount : Nat, number : Typed \cup {NoNumber}] /\ hand'.number = hand.number
               /\ hand' = hand \/ "settled" \in seen'
    <3>1. p \in [amount : Int, disc : Nat]
      BY NumbersAssumption
    <3>2. paid' = [amount |-> p.amount, disc |-> p.disc, waive |-> p.disc]
      BY <2>2 DEF SaveClientPayment
    <3>3. PICK left \in 0..hand.amount :
              hand' = [hand EXCEPT !.amount = left] /\ Write("settled", left < hand.amount)
      BY <2>2 DEF SaveClientPayment
    <3>4. PICK a : a = hand.amount /\ a \in Nat /\ left \in Nat /\ left <= a
      BY <2>1
    <3>5. CASE left < a
      <4>1. "settled" \in seen'
        BY <3>3, <3>4, <3>5 DEF Write
      <4>2. hand' \in [amount : Nat, number : Typed \cup {NoNumber}] /\ hand'.number = hand.number
        BY <2>1, <3>3, <3>4
      <4> QED
        BY <3>1, <3>2, <4>1, <4>2
    <3>6. CASE left = a
      <4>1. hand' = hand
        BY <2>1, <3>3, <3>4, <3>6
      <4> QED
        BY <2>1, <3>1, <3>2, <4>1
    <3> QED
      BY <3>4, <3>5, <3>6
  <2>3. CASE DeleteClientPayment
    BY <2>1, <2>3 DEF DeleteClientPayment, NoPayment
  <2> QED
    BY <2>2, <2>3
<1>3. /\ Ids \in SUBSET (1..MaxBookings) /\ booking \in [Ids -> BookingRecords]
      /\ Entries \in SUBSET (1..MaxCancels) /\ cancel \in [Entries -> Cancellations]
      /\ "parted" \notin seen => NumbersOnce /\ EntriesFound
      /\ "settled" \notin seen => HandWhole
  BY StatementParts
<1>4. \A b \in Ids : /\ [booking[b] EXCEPT !.bill = Own] \in BookingRecords
                     /\ [booking[b] EXCEPT !.bill = Own].number = booking[b].number
                     /\ [booking[b] EXCEPT !.bill = Own].ours = booking[b].ours
  BY <1>3 DEF BookingRecords
<1>5. PICK w : w = [b \in Ids |-> [booking[b] EXCEPT !.bill = Own]]
  OBVIOUS
<1>6. /\ w \in [Ids -> BookingRecords]
      /\ \A c \in Ids : w[c].number = booking[c].number /\ w[c].ours = booking[c].ours
  BY <1>4, <1>5
<1>7. booking' = w
  BY <1>1, <1>5 DEF Rebuilt
<1>8. /\ Ids' = Ids /\ booking' \in [Ids' -> BookingRecords]
      /\ \A c \in Ids : booking'[c].number = booking[c].number /\ booking'[c].ours = booking[c].ours
  BY <1>6, <1>7 DEF Ids
<1>9. Entries' = Entries
  BY <1>1 DEF Entries
<1>10. StatementTyped'
  BY <1>1, <1>2, <1>3, <1>8, <1>9 DEF StatementTyped
<1>11. ASSUME "parted" \notin seen' PROVE NumbersOnce' /\ EntriesFound'
  <2>1. NumbersOnce /\ EntriesFound
    BY <1>1, <1>3, <1>11
  <2>2. NumbersOnce'
    BY <2>1, <1>2, <1>8 DEF NumbersOnce
  <2>3. Ours' = Ours /\ \A c \in Ours : NumberOf(c)' = NumberOf(c)
    BY <1>8 DEF Ours, NumberOf
  <2>4. EntriesFound'
    BY <2>1, <2>3, <1>1, <1>9 DEF EntriesFound
  <2> QED
    BY <2>2, <2>4
<1>12. ASSUME "settled" \notin seen' PROVE HandWhole'
  BY <1>1, <1>2, <1>3, <1>12 DEF HandWhole
<1> QED
  BY <1>10, <1>11, <1>12 DEF StatementInv

\* Every request keeps what the statements rest on.
LEMMA RequestsKeepStatement == StatementInv /\ [StatementNext]_statementVars => StatementInv'
<1> SUFFICES ASSUME StatementInv, [StatementNext]_statementVars PROVE StatementInv'
  OBVIOUS
<1>1. CASE UNCHANGED statementVars
  BY <1>1 DEF statementVars, StatementInv, StatementTyped, NumbersOnce, EntriesFound, HandWhole,
              Ids, Ours, Entries, NumberOf
<1>2. ASSUME NEW f \in BookingForms, NEW n \in Typed \cup {NoNumber}, AddBooking(f, n) PROVE StatementInv'
  BY <1>2, AddBookingKeeps
<1>3. ASSUME NEW f \in BookingForms, NEW n \in Typed \cup {NoNumber}, NEW b \in Ids, NEW ours \in BOOLEAN,
             EditBooking(b, f, n, ours)
      PROVE  StatementInv'
  BY <1>3, EditBookingKeeps
<1>4. ASSUME NEW b \in Ids, DeleteBooking(b) PROVE StatementInv'
  BY <1>4, DeleteBookingKeeps
<1>5. ASSUME NEW b \in Ids, NEW k \in 1..booking[b].qty, CancelBags(b, k) PROVE StatementInv'
  BY <1>5, CancelBagsKeeps
<1>6. ASSUME NEW b \in Ids, NEW n \in Typed \cup {NoNumber}, RenumberBill(b, n) PROVE StatementInv'
  BY <1>6, RenumberBillKeeps
<1>7. ASSUME NEW e \in Entries, RevertBags(e) PROVE StatementInv'
  BY <1>7, RevertBagsKeeps
<1>8. CASE (\E n \in Typed : AddHand(n)) \/ DeleteHand
  BY <1>8, HandKeeps
<1>9. CASE (\E p \in PaymentForms : SaveClientPayment(p)) \/ DeleteClientPayment
  BY <1>9, PaymentKeeps
<1> QED
  BY <1>1, <1>2, <1>3, <1>4, <1>5, <1>6, <1>7, <1>8, <1>9 DEF StatementNext

\* In every state of every history: the ledger, the list of payables and what is
\* left of the bills agree; while no request has parted an entry from its booking,
\* the client's page agrees with them and all with the documents.
THEOREM StatementsAgreeHolds == StatementSpec => []StatementsAgree
<1>1. StatementInv => StatementsAgree
  BY SoundStatementsAgree
<1> QED
  BY <1>1, InitKeepsStatement, RequestsKeepStatement, PTL DEF StatementSpec
=============================================================================
