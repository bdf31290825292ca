------------------------ MODULE GoodsAndSales_proofs ------------------------
(***************************************************************************)
(* Proofs about the goods of a client: what is left to deliver is one      *)
(* number however it is computed, and bags are conserved, for any number   *)
(* of bookings, sales, returns, cancellations and overlapping requests;    *)
(* and about the duplicate-submission guard of the direct-sale sheet, for  *)
(* any number of requests, sheets and payloads: one sale per sheet,        *)
(* truthful replies, and what an exception to the two weaker guards (the   *)
(* fingerprint of a keyless form, the bill-number check) must rest on.     *)
(***************************************************************************)
EXTENDS BookingPool, SaleSubmission, SumTheorems, SequenceTheorems, TLAPS

\* A request that is being served, by what it loaded.
Part == UNION {[rows -> Nat] : rows \in SUBSET Lots}
SaleForm == [op : {"sale", "edit"}, id : Sales, qty : Nat \ {0}, copy : Int, stale : BOOLEAN]
ReturnForm == [op : {"return", "reedit"}, id : Returns, qty : Nat \ {0}, copy : Int, stale : BOOLEAN]
CancelForm == [op : {"cancel"}, left : Part, copy : Part, stale : BOOLEAN]
RevertForm == [op : {"revert"}, lot : Lots, note : Nat, copy : Nat \cup {NoCopy}, stale : BOOLEAN]
RebookForm == [op : {"rebook"}, lot : Lots, qty : Nat, held : Nat, copy : Nat, stale : BOOLEAN]
GoodsForms == SaleForm \cup ReturnForm \cup CancelForm \cup RevertForm \cup RebookForm
CancelNote == [qty : Nat, void : BOOLEAN]

\* The parts of the type invariant: a cancellation leaves no line negative, what is
\* taken back is an entry of its booking, and a booking not yet made has nothing.
GoodsTyped ==
    /\ booked \in [Lots -> Nat] /\ ordered \in [Lots -> Int]
    /\ alloc \in [Lots \X Sales -> Nat]
    /\ sold \in [Sales -> Nat] /\ returned \in [Returns -> Nat]
    /\ total \in Int
LinesTyped ==
    /\ state \in [Lots -> {"new", "live", "deleted"}]
    /\ cancels \in [Lots -> Seq(CancelNote)]
    /\ \A i \in Lots : booked[i] > 0 => state[i] = "live"
    /\ \A i \in Lots : state[i] = "new" => cancels[i] = <<>>
Sound(r) ==
    /\ r \in GoodsForms
    /\ r.op = "cancel" => /\ DOMAIN r.copy = DOMAIN r.left
                          /\ \A i \in DOMAIN r.left : r.left[i] <= r.copy[i]
    /\ r.op = "revert" => r.note \in DOMAIN cancels[r.lot]
RequestsTyped ==
    /\ req \in [Actors -> GoodsForms \cup {Idle}]
    /\ \A a \in Actors : IsIdle(a) \/ Sound(req[a])
PoolTyped == GoodsTyped /\ LinesTyped /\ RequestsTyped

\* What a request loaded that nobody's commit has overtaken.
Fresh(r) ==
    /\ r.op \in {"sale", "edit", "return", "reedit"} => r.copy = total
    /\ r.op \in {"return", "reedit"} => r.qty <= Returnable(r.id)
    /\ r.op = "cancel" => \A i \in DOMAIN r.left : /\ r.copy[i] = booked[i]
                                                   /\ r.left[i] = booked[i] => ~Linked(i)
    /\ r.op = "revert" => /\ state[r.lot] = "live" /\ ~cancels[r.lot][r.note].void
                          /\ r.copy \in {NoCopy, booked[r.lot]}
    /\ r.op = "rebook" => /\ state[r.lot] = "live" /\ r.copy = booked[r.lot]
                          /\ r.held = Outstanding(cancels[r.lot]) /\ r.qty >= AllocatedOf(r.lot)
KnownFresh == \A a \in Actors : IsIdle(a) \/ req[a].stale \/ Fresh(req[a])

\* Two requests never post one return, and it is not posted yet.
Returning(a) == req[a].op = "return"
ReturnsApart ==
    \A a, b \in Actors : Returning(a) /\ Returning(b) =>
        returned[req[a].id] = 0 /\ (req[a].id = req[b].id => a = b)

Calm(events) == happened \cap events = {}
LineEvents == {"raced cancel", "raced revert", "raced edit"}
BagEvents == {"booking deleted", "raced cancel"}
ReturnEvents == {"delivery dropped", "raced return"}
OverEvents == {"booking deleted", "return dropped", "cancelled delivered", "raced cancel", "raced revert",
               "edited delivered"}

LinesConserved ==
    Calm(LineEvents) => \A i \in Lots : state[i] = "live" =>
                            booked[i] + Outstanding(cancels[i]) = ordered[i]
BagsAllocated ==
    Calm(BagEvents) => \A s \in Sales : Sum([i \in Lots |-> alloc[<<i, s>>]]) = sold[s]

\* Not more comes back than went out.
ReturnsCovered == Calm(ReturnEvents) => Sum(returned) <= Sum(sold)

\* What lines have delivered beyond what they hold is no more than what came back.
UsedIn(al) == [i \in Lots |-> Sum([s \in Sales |-> al[<<i, s>>]])]
OverIn(bk, al) == [i \in Lots |-> AtLeast0(UsedIn(al)[i] - bk[i])]
OverCovered == Calm(OverEvents) => Sum(OverIn(booked, alloc)) <= Sum(returned)

PoolInv == /\ PoolTyped /\ KnownFresh /\ ReturnsApart /\ LinesConserved /\ BagsAllocated
           /\ ReturnsCovered /\ OverCovered /\ StockExact

-----------------------------------------------------------------------------
(* Sums.                                                                   *)

\* There are finitely many bookings.
LEMMA LotsFinite == NLots \in Nat /\ IsFiniteSet(Lots)
  BY BoundsAssumption, FS_Interval DEF Lots

\* The sum over a function is the sum over its domain.
LEMMA SumOf ==
    ASSUME NEW S, NEW f, DOMAIN f = S
    PROVE  Sum(f) = SumFunctionOnSet(f, S)
  BY DEF Sum, SumFunction

\* A sum of naturals is a natural.
LEMMA SumNat ==
    ASSUME NEW S, IsFiniteSet(S), NEW f \in [S -> Nat]
    PROVE  Sum(f) \in Nat
<1>1. DOMAIN f = S /\ \A x \in S : f[x] \in Nat
  OBVIOUS
<1> QED BY <1>1, SumOf, SumType

\* One entry changes.
LEMMA SumOther ==
    ASSUME NEW S, IsFiniteSet(S), NEW f \in [S -> Nat], NEW h \in [S -> Nat], NEW d \in S,
           \A x \in S \ {d} : h[x] = f[x]
    PROVE  Sum(h) = Sum(f) + h[d] - f[d]
<1>1. DOMAIN f = S /\ DOMAIN h = S /\ \A x \in S : f[x] \in Int /\ h[x] \in Int
  OBVIOUS
<1>2. SumFunctionOnSet(h, S) = SumFunctionOnSet(f, S) + h[d] - f[d]
  BY <1>1, SumChange
<1> QED BY <1>1, <1>2, SumOf

\* Equal entries, equal sums.
LEMMA SumEqual ==
    ASSUME NEW S, IsFiniteSet(S), NEW f \in [S -> Nat], NEW h, DOMAIN h = S, \A x \in S : h[x] = f[x]
    PROVE  Sum(h) = Sum(f)
<1>1. DOMAIN f = S /\ \A x \in S : f[x] \in Int /\ h[x] = f[x]
  OBVIOUS
<1> QED BY <1>1, SumOf, SumSame

\* Larger entries, a larger sum.
LEMMA SumMonotone ==
    ASSUME NEW S, IsFiniteSet(S), NEW f \in [S -> Nat], NEW h \in [S -> Nat], \A x \in S : f[x] <= h[x]
    PROVE  Sum(f) <= Sum(h)
<1>1. DOMAIN f = S /\ DOMAIN h = S /\ \A x \in S : f[x] \in Nat /\ h[x] \in Nat /\ f[x] <= h[x]
  OBVIOUS
<1>2. SumFunctionOnSet(f, S) <= SumFunctionOnSet(h, S)
  BY <1>1, SumGrows
<1> QED BY <1>1, <1>2, SumOf

\* Sums add up entry by entry.
LEMMA SumAdded ==
    ASSUME NEW S, IsFiniteSet(S), NEW f \in [S -> Nat], NEW p \in [S -> Nat], NEW q \in [S -> Nat],
           \A x \in S : f[x] = p[x] + q[x]
    PROVE  Sum(f) = Sum(p) + Sum(q)
<1>1. /\ DOMAIN f = S /\ DOMAIN p = S /\ DOMAIN q = S
      /\ \A x \in S : p[x] \in Int /\ q[x] \in Int /\ f[x] = p[x] + q[x]
  OBVIOUS
<1>2. SumFunctionOnSet(f, S) = SumFunctionOnSet(p, S) + SumFunctionOnSet(q, S)
  BY <1>1, SumPlus
<1> QED BY <1>1, <1>2, SumOf

\* Naturals that sum to nothing are all nothing.
LEMMA SumNothing ==
    ASSUME NEW S, IsFiniteSet(S), NEW f \in [S -> Nat], Sum(f) = 0
    PROVE  \A x \in S : f[x] = 0
<1>1. SUFFICES ASSUME NEW d \in S PROVE f[d] = 0
  OBVIOUS
<1>2. DOMAIN f = S /\ \A x \in S : f[x] \in Int
  OBVIOUS
<1>3. SumFunctionOnSet(f, S) = f[d] + SumFunctionOnSet(f, S \ {d})
  BY <1>2, SumRemove
<1>4. IsFiniteSet(S \ {d}) /\ \A x \in S \ {d} : f[x] \in Nat
  BY FS_RemoveElement
<1>5. SumFunctionOnSet(f, S \ {d}) \in Nat
  BY <1>4, SumType
<1> QED BY <1>2, <1>3, <1>5, SumOf

-----------------------------------------------------------------------------
(* Filling lines in order, as both passes of the allocation do.            *)

\* From the first on, each line takes what the ones before it leave: together they
\* take all that is asked for or all they have.
FilledUp(n, f, g, q) ==
    \A i \in 1..n : /\ f[i] \in Nat
                    /\ g[i] = SmallerOf(f[i], AtLeast0(q - SumFunctionOnSet(f, 1..(i - 1))))
\* Taking from the first line on takes all there is, or all that is asked for.
LEMMA FillUp ==
    ASSUME NEW n \in Nat, NEW f, NEW g, NEW q \in Nat, FilledUp(n, f, g, q)
    PROVE  SumFunctionOnSet(g, 1..n) = SmallerOf(SumFunctionOnSet(f, 1..n), q)
<1> USE DEF FilledUp
<1> DEFINE F(m) == SumFunctionOnSet(f, 1..m)
           G(m) == SumFunctionOnSet(g, 1..m)
           Bad == {m \in 0..n : G(m) # SmallerOf(F(m), q)}
<1>0. ASSUME NEW m \in 0..n PROVE F(m) \in Nat
  <2>1. IsFiniteSet(1..m) /\ \A i \in 1..m : f[i] \in Nat
    BY FS_Interval
  <2> QED BY <2>1, SumType
<1>1. G(0) = SmallerOf(F(0), q)
  <2>1. 1..0 = {} /\ IsFiniteSet({})
    BY FS_EmptySet
  <2>2. SumFunctionOnSet(f, {}) = 0 /\ SumFunctionOnSet(g, {}) = 0
    BY <2>1, SumZero
  <2> QED BY <2>1, <2>2 DEF SmallerOf
<1>2. ASSUME NEW m \in 1..n, G(m - 1) = SmallerOf(F(m - 1), q) PROVE G(m) = SmallerOf(F(m), q)
  <2>1. IsFiniteSet(1..m) /\ (1..m) \ {m} = 1..(m - 1) /\ m \in 1..m
    <3>1. IsFiniteSet(1..m)
      BY FS_Interval
    <3>2. (1..m) \ {m} = 1..(m - 1) /\ m \in 1..m
      OBVIOUS
    <3> QED BY <3>1, <3>2
  <2>2. F(m - 1) \in Nat /\ f[m] \in Nat /\ g[m] = SmallerOf(f[m], AtLeast0(q - F(m - 1)))
    BY <1>0
  <2>3. \A i \in 1..m : f[i] \in Int /\ g[i] \in Int
    <3>1. ASSUME NEW i \in 1..m PROVE f[i] \in Nat /\ g[i] \in Int
      <4>1. F(i - 1) \in Nat /\ f[i] \in Nat /\ g[i] = SmallerOf(f[i], AtLeast0(q - F(i - 1)))
        BY <1>0
      <4> HIDE DEF F
      <4> QED BY <4>1 DEF SmallerOf, AtLeast0
    <3> QED BY <3>1
  <2>4. F(m) = f[m] + SumFunctionOnSet(f, (1..m) \ {m})
    BY ONLY <2>1, <2>3, SumRemove
  <2>5. G(m) = g[m] + SumFunctionOnSet(g, (1..m) \ {m})
    BY ONLY <2>1, <2>3, SumRemove
  <2>6. F(m) = f[m] + F(m - 1) /\ G(m) = g[m] + G(m - 1)
    BY <2>1, <2>4, <2>5
  <2> HIDE DEF F, G
  <2> QED BY <1>2, <2>2, <2>6 DEF SmallerOf, AtLeast0
<1>3. Bad = {}
  <2>1. SUFFICES ASSUME Bad # {} PROVE FALSE
    OBVIOUS
  <2>2. PICK m \in Bad : \A k \in Bad : m <= k
    <3>1. Bad \in SUBSET Nat
      OBVIOUS
    <3> HIDE DEF Bad
    <3> QED BY <2>1, <3>1, LeastNumber
  <2> HIDE DEF F, G
  <2>3. m # 0
    BY <1>1
  <2>4. m \in 1..n /\ m - 1 \in 0..n /\ m - 1 \notin Bad
    BY <2>2, <2>3
  <2> QED BY <1>2, <2>2, <2>4
<1>4. n \in 0..n
  OBVIOUS
<1> HIDE DEF F, G
<1>5. G(n) = SmallerOf(F(n), q)
  BY <1>3, <1>4
<1> QED BY <1>5 DEF F, G

\* The same from the last line down.
FilledDown(n, f, g, q) ==
    \A i \in 1..n : /\ f[i] \in Nat
                    /\ g[i] = SmallerOf(f[i], AtLeast0(q - SumFunctionOnSet(f, (i + 1)..n)))
\* So does taking from the last line backwards.
LEMMA FillDown ==
    ASSUME NEW n \in Nat, NEW f, NEW g, NEW q \in Nat, FilledDown(n, f, g, q)
    PROVE  SumFunctionOnSet(g, 1..n) = SmallerOf(SumFunctionOnSet(f, 1..n), q)
<1> USE DEF FilledDown
<1> DEFINE F(m) == SumFunctionOnSet(f, (n - m + 1)..n)
           G(m) == SumFunctionOnSet(g, (n - m + 1)..n)
           Bad == {m \in 0..n : G(m) # SmallerOf(F(m), q)}
<1>0. ASSUME NEW m \in 0..n PROVE F(m) \in Nat
  <2>1. IsFiniteSet((n - m + 1)..n) /\ \A i \in (n - m + 1)..n : f[i] \in Nat
    BY FS_Interval
  <2> QED BY <2>1, SumType
<1>1. G(0) = SmallerOf(F(0), q)
  <2>1. (n - 0 + 1)..n = {} /\ IsFiniteSet({})
    BY FS_EmptySet
  <2>2. SumFunctionOnSet(f, {}) = 0 /\ SumFunctionOnSet(g, {}) = 0
    BY <2>1, SumZero
  <2> QED BY <2>1, <2>2 DEF SmallerOf
<1>2. ASSUME NEW m \in 1..n, G(m - 1) = SmallerOf(F(m - 1), q) PROVE G(m) = SmallerOf(F(m), q)
  <2> DEFINE i == n - m + 1
  <2>1. /\ IsFiniteSet(i..n) /\ i \in i..n /\ i \in 1..n
        /\ (i..n) \ {i} = (n - (m - 1) + 1)..n /\ n - (m - 1) + 1 = i + 1
    <3>1. n - (m - 1) + 1 = i + 1 /\ i \in 1..n /\ i \in i..n
      OBVIOUS
    <3>2. IsFiniteSet(i..n)
      BY <3>1, FS_Interval
    <3>3. (i..n) \ {i} = (i + 1)..n
      <4> HIDE DEF i
      <4> QED BY <3>1
    <3> QED BY <3>1, <3>2, <3>3
  <2>2. F(m - 1) \in Nat /\ f[i] \in Nat /\ g[i] = SmallerOf(f[i], AtLeast0(q - F(m - 1)))
    <3>1. m - 1 \in 0..n
      OBVIOUS
    <3>2. F(m - 1) = SumFunctionOnSet(f, (i + 1)..n)
      BY <2>1
    <3> QED BY <1>0, <2>1, <3>1, <3>2
  <2>3. \A k \in i..n : f[k] \in Int /\ g[k] \in Int
    <3>1. ASSUME NEW k \in i..n PROVE f[k] \in Nat /\ g[k] \in Int
      <4>1. n - k \in 0..n /\ n - (n - k) + 1 = k + 1 /\ k \in 1..n
        OBVIOUS
      <4>2. F(n - k) \in Nat /\ f[k] \in Nat /\ g[k] = SmallerOf(f[k], AtLeast0(q - F(n - k)))
        BY <1>0, <4>1
      <4> HIDE DEF F
      <4> QED BY <4>2 DEF SmallerOf, AtLeast0
    <3> QED BY <3>1
  <2>4. F(m) = f[i] + SumFunctionOnSet(f, (i..n) \ {i})
    <3>1. F(m) = SumFunctionOnSet(f, i..n) /\ i \in i..n /\ IsFiniteSet(i..n)
      BY <2>1
    <3>2. \A k \in i..n : f[k] \in Int
      BY ONLY <2>3
    <3> HIDE DEF F, i
    <3> QED BY ONLY <3>1, <3>2, SumRemove
  <2>5. G(m) = g[i] + SumFunctionOnSet(g, (i..n) \ {i})
    <3>1. G(m) = SumFunctionOnSet(g, i..n) /\ i \in i..n /\ IsFiniteSet(i..n)
      BY <2>1
    <3>2. \A k \in i..n : g[k] \in Int
      BY ONLY <2>3
    <3> HIDE DEF G, i
    <3> QED BY ONLY <3>1, <3>2, SumRemove
  <2>6. F(m) = f[i] + F(m - 1) /\ G(m) = g[i] + G(m - 1)
    BY <2>1, <2>4, <2>5
  <2> HIDE DEF F, G, i
  <2> QED BY <1>2, <2>2, <2>6 DEF SmallerOf, AtLeast0
<1>3. Bad = {}
  <2>1. SUFFICES ASSUME Bad # {} PROVE FALSE
    OBVIOUS
  <2>2. PICK m \in Bad : \A k \in Bad : m <= k
    <3>1. Bad \in SUBSET Nat
      OBVIOUS
    <3> HIDE DEF Bad
    <3> QED BY <2>1, <3>1, LeastNumber
  <2> HIDE DEF F, G
  <2>3. m # 0
    BY <1>1
  <2>4. m \in 1..n /\ m - 1 \in 0..n /\ m - 1 \notin Bad
    BY <2>2, <2>3
  <2> QED BY <1>2, <2>2, <2>4
<1>4. n \in 0..n /\ n - n + 1 = 1
  OBVIOUS
<1>5. F(n) = SumFunctionOnSet(f, 1..n) /\ G(n) = SumFunctionOnSet(g, 1..n)
  BY <1>4
<1> HIDE DEF F, G
<1>6. G(n) = SmallerOf(F(n), q)
  BY <1>3, <1>4
<1> QED BY <1>5, <1>6

-----------------------------------------------------------------------------
(* The table of allocations and the plan of a delivery.                    *)

Table == [Lots \X Sales -> Nat]
FreeIn(bk, al) == [i \in Lots |-> AtLeast0(bk[i] - UsedIn(al)[i])]
First(al, q) ==
    [i \in Lots |-> SmallerOf(FreeIn(booked, al)[i],
                              AtLeast0(q - SumFunctionOnSet(FreeIn(booked, al), 1..(i - 1))))]
Rest(al, q) == q - Sum(First(al, q))
Again(al) == [i \in Lots |-> IF Sum(returned) > 0 /\ UsedIn(al)[i] > 0 THEN booked[i] ELSE 0]
Second(al, q) ==
    [i \in Lots |-> SmallerOf(Again(al)[i],
                              AtLeast0(Rest(al, q) - SumFunctionOnSet(Again(al), (i + 1)..NLots)))]

\* A plan is its two passes.
LEMMA PlanIs ==
    ASSUME NEW al, NEW q
    PROVE  Plan(al, q) = [i \in Lots |-> First(al, q)[i] + Second(al, q)[i]]
  BY DEF Plan, First, Second, Rest, Again, FreeIn, UsedIn

\* What a line delivers, and all of them together.
LEMMA UsedTyped ==
    ASSUME NEW al \in Table
    PROVE  /\ UsedIn(al) \in [Lots -> Nat]
           /\ \A i \in Lots : UsedIn(al)[i] = Sum([s \in Sales |-> al[<<i, s>>]])
<1>1. ASSUME NEW i \in Lots PROVE Sum([s \in Sales |-> al[<<i, s>>]]) \in Nat
  <2>1. [s \in Sales |-> al[<<i, s>>]] \in [Sales -> Nat]
    BY DEF Table
  <2> QED BY <2>1, SumNat, GoodsAssumption
<1> QED BY <1>1 DEF UsedIn

\* The table summed line by line.
LEMMA ByLines ==
    ASSUME NEW al \in Table
    PROVE  Sum(al) = Sum(UsedIn(al)) /\ Sum(al) \in Nat
<1>1. IsFiniteSet(Lots) /\ IsFiniteSet(Sales) /\ DOMAIN al = Lots \X Sales /\ DOMAIN UsedIn(al) = Lots
  BY LotsFinite, GoodsAssumption DEF Table, UsedIn
<1>2. PICK k : k = [i \in Lots |-> [s \in Sales |-> al[<<i, s>>]]]
  OBVIOUS
<1>3. TableRows(al, Lots, Sales, UsedIn(al), k)
  <2>1. ASSUME NEW i \in Lots
        PROVE  /\ UsedIn(al)[i] = SumFunctionOnSet(k[i], Sales)
               /\ \A s \in Sales : al[<<i, s>>] \in Int /\ k[i][s] = al[<<i, s>>]
    <3>1. k[i] = [s \in Sales |-> al[<<i, s>>]]
      BY <1>2
    <3>2. DOMAIN k[i] = Sales /\ UsedIn(al)[i] = Sum(k[i])
      BY <3>1, UsedTyped
    <3>3. UsedIn(al)[i] = SumFunctionOnSet(k[i], Sales)
      BY <3>2, SumOf
    <3> QED BY <3>1, <3>3 DEF Table
  <2> QED BY <2>1 DEF TableRows
<1>4. SumFunctionOnSet(al, Lots \X Sales) = SumFunctionOnSet(UsedIn(al), Lots)
  BY <1>1, <1>3, SumRows
<1>5. Sum(UsedIn(al)) \in Nat
  BY <1>1, UsedTyped, SumNat
<1> QED BY <1>1, <1>4, <1>5, SumOf

\* The table summed sale by sale.
LEMMA BySales ==
    ASSUME NEW al \in Table, NEW h \in [Sales -> Nat],
           \A s \in Sales : Sum([i \in Lots |-> al[<<i, s>>]]) = h[s]
    PROVE  Sum(al) = Sum(h)
<1>1. IsFiniteSet(Lots) /\ IsFiniteSet(Sales) /\ DOMAIN al = Lots \X Sales /\ DOMAIN h = Sales
  BY LotsFinite, GoodsAssumption DEF Table
<1>2. PICK k : k = [s \in Sales |-> [i \in Lots |-> al[<<i, s>>]]]
  OBVIOUS
<1>3. TableColumns(al, Lots, Sales, h, k)
  <2>1. ASSUME NEW s \in Sales
        PROVE  /\ h[s] = SumFunctionOnSet(k[s], Lots)
               /\ \A i \in Lots : al[<<i, s>>] \in Int /\ k[s][i] = al[<<i, s>>]
    <3>1. k[s] = [i \in Lots |-> al[<<i, s>>]]
      BY <1>2
    <3>2. DOMAIN k[s] = Lots /\ h[s] = Sum(k[s])
      BY <3>1
    <3>3. h[s] = SumFunctionOnSet(k[s], Lots)
      BY <3>2, SumOf
    <3> QED BY <3>1, <3>3 DEF Table
  <2> QED BY <2>1 DEF TableColumns
<1>4. SumFunctionOnSet(al, Lots \X Sales) = SumFunctionOnSet(h, Sales)
  BY <1>1, <1>3, SumColumns
<1> QED BY <1>1, <1>4, SumOf

\* What is free, less what was delivered beyond, is what was booked and not delivered.
LEMMA FreeAndOver ==
    ASSUME NEW bk \in [Lots -> Nat], NEW al \in Table
    PROVE  /\ FreeIn(bk, al) \in [Lots -> Nat] /\ OverIn(bk, al) \in [Lots -> Nat]
           /\ Sum(FreeIn(bk, al)) \in Nat /\ Sum(OverIn(bk, al)) \in Nat /\ Sum(bk) \in Nat
           /\ Sum(FreeIn(bk, al)) + Sum(al) = Sum(bk) + Sum(OverIn(bk, al))
<1>1. UsedIn(al) \in [Lots -> Nat] /\ IsFiniteSet(Lots)
  BY UsedTyped, LotsFinite
<1>2. PICK u : u = UsedIn(al)
  OBVIOUS
<1>3. PICK f, o : /\ f = FreeIn(bk, al) /\ o = OverIn(bk, al)
  OBVIOUS
<1>4. f \in [Lots -> Nat] /\ o \in [Lots -> Nat] /\ \A i \in Lots : f[i] + u[i] = bk[i] + o[i]
  <2>1. f = [i \in Lots |-> AtLeast0(bk[i] - u[i])] /\ o = [i \in Lots |-> AtLeast0(u[i] - bk[i])]
    BY <1>2, <1>3 DEF FreeIn, OverIn
  <2> QED BY <1>1, <1>2, <2>1 DEF AtLeast0
<1>5. PICK h : h = [i \in Lots |-> f[i] + u[i]]
  OBVIOUS
<1>6. h \in [Lots -> Nat] /\ \A i \in Lots : h[i] = f[i] + u[i] /\ h[i] = bk[i] + o[i]
  BY <1>1, <1>2, <1>4, <1>5
<1>7. Sum(h) = Sum(f) + Sum(u)
  BY <1>1, <1>2, <1>4, <1>6, SumAdded
<1>8. Sum(h) = Sum(bk) + Sum(o)
  BY <1>1, <1>4, <1>6, SumAdded
<1>9. Sum(f) \in Nat /\ Sum(o) \in Nat /\ Sum(bk) \in Nat
  BY <1>1, <1>4, SumNat
<1> QED BY <1>2, <1>3, <1>4, <1>7, <1>8, <1>9, ByLines

\* The plan: the first pass gives all that is asked for or all that is free, the
\* second what is left or all there is to give again.
LEMMA PlanFacts ==
    ASSUME GoodsTyped, NEW al \in Table, NEW q \in Nat
    PROVE  /\ Plan(al, q) \in [Lots -> Nat]
           /\ First(al, q) \in [Lots -> Nat] /\ Second(al, q) \in [Lots -> Nat]
           /\ Again(al) \in [Lots -> Nat]
           /\ \A i \in Lots : /\ Plan(al, q)[i] = First(al, q)[i] + Second(al, q)[i]
                              /\ First(al, q)[i] <= FreeIn(booked, al)[i]
           /\ Sum(First(al, q)) = SmallerOf(Sum(FreeIn(booked, al)), q)
           /\ Sum(Second(al, q)) = SmallerOf(Sum(Again(al)), Rest(al, q))
           /\ Sum(Plan(al, q)) = Sum(First(al, q)) + Sum(Second(al, q))
           /\ Rest(al, q) \in Nat
<1>1. IsFiniteSet(Lots) /\ NLots \in Nat /\ booked \in [Lots -> Nat] /\ UsedIn(al) \in [Lots -> Nat]
  BY UsedTyped, LotsFinite DEF GoodsTyped
<1>2. PICK f, g : f = FreeIn(booked, al) /\ g = First(al, q)
  OBVIOUS
<1>3. f \in [Lots -> Nat] /\ Sum(f) \in Nat
  BY <1>1, <1>2, FreeAndOver
<1>4. ASSUME NEW i \in Lots
      PROVE  g[i] = SmallerOf(f[i], AtLeast0(q - SumFunctionOnSet(f, 1..(i - 1)))) /\ g[i] \in Nat /\ g[i] <= f[i]
  <2>1. g[i] = SmallerOf(f[i], AtLeast0(q - SumFunctionOnSet(f, 1..(i - 1))))
    BY <1>2 DEF First
  <2>2. SumFunctionOnSet(f, 1..(i - 1)) \in Nat
    <3>1. i \in Nat /\ 1..(i - 1) \subseteq Lots
      BY <1>1 DEF Lots
    <3>2. IsFiniteSet(1..(i - 1)) /\ \A x \in 1..(i - 1) : f[x] \in Nat
      BY <1>1, <1>3, <3>1, FS_Subset
    <3> QED BY <3>2, SumType
  <2> QED BY <1>3, <2>1, <2>2 DEF SmallerOf, AtLeast0
<1>5. g \in [Lots -> Nat]
  BY <1>2, <1>4 DEF First
<1>6. Sum(g) = SmallerOf(Sum(f), q)
  <2>1. FilledUp(NLots, f, g, q)
    BY <1>3, <1>4 DEF Lots, FilledUp
  <2>2. SumFunctionOnSet(g, Lots) = SmallerOf(SumFunctionOnSet(f, Lots), q)
    BY <1>1, <2>1, FillUp DEF Lots
  <2> QED BY <1>3, <1>5, <2>2, SumOf
<1>7. PICK r, a, h : r = Rest(al, q) /\ a = Again(al) /\ h = Second(al, q)
  OBVIOUS
<1>8. r \in Nat
  <2>1. r = q - Sum(g)
    BY <1>2, <1>7 DEF Rest
  <2> QED BY <1>3, <1>6, <2>1 DEF SmallerOf
<1>9. a \in [Lots -> Nat]
  BY <1>1, <1>7 DEF Again
<1>10. ASSUME NEW i \in Lots
       PROVE  h[i] = SmallerOf(a[i], AtLeast0(r - SumFunctionOnSet(a, (i + 1)..NLots))) /\ h[i] \in Nat
  <2>1. h[i] = SmallerOf(a[i], AtLeast0(r - SumFunctionOnSet(a, (i + 1)..NLots)))
    BY <1>7 DEF Second
  <2>2. SumFunctionOnSet(a, (i + 1)..NLots) \in Nat
    <3>1. (i + 1)..NLots \subseteq Lots
      BY <1>1 DEF Lots
    <3>2. IsFiniteSet((i + 1)..NLots) /\ \A x \in (i + 1)..NLots : a[x] \in Nat
      BY <1>1, <1>9, <3>1, FS_Subset
    <3> QED BY <3>2, SumType
  <2> QED BY <1>8, <1>9, <2>1, <2>2 DEF SmallerOf, AtLeast0
<1>11. h \in [Lots -> Nat]
  BY <1>7, <1>10 DEF Second
<1>12. Sum(h) = SmallerOf(Sum(a), r)
  <2>1. FilledDown(NLots, a, h, r)
    BY <1>9, <1>10 DEF Lots, FilledDown
  <2>2. SumFunctionOnSet(h, Lots) = SmallerOf(SumFunctionOnSet(a, Lots), r)
    BY <1>1, <1>8, <2>1, FillDown DEF Lots
  <2> QED BY <1>9, <1>11, <2>2, SumOf
<1>13. PICK p : p = Plan(al, q)
  OBVIOUS
<1>14. p = [i \in Lots |-> g[i] + h[i]]
  BY <1>2, <1>7, <1>13, PlanIs
<1>15. p \in [Lots -> Nat] /\ \A i \in Lots : p[i] = g[i] + h[i]
  BY <1>5, <1>11, <1>14
<1>16. Sum(p) = Sum(g) + Sum(h)
  BY <1>1, <1>5, <1>11, <1>15, SumAdded
<1> QED BY <1>2, <1>4, <1>5, <1>6, <1>7, <1>8, <1>9, <1>11, <1>12, <1>13, <1>15, <1>16

\* A delivery planned within the pool delivers beyond the lines no more than came back.
Placed(al, s, plan) == [p \in Lots \X Sales |-> IF p[2] = s THEN plan[p[1]] ELSE al[p]]
\* What the table holds once a sale is placed.
LEMMA PlacedIs ==
    ASSUME NEW al \in Table, NEW s \in Sales, NEW plan \in [Lots -> Nat]
    PROVE  /\ Placed(al, s, plan) \in Table
           /\ \A i \in Lots : /\ Placed(al, s, plan)[<<i, s>>] = plan[i]
                              /\ \A t \in Sales \ {s} : Placed(al, s, plan)[<<i, t>>] = al[<<i, t>>]
<1>1. ASSUME NEW p \in Lots \X Sales PROVE Placed(al, s, plan)[p] \in Nat
  <2>1. p[1] \in Lots /\ al[p] \in Nat /\ plan[p[1]] \in Nat
    BY DEF Table
  <2>2. Placed(al, s, plan)[p] = IF p[2] = s THEN plan[p[1]] ELSE al[p]
    BY DEF Placed
  <2> QED BY <2>1, <2>2
<1>2. ASSUME NEW i \in Lots, NEW t \in Sales
      PROVE  Placed(al, s, plan)[<<i, t>>] = IF t = s THEN plan[i] ELSE al[<<i, t>>]
  <2>1. <<i, t>> \in Lots \X Sales /\ <<i, t>>[1] = i /\ <<i, t>>[2] = t
    OBVIOUS
  <2> QED BY <2>1 DEF Placed
<1>3. Placed(al, s, plan) \in Table
  BY <1>1 DEF Table, Placed
<1> QED BY <1>2, <1>3

\* A placed plan exceeds the lines by no more than came back: the first pass takes only
\* what is free, and what the second takes the pool granted because goods were returned.
LEMMA PlanCovered ==
    ASSUME GoodsTyped, NEW al \in Table, NEW q \in Nat \ {0}, NEW s \in Sales, CanPlan(al, q),
           Sum(OverIn(booked, al)) <= Sum(returned)
    PROVE  Sum(OverIn(booked, Placed(al, s, Plan(al, q)))) <= Sum(returned)
<1>1. PICK p, g, h, f : /\ p = Plan(al, q) /\ g = First(al, q) /\ h = Second(al, q)
                        /\ f = FreeIn(booked, al)
  OBVIOUS
<1>2. /\ p \in [Lots -> Nat] /\ g \in [Lots -> Nat] /\ h \in [Lots -> Nat]
      /\ \A i \in Lots : p[i] = g[i] + h[i] /\ g[i] <= f[i]
      /\ Sum(g) = SmallerOf(Sum(f), q) /\ Sum(p) = Sum(g) + Sum(h)
  BY <1>1, PlanFacts
<1>3. PICK al2 : al2 = Placed(al, s, p)
  OBVIOUS
<1>4. al2 \in Table /\ \A i \in Lots : /\ al2[<<i, s>>] = p[i]
                                       /\ \A t \in Sales \ {s} : al2[<<i, t>>] = al[<<i, t>>]
  BY <1>2, <1>3, PlacedIs
<1>5. ASSUME NEW i \in Lots PROVE UsedIn(al2)[i] <= UsedIn(al)[i] + p[i]
  <2>1. PICK u, v : u = [t \in Sales |-> al[<<i, t>>]] /\ v = [t \in Sales |-> al2[<<i, t>>]]
    OBVIOUS
  <2>2. u \in [Sales -> Nat] /\ v \in [Sales -> Nat] /\ v[s] = p[i]
        /\ \A t \in Sales \ {s} : v[t] = u[t]
    BY <1>4, <2>1 DEF Table
  <2>3. Sum(v) = Sum(u) + v[s] - u[s] /\ Sum(u) \in Nat /\ u[s] \in Nat /\ v[s] \in Nat
    BY <2>2, SumOther, SumNat, GoodsAssumption
  <2>4. UsedIn(al2)[i] = Sum(v) /\ UsedIn(al)[i] = Sum(u)
    BY <1>4, <2>1, UsedTyped
  <2> QED BY <1>2, <2>2, <2>3, <2>4
<1>6. PICK o, o2 : o = OverIn(booked, al) /\ o2 = OverIn(booked, al2)
  OBVIOUS
<1>7. booked \in [Lots -> Nat] /\ IsFiniteSet(Lots)
  BY LotsFinite DEF GoodsTyped
<1>8. /\ o \in [Lots -> Nat] /\ o2 \in [Lots -> Nat] /\ f \in [Lots -> Nat]
      /\ Sum(o) \in Nat /\ Sum(o2) \in Nat /\ Sum(f) \in Nat /\ Sum(booked) \in Nat
      /\ Sum(f) + Sum(al) = Sum(booked) + Sum(o)
  BY <1>1, <1>4, <1>6, <1>7, FreeAndOver
<1>9. ASSUME NEW i \in Lots PROVE o2[i] <= o[i] + h[i]
  <2>1. PICK u, u2 : u = UsedIn(al)[i] /\ u2 = UsedIn(al2)[i]
    OBVIOUS
  <2>2. u \in Nat /\ u2 \in Nat /\ u2 <= u + p[i]
    BY <1>4, <1>5, <2>1, UsedTyped
  <2>3. /\ o[i] = AtLeast0(u - booked[i]) /\ o2[i] = AtLeast0(u2 - booked[i])
        /\ f[i] = AtLeast0(booked[i] - u)
    BY <1>1, <1>6, <2>1 DEF OverIn, FreeIn
  <2>4. p[i] = g[i] + h[i] /\ g[i] <= f[i] /\ g[i] \in Nat /\ h[i] \in Nat /\ booked[i] \in Nat
    BY <1>2, <1>7
  <2> QED BY <2>2, <2>3, <2>4 DEF AtLeast0
<1>10. Sum(o2) <= Sum(o) + Sum(h)
  <2>1. PICK w : w = [i \in Lots |-> o[i] + h[i]]
    OBVIOUS
  <2>2. w \in [Lots -> Nat] /\ \A i \in Lots : w[i] = o[i] + h[i] /\ o2[i] <= w[i]
    BY <1>2, <1>8, <1>9, <2>1
  <2>3. Sum(w) = Sum(o) + Sum(h)
    BY <1>2, <1>7, <1>8, <2>2, SumAdded
  <2>4. Sum(o2) <= Sum(w)
    BY <1>7, <1>8, <2>2, SumMonotone
  <2> QED BY <2>3, <2>4
<1>11. Sum(h) \in Nat /\ Sum(al) \in Nat /\ Sum(returned) \in Nat
  BY <1>2, <1>7, SumNat, ByLines, GoodsAssumption DEF GoodsTyped
<1>12. Sum(p) = q /\ AtLeast0(Sum(booked) - Sum(al) + Sum(returned)) >= q /\ Sum(o) <= Sum(returned)
  BY <1>1, <1>6 DEF CanPlan, PoolOf
<1>13. Sum(h) <= Sum(returned) - Sum(o)
  BY <1>2, <1>8, <1>11, <1>12 DEF AtLeast0, SmallerOf
<1> QED BY <1>1, <1>3, <1>6, <1>8, <1>10, <1>11, <1>13

-----------------------------------------------------------------------------
(* What the invariant says of the properties.                              *)

\* All totals are naturals.
LEMMA SumsTyped ==
    ASSUME GoodsTyped
    PROVE  /\ Sum(booked) \in Nat /\ Sum(alloc) \in Nat
           /\ Sum(sold) \in Nat /\ Sum(returned) \in Nat /\ alloc \in Table
<1>1. alloc \in Table
  BY DEF GoodsTyped, Table
<1> QED BY <1>1, LotsFinite, SumNat, ByLines, GoodsAssumption DEF GoodsTyped

\* All that is delivered is allocated.
LEMMA AllAllocated ==
    ASSUME GoodsTyped, BagsAllocated, Calm(BagEvents)
    PROVE  Sum(alloc) = Sum(sold)
  BY SumsTyped, BySales DEF GoodsTyped, BagsAllocated

\* The invariant implies the first property: what is delivered is what lines use, and they
\* exceed what they hold by no more than came back.
LEMMA Within == PoolInv => WithinBooking
<1> SUFFICES ASSUME PoolInv, Calm(OverEvents) PROVE Net <= Sum(booked)
  BY DEF WithinBooking, Unless, Calm, OverEvents
<1>1. GoodsTyped /\ booked \in [Lots -> Nat]
  BY DEF PoolInv, PoolTyped, GoodsTyped
<1>2. Sum(alloc) = Sum(sold)
  <2>1. Calm(BagEvents)
    BY DEF Calm, OverEvents, BagEvents
  <2> QED BY <1>1, <2>1, AllAllocated DEF PoolInv
<1>3. Sum(OverIn(booked, alloc)) <= Sum(returned)
  BY DEF PoolInv, OverCovered
<1>4. /\ Sum(FreeIn(booked, alloc)) \in Nat /\ Sum(OverIn(booked, alloc)) \in Nat
      /\ Sum(FreeIn(booked, alloc)) + Sum(alloc) = Sum(booked) + Sum(OverIn(booked, alloc))
  BY <1>1, SumsTyped, FreeAndOver
<1>5. Sum(booked) \in Nat /\ Sum(sold) \in Nat /\ Sum(returned) \in Nat
  BY <1>1, SumsTyped
<1> QED BY <1>2, <1>3, <1>4, <1>5 DEF Net

\* The cancellation screen's plan leaves what the sale sheet offers.
LEMMA LeftIs ==
    ASSUME GoodsTyped, Sum(returned) <= Sum(sold)
    PROVE  Sum(Left) = SheetBalance
<1>1. booked \in [Lots -> Nat] /\ IsFiniteSet(Lots) /\ NLots \in Nat /\ Sum(booked) \in Nat
  BY LotsFinite, SumsTyped DEF GoodsTyped
<1>2. PICK n : n = Net
  OBVIOUS
<1>3. n \in Nat
  BY <1>2, SumsTyped DEF Net
<1>4. PICK g : g = [i \in Lots |-> SmallerOf(booked[i], AtLeast0(n - SumFunctionOnSet(booked, 1..(i - 1))))]
  OBVIOUS
<1>5. ASSUME NEW i \in Lots PROVE g[i] \in Nat /\ g[i] <= booked[i]
  <2>1. SumFunctionOnSet(booked, 1..(i - 1)) \in Nat
    <3>1. i \in Nat /\ 1..(i - 1) \subseteq Lots
      BY <1>1 DEF Lots
    <3>2. IsFiniteSet(1..(i - 1)) /\ \A x \in 1..(i - 1) : booked[x] \in Nat
      BY <1>1, <3>1, FS_Subset
    <3> QED BY <3>2, SumType
  <2>2. g[i] = SmallerOf(booked[i], AtLeast0(n - SumFunctionOnSet(booked, 1..(i - 1))))
    BY <1>4
  <2> QED BY <1>1, <1>3, <2>1, <2>2 DEF SmallerOf, AtLeast0
<1>6. g \in [Lots -> Nat]
  BY <1>4, <1>5
<1>7. Sum(g) = SmallerOf(Sum(booked), n)
  <2>1. FilledUp(NLots, booked, g, n)
    BY <1>1, <1>4 DEF FilledUp, Lots
  <2>2. SumFunctionOnSet(g, Lots) = SmallerOf(SumFunctionOnSet(booked, Lots), n)
    BY <1>1, <1>3, <2>1, FillUp DEF Lots
  <2> QED BY <1>1, <1>6, <2>2, SumOf
<1>8. PICK k : k = Left
  OBVIOUS
<1>9. k \in [Lots -> Nat] /\ \A i \in Lots : booked[i] = k[i] + g[i]
  <2>1. k = [i \in Lots |-> booked[i] - g[i]]
    BY <1>2, <1>4, <1>8 DEF Left
  <2> QED BY <1>1, <1>5, <2>1
<1>10. Sum(booked) = Sum(k) + Sum(g)
  BY <1>1, <1>6, <1>9, SumAdded
<1>11. Sum(k) \in Nat
  BY <1>1, <1>9, SumNat
<1> QED BY <1>1, <1>2, <1>3, <1>7, <1>8, <1>10, <1>11 DEF SheetBalance, SmallerOf, AtLeast0

\* All of the pool can be delivered: what the first pass finds no free line for, lines
\* that delivered goods which came back can deliver again.
LEMMA PoolDelivers ==
    ASSUME GoodsTyped, Sum(alloc) = Sum(sold), Sum(returned) <= Sum(sold)
    PROVE  Sum(Plan(alloc, PoolOf(alloc))) = PoolOf(alloc)
<1>1. PICK q : q = PoolOf(alloc)
  OBVIOUS
<1>2. q \in Nat /\ q = AtLeast0(Sum(booked) - Sum(alloc) + Sum(returned))
  BY <1>1, SumsTyped DEF PoolOf, AtLeast0
<1>3. PICK f, o, a, u : /\ f = FreeIn(booked, alloc) /\ o = OverIn(booked, alloc)
                        /\ a = Again(alloc) /\ u = UsedIn(alloc)
  OBVIOUS
<1>4. /\ Sum(First(alloc, q)) = SmallerOf(Sum(f), q)
      /\ Sum(Second(alloc, q)) = SmallerOf(Sum(a), Rest(alloc, q))
      /\ Sum(Plan(alloc, q)) = Sum(First(alloc, q)) + Sum(Second(alloc, q))
      /\ a \in [Lots -> Nat]
  BY <1>2, <1>3, PlanFacts, SumsTyped
<1>5. booked \in [Lots -> Nat] /\ IsFiniteSet(Lots) /\ alloc \in Table
  BY LotsFinite, SumsTyped DEF GoodsTyped
<1>6. /\ o \in [Lots -> Nat] /\ Sum(o) \in Nat /\ Sum(f) \in Nat
      /\ Sum(f) + Sum(alloc) = Sum(booked) + Sum(o)
  BY <1>3, <1>5, FreeAndOver
<1>7. u \in [Lots -> Nat] /\ Sum(u) = Sum(alloc)
  BY <1>3, <1>5, UsedTyped, ByLines
<1>8. Sum(a) \in Nat
  BY <1>4, <1>5, SumNat
<1>9. Rest(alloc, q) = q - SmallerOf(Sum(f), q)
  BY <1>4 DEF Rest
<1>10. Sum(returned) = 0 \/ Sum(a) >= Sum(returned) - Sum(o)
  <2> SUFFICES ASSUME Sum(returned) # 0 PROVE Sum(a) >= Sum(returned) - Sum(o)
    OBVIOUS
  <2>1. PICK w : w = [i \in Lots |-> a[i] + o[i]]
    OBVIOUS
  <2>2. ASSUME NEW i \in Lots PROVE u[i] <= a[i] + o[i]
    <3>1. a[i] = IF u[i] > 0 THEN booked[i] ELSE 0
      BY <1>3, SumsTyped DEF Again
    <3>2. o[i] = AtLeast0(u[i] - booked[i])
      BY <1>3 DEF OverIn
    <3> QED BY <1>5, <1>7, <3>1, <3>2 DEF AtLeast0
  <2>3. w \in [Lots -> Nat] /\ \A i \in Lots : w[i] = a[i] + o[i] /\ u[i] <= w[i]
    BY <1>4, <1>6, <2>1, <2>2
  <2>4. Sum(w) = Sum(a) + Sum(o)
    BY <1>4, <1>5, <1>6, <2>3, SumAdded
  <2>5. Sum(u) <= Sum(w)
    BY <1>5, <1>7, <2>3, SumMonotone
  <2> QED BY <1>6, <1>7, <1>8, <2>4, <2>5, SumsTyped
<1>11. Sum(Plan(alloc, q)) = q
  BY <1>2, <1>4, <1>6, <1>8, <1>9, <1>10, SumsTyped DEF SmallerOf, AtLeast0
<1> QED BY <1>1, <1>11

\* The invariant implies the second: the three balances are one number.
LEMMA Balances == PoolInv => OneBalance
<1> SUFFICES ASSUME PoolInv PROVE OneBalance
  OBVIOUS
<1>1. GoodsTyped /\ BagsAllocated /\ ReturnsCovered
  BY DEF PoolInv, PoolTyped
<1>2. ASSUME Calm({"booking deleted", "raced cancel", "raced revert"})
      PROVE  SheetBalance = PoolOf(alloc)
  <2>1. Sum(alloc) = Sum(sold)
    BY <1>1, <1>2, AllAllocated DEF Calm, BagEvents
  <2> QED BY <1>1, <2>1, SumsTyped DEF SheetBalance, PoolOf, Net
<1>3. ASSUME Calm({"delivery dropped", "return dropped", "booking deleted", "raced return",
                   "raced cancel", "raced revert"})
      PROVE  Sum(Left) = SheetBalance
  <2>1. Sum(returned) <= Sum(sold)
    BY <1>1, <1>3 DEF Calm, ReturnsCovered, ReturnEvents
  <2> QED BY <1>1, <2>1, LeftIs
<1>4. ASSUME Calm({"delivery dropped", "raced return", "booking deleted", "raced cancel",
                   "raced revert"})
      PROVE  Sum(Plan(alloc, PoolOf(alloc))) = PoolOf(alloc)
  <2>1. Sum(returned) <= Sum(sold)
    BY <1>1, <1>4 DEF Calm, ReturnsCovered, ReturnEvents
  <2>2. Sum(alloc) = Sum(sold)
    BY <1>1, <1>4, AllAllocated DEF Calm, BagEvents
  <2> QED BY <1>1, <2>1, <2>2, PoolDelivers
<1> QED BY <1>2, <1>3, <1>4 DEF OneBalance, Unless, Calm

\* The third is part of the invariant.
LEMMA Conserves == PoolInv => BookedGoodsConserved
  BY DEF PoolInv, LinesConserved, BagsAllocated, BookedGoodsConserved, Unless, Calm, LineEvents, BagEvents

-----------------------------------------------------------------------------
(* Requests.                                                               *)

\* The fields of a request of each form.
LEMMA FormFields ==
    ASSUME NEW r \in GoodsForms
    PROVE  /\ r # Idle /\ r.stale \in BOOLEAN
           /\ r.op \in {"sale", "edit", "return", "reedit", "cancel", "revert", "rebook"}
           /\ r.op \in {"sale", "edit"} =>
                 r \in SaleForm /\ r.id \in Sales /\ r.qty \in Nat \ {0} /\ r.copy \in Int
           /\ r.op \in {"return", "reedit"} =>
                 r \in ReturnForm /\ r.id \in Returns /\ r.qty \in Nat \ {0} /\ r.copy \in Int
           /\ r.op = "cancel" => r \in CancelForm /\ r.left \in Part /\ r.copy \in Part
           /\ r.op = "revert" =>
                 r \in RevertForm /\ r.lot \in Lots /\ r.note \in Nat /\ r.copy \in Nat \cup {NoCopy}
           /\ r.op = "rebook" =>
                 r \in RebookForm /\ r.lot \in Lots /\ {r.qty, r.held, r.copy} \subseteq Nat
<1>1. CASE r \in SaleForm
  BY <1>1 DEF SaleForm, Idle
<1>2. CASE r \in ReturnForm
  BY <1>2 DEF ReturnForm, Idle
<1>3. CASE r \in CancelForm
  <2> HIDE DEF Part
  <2> QED BY <1>3 DEF CancelForm, Idle
<1>4. CASE r \in RevertForm
  BY <1>4 DEF RevertForm, Idle
<1>5. CASE r \in RebookForm
  BY <1>5 DEF RebookForm, Idle
<1> QED BY <1>1, <1>2, <1>3, <1>4, <1>5 DEF GoodsForms

\* What a cancellation loaded is about bookings.
LEMMA PartFields ==
    ASSUME NEW f \in Part
    PROVE  DOMAIN f \subseteq Lots /\ \A i \in DOMAIN f : f[i] \in Nat
<1>1. PICK rows \in SUBSET Lots : f \in [rows -> Nat]
  BY DEF Part
<1> QED BY <1>1

\* A request that somebody's commit made stale is the same request.
LEMMA Staled ==
    ASSUME NEW r \in GoodsForms, NEW z, z = [r EXCEPT !.stale = TRUE]
    PROVE  /\ z \in GoodsForms /\ z.op = r.op /\ z.stale = TRUE
           /\ r.op \in {"sale", "edit", "return", "reedit"} => z.id = r.id
           /\ r.op = "cancel" => z.left = r.left /\ z.copy = r.copy
           /\ r.op = "revert" => z.lot = r.lot /\ z.note = r.note
           /\ r.op = "rebook" => z.lot = r.lot
<1>1. CASE r \in SaleForm
  <2>1. z \in SaleForm
    BY <1>1 DEF SaleForm
  <2> QED BY <1>1, <2>1 DEF SaleForm, GoodsForms
<1>2. CASE r \in ReturnForm
  <2>1. z \in ReturnForm
    BY <1>2 DEF ReturnForm
  <2> QED BY <1>2, <2>1 DEF ReturnForm, GoodsForms
<1>3. CASE r \in CancelForm
  <2>1. z \in CancelForm
    BY <1>3 DEF CancelForm
  <2> QED BY <1>3, <2>1 DEF CancelForm, GoodsForms
<1>4. CASE r \in RevertForm
  <2>1. z \in RevertForm
    BY <1>4 DEF RevertForm
  <2> QED BY <1>4, <2>1 DEF RevertForm, GoodsForms
<1>5. CASE r \in RebookForm
  <2>1. z \in RebookForm
    BY <1>5 DEF RebookForm
  <2> QED BY <1>5, <2>1 DEF RebookForm, GoodsForms
<1> QED BY <1>1, <1>2, <1>3, <1>4, <1>5 DEF GoodsForms

\* After a commit the other requests are what they were, and stale.
LEMMA AfterCommit ==
    ASSUME RequestsTyped, ReturnsApart, NEW a \in Actors, Commit(a),
           \A i \in Lots : DOMAIN cancels[i] \subseteq DOMAIN cancels'[i],
           \A b \in Actors \ {a} : Returning(b) => returned'[req[b].id] = 0
    PROVE  RequestsTyped' /\ KnownFresh' /\ ReturnsApart'
<1>1. ASSUME NEW b \in Actors, req'[b] # Idle
      PROVE  b # a /\ req[b] # Idle /\ req'[b] = [req[b] EXCEPT !.stale = TRUE]
  <2>1. req'[b] = IF b = a \/ IsIdle(b) THEN Idle ELSE [req[b] EXCEPT !.stale = TRUE]
    BY DEF Commit
  <2> QED BY <1>1, <2>1 DEF IsIdle
<1>2. ASSUME NEW b \in Actors, req'[b] # Idle
      PROVE  /\ b # a /\ req'[b] \in GoodsForms /\ Sound(req[b])' /\ req'[b].stale = TRUE
             /\ req'[b].op = "return" => req[b].op = "return" /\ req'[b].id = req[b].id
  <2>1. b # a /\ Sound(req[b])
    BY <1>1, <1>2 DEF RequestsTyped, IsIdle
  <2>2. PICK r, z : r = req[b] /\ z = req'[b]
    OBVIOUS
  <2>3. r \in GoodsForms /\ z = [r EXCEPT !.stale = TRUE]
    BY <1>1, <1>2, <2>1, <2>2 DEF Sound
  <2>4. /\ z \in GoodsForms /\ z.op = r.op /\ z.stale = TRUE
        /\ r.op \in {"sale", "edit", "return", "reedit"} => z.id = r.id
        /\ r.op = "cancel" => z.left = r.left /\ z.copy = r.copy
        /\ r.op = "revert" => z.lot = r.lot /\ z.note = r.note
    BY <2>3, Staled
  <2>5. r.op = "revert" => r.lot \in Lots
    BY <2>3, FormFields
  <2>6. Sound(r)
    BY <2>1, <2>2
  <2>7. Sound(z)'
    BY <2>4, <2>5, <2>6 DEF Sound
  <2>8. Sound(req[b])'
    BY <2>2, <2>7 DEF Sound
  <2> QED BY <2>1, <2>2, <2>4, <2>8
<1>3. req' \in [Actors -> GoodsForms \cup {Idle}]
  <2>1. \A b \in Actors : req'[b] \in GoodsForms \cup {Idle}
    BY <1>2 DEF Sound
  <2> QED BY <2>1 DEF Commit
<1>4. RequestsTyped'
  BY <1>2, <1>3 DEF RequestsTyped, IsIdle
<1>5. KnownFresh'
  BY <1>2 DEF KnownFresh, IsIdle
<1>6. ReturnsApart'
  <2> SUFFICES ASSUME NEW b \in Actors, NEW c \in Actors, Returning(b)', Returning(c)'
               PROVE  returned'[req'[b].id] = 0 /\ (req'[b].id = req'[c].id => b = c)
    BY DEF ReturnsApart
  <2>1. Idle.op # "return"
    BY DEF Idle
  <2>2. req'[b] # Idle /\ req'[c] # Idle
    BY <2>1 DEF Returning
  <2>3. /\ b # a /\ Returning(b) /\ req'[b].id = req[b].id
        /\ Returning(c) /\ req'[c].id = req[c].id
    BY <1>2, <2>2 DEF Returning
  <2> QED BY <2>3 DEF ReturnsApart
<1> QED BY <1>4, <1>5, <1>6

\* A step that only starts, advances or gives up one request.
LEMMA QuietKeeps ==
    ASSUME PoolInv, NEW a \in Actors, NEW r, req' = [req EXCEPT ![a] = r],
           UNCHANGED <<goods, happened>>,
           r = Idle \/ (Sound(r) /\ (r.stale \/ Fresh(r))),
           r.op = "return" => /\ returned[r.id] = 0
                              /\ \A b \in Actors \ {a} : Returning(b) => req[b].id # r.id
    PROVE  PoolInv'
<1>1. UNCHANGED <<state, booked, alloc, sold, returned, cancels, total, ordered, happened>>
  BY DEF goods
<1>2. req' \in [Actors -> GoodsForms \cup {Idle}] /\ req'[a] = r /\ \A b \in Actors \ {a} : req'[b] = req[b]
  BY DEF PoolInv, PoolTyped, RequestsTyped, Sound
<1>3. \A z : Sound(z)' <=> Sound(z)
  BY <1>1 DEF Sound
<1>4. \A z : Fresh(z)' <=> Fresh(z)
  BY <1>1 DEF Fresh, Returnable, Net, Linked, Outstanding, AllocatedOf
<1>5. RequestsTyped'
  <2>1. ASSUME NEW b \in Actors PROVE req'[b] = Idle \/ Sound(req'[b])
    BY <1>2 DEF PoolInv, PoolTyped, RequestsTyped, IsIdle
  <2> QED BY <1>2, <1>3, <2>1 DEF RequestsTyped, IsIdle
<1>6. KnownFresh'
  <2>1. ASSUME NEW b \in Actors PROVE req'[b] = Idle \/ req'[b].stale \/ Fresh(req'[b])
    BY <1>2 DEF PoolInv, KnownFresh, IsIdle
  <2> QED BY <1>4, <2>1 DEF KnownFresh, IsIdle
<1>7. ReturnsApart'
  <2> SUFFICES ASSUME NEW b \in Actors, NEW c \in Actors, Returning(b)', Returning(c)'
               PROVE  returned'[req'[b].id] = 0 /\ (req'[b].id = req'[c].id => b = c)
    BY DEF ReturnsApart
  <2>1. CASE b = a /\ c = a
    BY <1>1, <1>2, <2>1 DEF Returning
  <2>2. CASE b = a /\ c # a
    BY <1>1, <1>2, <2>2 DEF Returning
  <2>3. CASE b # a /\ c = a
    BY <1>1, <1>2, <2>3 DEF Returning, ReturnsApart, PoolInv
  <2>4. CASE b # a /\ c # a
    BY <1>1, <1>2, <2>4 DEF Returning, ReturnsApart, PoolInv
  <2> QED BY <2>1, <2>2, <2>3, <2>4
<1>8. GoodsTyped' /\ LinesTyped'
  BY <1>1 DEF PoolInv, PoolTyped, GoodsTyped, LinesTyped
<1>9. LinesConserved' /\ BagsAllocated' /\ ReturnsCovered' /\ OverCovered' /\ StockExact'
  BY <1>1 DEF PoolInv, LinesConserved, BagsAllocated, ReturnsCovered, OverCovered, StockExact, Calm,
              Unless
<1> QED BY <1>5, <1>6, <1>7, <1>8, <1>9 DEF PoolInv, PoolTyped

-----------------------------------------------------------------------------
(* Cancellations, frames and what is delivered beyond a line.              *)

\* What entries of cancellations come to, when one is added or voided.
LEMMA OutstandingIs ==
    ASSUME NEW cs \in Seq(CancelNote)
    PROVE  /\ Outstanding(cs) \in Nat
           /\ cs = <<>> => Outstanding(cs) = 0
           /\ \A e \in CancelNote :
                 Outstanding(Append(cs, e)) = Outstanding(cs) + (IF e.void THEN 0 ELSE e.qty)
           /\ \A k \in DOMAIN cs : ~cs[k].void =>
                 Outstanding([cs EXCEPT ![k].void = TRUE]) = Outstanding(cs) - cs[k].qty
<1> DEFINE W(c) == [k \in DOMAIN c |-> IF c[k].void THEN 0 ELSE c[k].qty]
<1>1. PICK n : n = Len(cs)
  OBVIOUS
<1>2. n \in Nat /\ DOMAIN cs = 1..n /\ \A k \in 1..n : cs[k] \in CancelNote
  BY <1>1
<1>3. IsFiniteSet(1..n)
  BY <1>2, FS_Interval
<1>4. PICK w : w = W(cs)
  OBVIOUS
<1>5. w \in [1..n -> Nat] /\ Outstanding(cs) = Sum(w)
  BY <1>2, <1>4 DEF CancelNote, Outstanding
<1>6. Outstanding(cs) \in Nat
  BY <1>3, <1>5, SumNat
<1>7. ASSUME cs = <<>> PROVE Outstanding(cs) = 0
  <2>1. DOMAIN w = {} /\ IsFiniteSet({})
    BY <1>4, <1>7, FS_EmptySet
  <2>2. SumFunctionOnSet(w, {}) = 0
    BY <2>1, SumZero
  <2> QED BY <1>5, <2>1, <2>2, SumOf
<1>8. ASSUME NEW e \in CancelNote
      PROVE  Outstanding(Append(cs, e)) = Outstanding(cs) + (IF e.void THEN 0 ELSE e.qty)
  <2>1. PICK c2 : c2 = Append(cs, e)
    OBVIOUS
  <2>2. DOMAIN c2 = 1..(n + 1) /\ c2[n + 1] = e /\ \A k \in 1..n : c2[k] = cs[k]
    BY <1>1, <2>1
  <2>3. PICK w2 : w2 = W(c2)
    OBVIOUS
  <2>4. PICK v : v = IF e.void THEN 0 ELSE e.qty
    OBVIOUS
  <2>5. v \in Nat
    BY <2>4 DEF CancelNote
  <2>6. DOMAIN w2 = 1..(n + 1) /\ w2[n + 1] = v /\ \A k \in 1..n : w2[k] = w[k]
    BY <1>2, <1>4, <2>2, <2>3, <2>4
  <2>7. \A k \in 1..(n + 1) : w2[k] \in Int
    <3>1. ASSUME NEW k \in 1..(n + 1) PROVE k = n + 1 \/ k \in 1..n
      BY <1>2
    <3> QED BY <1>5, <2>5, <2>6, <3>1
  <2>8. IsFiniteSet(1..(n + 1)) /\ n + 1 \in 1..(n + 1)
    BY <1>2, FS_Interval
  <2>9. (1..(n + 1)) \ {n + 1} = 1..n
    BY <1>2
  <2>10. SumFunctionOnSet(w2, 1..(n + 1)) = w2[n + 1] + SumFunctionOnSet(w2, (1..(n + 1)) \ {n + 1})
    BY <2>7, <2>8, SumRemove
  <2>11. SumFunctionOnSet(w2, 1..n) = SumFunctionOnSet(w, 1..n)
    <3>1. \A k \in 1..n : w[k] \in Int /\ w2[k] = w[k]
      BY <1>5, <2>6
    <3> QED BY <1>3, <3>1, SumSame
  <2>12. Sum(w2) = SumFunctionOnSet(w2, 1..(n + 1)) /\ Sum(w) = SumFunctionOnSet(w, 1..n)
    BY <1>5, <2>6, SumOf
  <2>13. Outstanding(c2) = Sum(w2)
    BY <2>3 DEF Outstanding
  <2>14. Sum(w2) = v + Sum(w)
    BY <2>6, <2>9, <2>10, <2>11, <2>12
  <2> QED BY <1>5, <1>6, <2>1, <2>4, <2>5, <2>13, <2>14
<1>9. ASSUME NEW k \in DOMAIN cs, ~cs[k].void
      PROVE  Outstanding([cs EXCEPT ![k].void = TRUE]) = Outstanding(cs) - cs[k].qty
  <2>1. PICK c2 : c2 = [cs EXCEPT ![k].void = TRUE]
    OBVIOUS
  <2>2. DOMAIN c2 = 1..n /\ c2[k].void = TRUE /\ \A j \in (1..n) \ {k} : c2[j] = cs[j]
    BY <1>2, <2>1 DEF CancelNote
  <2>3. PICK w2 : w2 = W(c2)
    OBVIOUS
  <2>4. w2 = [j \in 1..n |-> IF c2[j].void THEN 0 ELSE c2[j].qty]
    BY <2>2, <2>3
  <2>5. w2[k] = 0 /\ w[k] = cs[k].qty /\ \A j \in (1..n) \ {k} : w2[j] = w[j]
    BY <1>2, <1>4, <1>9, <2>2, <2>4
  <2>6. w2 \in [1..n -> Nat]
    BY <1>2, <1>5, <2>4, <2>5
  <2>7. Sum(w2) = Sum(w) + w2[k] - w[k]
    <3>1. k \in 1..n
      BY <1>2
    <3>2. PICK S : S = 1..n
      OBVIOUS
    <3>3. IsFiniteSet(S) /\ w \in [S -> Nat] /\ w2 \in [S -> Nat] /\ k \in S
      BY <1>3, <1>5, <2>6, <3>1, <3>2
    <3>4. \A x \in S \ {k} : w2[x] = w[x]
      BY <2>5, <3>2
    <3> QED BY ONLY <3>3, <3>4, SumOther
  <2>8. Outstanding(c2) = Sum(w2)
    BY <2>3 DEF Outstanding
  <2>9. w[k] \in Nat /\ Sum(w) \in Nat
    BY <1>2, <1>3, <1>5, SumNat
  <2> QED BY <1>5, <2>1, <2>5, <2>7, <2>8, <2>9
<1> QED BY <1>6, <1>7, <1>8, <1>9

\* Nothing that has happened is forgotten.
LEMMA CalmBack ==
    ASSUME happened \subseteq happened'
    PROVE  /\ Calm(LineEvents)' => Calm(LineEvents)
           /\ Calm(BagEvents)' => Calm(BagEvents)
           /\ Calm(ReturnEvents)' => Calm(ReturnEvents)
           /\ Calm(OverEvents)' => Calm(OverEvents)
           /\ Calm(OverEvents)' => Calm(BagEvents)'
  BY DEF Calm, LineEvents, BagEvents, ReturnEvents, OverEvents

\* What a part of the invariant does not mention does not disturb it.
LEMMA Frames ==
    ASSUME PoolInv, happened \subseteq happened'
    PROVE  /\ UNCHANGED <<state, booked, cancels, ordered>> => LinesConserved'
           /\ UNCHANGED <<alloc, sold>> => BagsAllocated'
           /\ UNCHANGED <<sold, returned>> => ReturnsCovered'
           /\ UNCHANGED <<total, sold, returned>> => StockExact'
<1>1. ASSUME UNCHANGED <<state, booked, cancels, ordered>> PROVE LinesConserved'
  BY <1>1, CalmBack DEF PoolInv, LinesConserved
<1>2. ASSUME UNCHANGED <<alloc, sold>> PROVE BagsAllocated'
  BY <1>2, CalmBack DEF PoolInv, BagsAllocated
<1>3. ASSUME UNCHANGED <<sold, returned>> PROVE ReturnsCovered'
  BY <1>3, CalmBack DEF PoolInv, ReturnsCovered
<1>4. ASSUME UNCHANGED <<total, sold, returned>> PROVE StockExact'
  BY <1>4 DEF PoolInv, StockExact, Unless, Exact
<1> QED BY <1>1, <1>2, <1>3, <1>4

\* Lines that deliver no more and hold no less, or hold what they deliver.
NoMoreOver(bk, bk2, al, al2) ==
    \A i \in Lots : \/ bk[i] <= bk2[i] /\ \A s \in Sales : al2[<<i, s>>] <= al[<<i, s>>]
                    \/ UsedIn(al2)[i] <= bk2[i]

\* Smaller allocations, a smaller use.
LEMMA UsedLess ==
    ASSUME NEW al \in Table, NEW al2 \in Table, NEW i \in Lots,
           \A s \in Sales : al2[<<i, s>>] <= al[<<i, s>>]
    PROVE  UsedIn(al2)[i] <= UsedIn(al)[i]
<1>1. PICK u, v : u = [t \in Sales |-> al[<<i, t>>]] /\ v = [t \in Sales |-> al2[<<i, t>>]]
  OBVIOUS
<1>2. u \in [Sales -> Nat] /\ v \in [Sales -> Nat] /\ \A t \in Sales : v[t] <= u[t]
  BY <1>1 DEF Table
<1>3. Sum(v) <= Sum(u)
  BY <1>2, SumMonotone, GoodsAssumption
<1> QED BY <1>1, <1>3, UsedTyped

\* A line without allocations delivers nothing.
LEMMA UsedNone ==
    ASSUME NEW al \in Table, NEW i \in Lots, \A s \in Sales : al[<<i, s>>] = 0
    PROVE  UsedIn(al)[i] = 0
<1>1. PICK u : u = [t \in Sales |-> al[<<i, t>>]]
  OBVIOUS
<1>2. DOMAIN u = Sales /\ \A t \in Sales : u[t] = 0
  BY <1>1
<1>3. Sum(u) = 0
  BY <1>2, SumOf, SumZero, GoodsAssumption
<1> QED BY <1>1, <1>3, UsedTyped

\* Lines that are not more exceeded are not more exceeded together.
LEMMA OverLess ==
    ASSUME NEW bk \in [Lots -> Nat], NEW bk2 \in [Lots -> Nat], NEW al \in Table, NEW al2 \in Table,
           NoMoreOver(bk, bk2, al, al2)
    PROVE  Sum(OverIn(bk2, al2)) <= Sum(OverIn(bk, al))
<1>1. PICK o, o2 : o = OverIn(bk, al) /\ o2 = OverIn(bk2, al2)
  OBVIOUS
<1>2. o \in [Lots -> Nat] /\ o2 \in [Lots -> Nat]
  BY <1>1, FreeAndOver
<1>3. ASSUME NEW i \in Lots PROVE o2[i] <= o[i]
  <2>1. PICK u, u2 : u = UsedIn(al)[i] /\ u2 = UsedIn(al2)[i]
    OBVIOUS
  <2>2. u \in Nat /\ u2 \in Nat /\ bk[i] \in Nat /\ bk2[i] \in Nat
    BY <2>1, UsedTyped
  <2>3. o[i] = AtLeast0(u - bk[i]) /\ o2[i] = AtLeast0(u2 - bk2[i])
    BY <1>1, <2>1 DEF OverIn
  <2>4. CASE u2 <= bk2[i]
    BY <2>2, <2>3, <2>4 DEF AtLeast0
  <2>5. CASE ~(u2 <= bk2[i])
    <3>1. bk[i] <= bk2[i] /\ \A s \in Sales : al2[<<i, s>>] <= al[<<i, s>>]
      BY <2>1, <2>5 DEF NoMoreOver
    <3>2. u2 <= u
      BY <2>1, <3>1, UsedLess
    <3> QED BY <2>2, <2>3, <3>1, <3>2 DEF AtLeast0
  <2> QED BY <2>4, <2>5
<1> QED BY <1>1, <1>2, <1>3, SumMonotone, LotsFinite

\* A step that exceeds no line further keeps the excess covered.
LEMMA OverKept ==
    ASSUME PoolInv, happened \subseteq happened', GoodsTyped',
           Calm(OverEvents)' => /\ NoMoreOver(booked, booked', alloc, alloc')
                                /\ Sum(returned) <= Sum(returned')
    PROVE  OverCovered'
<1> SUFFICES ASSUME Calm(OverEvents)' PROVE Sum(OverIn(booked', alloc')) <= Sum(returned')
  BY DEF OverCovered
<1>1. /\ booked \in [Lots -> Nat] /\ booked' \in [Lots -> Nat] /\ alloc \in Table /\ alloc' \in Table
      /\ returned \in [Returns -> Nat] /\ returned' \in [Returns -> Nat]
  BY DEF PoolInv, PoolTyped, GoodsTyped, Table
<1>2. Sum(OverIn(booked', alloc')) <= Sum(OverIn(booked, alloc))
  BY <1>1, OverLess
<1>3. Sum(OverIn(booked, alloc)) <= Sum(returned)
  BY CalmBack DEF PoolInv, OverCovered
<1>4. PICK x, y, z, w : /\ x = Sum(OverIn(booked', alloc')) /\ y = Sum(OverIn(booked, alloc))
                        /\ z = Sum(returned) /\ w = Sum(returned')
  OBVIOUS
<1>5. x \in Nat /\ y \in Nat /\ z \in Nat /\ w \in Nat
  BY <1>1, <1>4, FreeAndOver, SumNat, GoodsAssumption
<1>6. x <= y /\ y <= z /\ z <= w
  BY <1>2, <1>3, <1>4
<1>7. x <= w
  BY <1>5, <1>6
<1> QED BY <1>4, <1>7

-----------------------------------------------------------------------------
(* Commits.                                                                *)

\* The parts of the invariant a step starts from.
LEMMA InvParts ==
    ASSUME PoolInv
    PROVE  /\ GoodsTyped /\ LinesTyped /\ RequestsTyped /\ KnownFresh /\ ReturnsApart
           /\ alloc \in Table /\ IsFiniteSet(Lots) /\ IsFiniteSet(Sales) /\ IsFiniteSet(Returns)
  BY SumsTyped, LotsFinite, GoodsAssumption DEF PoolInv, PoolTyped

\* The parts a step has to establish.
LEMMA Assembled ==
    ASSUME GoodsTyped', LinesTyped', RequestsTyped' /\ KnownFresh' /\ ReturnsApart',
           LinesConserved', BagsAllocated', ReturnsCovered', OverCovered', StockExact'
    PROVE  PoolInv'
  BY DEF PoolInv, PoolTyped

\* A request that nothing has overtaken knows what is stored.
LEMMA NotOvertaken ==
    ASSUME PoolInv, NEW a \in Actors, req[a].op # "idle"
    PROVE  req[a] \in GoodsForms /\ Sound(req[a]) /\ (req[a].stale \/ Fresh(req[a]))
<1>1. ~IsIdle(a)
  BY DEF IsIdle, Idle
<1>2. Sound(req[a])
  BY <1>1, InvParts DEF RequestsTyped
<1> QED BY <1>1, <1>2, InvParts DEF KnownFresh, Sound

\* A new line is free.
LEMMA AddBookingStep ==
    ASSUME PoolInv, NEW a \in Actors, NEW i \in Lots, NEW q \in Nat, AddBooking(a, i, q)
    PROVE  PoolInv'
<1>1. /\ state[i] = "new" /\ booked[i] = 0 /\ cancels[i] = <<>>
      /\ state' = [state EXCEPT ![i] = "live"] /\ booked' = [booked EXCEPT ![i] = q]
      /\ ordered' = [ordered EXCEPT ![i] = q] /\ Commit(a)
      /\ UNCHANGED <<alloc, sold, returned, cancels, total, happened>>
  <2>1. state[i] = "new" => ~(booked[i] > 0) /\ booked[i] \in Nat /\ cancels[i] = <<>>
    BY InvParts DEF LinesTyped, GoodsTyped
  <2> QED BY <2>1 DEF AddBooking
<1>2. GoodsTyped' /\ LinesTyped'
  BY <1>1, InvParts DEF GoodsTyped, LinesTyped
<1>3. RequestsTyped' /\ KnownFresh' /\ ReturnsApart'
  BY <1>1, InvParts, AfterCommit DEF ReturnsApart
<1>4. LinesConserved'
  <2>1. Outstanding(cancels[i]) = 0
    BY <1>1, InvParts, OutstandingIs DEF LinesTyped
  <2>2. ASSUME NEW j \in Lots, state'[j] = "live", Calm(LineEvents)'
        PROVE  booked'[j] + Outstanding(cancels'[j]) = ordered'[j]
    <3>1. CASE j = i
      BY <1>1, <2>1, <3>1, InvParts DEF GoodsTyped
    <3>2. CASE j # i
      <4>1. booked'[j] = booked[j] /\ ordered'[j] = ordered[j] /\ state[j] = "live"
            /\ cancels'[j] = cancels[j]
        BY <1>1, <2>2, <3>2, InvParts DEF GoodsTyped, LinesTyped
      <4> QED BY <1>1, <2>2, <4>1, CalmBack DEF PoolInv, LinesConserved
    <3> QED BY <3>1, <3>2
  <2> QED BY <2>2 DEF LinesConserved
<1>5. BagsAllocated' /\ ReturnsCovered' /\ StockExact'
  BY <1>1, Frames
<1>6. OverCovered'
  <2>1. NoMoreOver(booked, booked', alloc, alloc')
    <3>1. \A j \in Lots : booked[j] <= booked'[j]
      BY <1>1, InvParts DEF GoodsTyped
    <3>2. \A j \in Lots, s \in Sales : alloc[<<j, s>>] \in Nat /\ alloc'[<<j, s>>] = alloc[<<j, s>>]
      BY <1>1, InvParts DEF Table
    <3> QED BY <3>1, <3>2 DEF NoMoreOver
  <2>2. Sum(returned) <= Sum(returned')
    BY <1>1, InvParts, SumsTyped
  <2> QED BY <1>1, <1>2, <2>1, <2>2, OverKept
<1> QED BY <1>2, <1>3, <1>4, <1>5, <1>6, Assembled

\* An edited line keeps what it delivered.
LEMMA EditBookingStep ==
    ASSUME PoolInv, NEW a \in Actors, NEW i \in Lots, NEW q \in Nat, EditBooking(a, i, q)
    PROVE  PoolInv'
<1>1. /\ state[i] = "live" /\ q >= AllocatedOf(i) /\ booked' = [booked EXCEPT ![i] = q]
      /\ ordered' = [ordered EXCEPT ![i] = q + Outstanding(cancels[i])] /\ Commit(a)
      /\ UNCHANGED <<state, alloc, sold, returned, cancels, total, happened>>
  BY DEF EditBooking, MayEdit
<1>2. Outstanding(cancels[i]) \in Nat
  BY InvParts, OutstandingIs DEF LinesTyped
<1>3. GoodsTyped' /\ LinesTyped'
  <2>1. GoodsTyped'
    BY <1>1, <1>2, InvParts DEF GoodsTyped
  <2>2. LinesTyped'
    BY <1>1, InvParts DEF LinesTyped
  <2> QED BY <2>1, <2>2
<1>4. RequestsTyped' /\ KnownFresh' /\ ReturnsApart'
  BY <1>1, InvParts, AfterCommit DEF ReturnsApart
<1>5. LinesConserved'
  <2>1. ASSUME NEW j \in Lots, state'[j] = "live", Calm(LineEvents)'
        PROVE  booked'[j] + Outstanding(cancels'[j]) = ordered'[j]
    <3>1. CASE j = i
      BY <1>1, <3>1, InvParts DEF GoodsTyped
    <3>2. CASE j # i
      <4>1. booked'[j] = booked[j] /\ ordered'[j] = ordered[j] /\ state[j] = "live"
            /\ cancels'[j] = cancels[j]
        BY <1>1, <2>1, <3>2, InvParts DEF GoodsTyped
      <4> QED BY <1>1, <2>1, <4>1, CalmBack DEF PoolInv, LinesConserved
    <3> QED BY <3>1, <3>2
  <2> QED BY <2>1 DEF LinesConserved
<1>6. BagsAllocated' /\ ReturnsCovered' /\ StockExact'
  BY <1>1, Frames
<1>7. OverCovered'
  <2>1. NoMoreOver(booked, booked', alloc, alloc')
    <3>1. ASSUME NEW j \in Lots
          PROVE  \/ booked[j] <= booked'[j] /\ \A s \in Sales : alloc'[<<j, s>>] <= alloc[<<j, s>>]
                 \/ UsedIn(alloc')[j] <= booked'[j]
      <4>1. CASE j = i
        <5>1. UsedIn(alloc)[i] = AllocatedOf(i) /\ booked'[i] = q /\ alloc' = alloc
          BY <1>1, InvParts, UsedTyped DEF AllocatedOf, GoodsTyped
        <5> QED BY <1>1, <4>1, <5>1
      <4>2. CASE j # i
        BY <1>1, <4>2, InvParts DEF GoodsTyped, Table
      <4> QED BY <4>1, <4>2
    <3> QED BY <3>1 DEF NoMoreOver
  <2>2. Sum(returned) <= Sum(returned')
    BY <1>1, InvParts, SumsTyped
  <2> QED BY <1>1, <1>3, <2>1, <2>2, OverKept
<1> QED BY <1>3, <1>4, <1>5, <1>6, <1>7, Assembled

\* An edit written to lines that nothing has overtaken holds what it delivers and asks
\* for what was cancelled when it was read; one that was overtaken is noted.
LEMMA EditBookingWriteStep ==
    ASSUME PoolInv, NEW a \in Actors, EditBookingWrite(a)
    PROVE  PoolInv'
<1>1. PICK i, q, held, copy : i = req[a].lot /\ q = req[a].qty /\ held = req[a].held /\ copy = req[a].copy
  OBVIOUS
<1>2. PICK v : v = IF copy = 0 THEN booked[i] + q ELSE q
  OBVIOUS
<1>3. req[a].op = "rebook" /\ RebookLands(req[a])
  BY DEF EditBookingWrite
<1>4. i \in Lots /\ q \in Nat /\ held \in Nat /\ copy \in Nat /\ booked[i] \in Nat
  <2>1. i \in Lots /\ {q, held, copy} \subseteq Nat
    BY <1>1, <1>3, NotOvertaken, FormFields
  <2> QED BY <2>1, InvParts DEF GoodsTyped
<1>5. /\ booked' = [booked EXCEPT ![i] = v] /\ ordered' = [ordered EXCEPT ![i] = q + held]
      /\ Commit(a) /\ UNCHANGED <<state, alloc, sold, returned, cancels, total>>
  <2>1. booked' = [booked EXCEPT ![i] = IF copy = 0 THEN @ + q ELSE q]
    BY <1>1 DEF EditBookingWrite
  <2>2. [booked EXCEPT ![i] = IF copy = 0 THEN @ + q ELSE q] = [booked EXCEPT ![i] = v]
    BY <1>2
  <2> QED BY <1>1, <2>1, <2>2 DEF EditBookingWrite
<1>6. happened' = happened
            \cup (IF req[a].stale THEN {"raced edit"} ELSE {})
            \cup (IF req[a].stale /\ booked'[i] < AllocatedOf(i) THEN {"edited delivered"} ELSE {})
  BY <1>1 DEF EditBookingWrite
<1>7. v \in Nat /\ booked'[i] = v /\ \A j \in Lots \ {i} : booked'[j] = booked[j]
  BY <1>2, <1>4, <1>5, InvParts DEF GoodsTyped
<1>8. ~req[a].stale => /\ state[i] = "live" /\ copy = booked[i] /\ held = Outstanding(cancels[i])
                       /\ q >= AllocatedOf(i)
  BY <1>1, <1>3, NotOvertaken DEF Fresh
<1>9. ~req[a].stale => v = q
  BY <1>2, <1>4, <1>8
<1>10. happened \subseteq happened' /\ ("raced edit" \notin happened' => ~req[a].stale)
  BY <1>6
<1>11. GoodsTyped'
  BY <1>4, <1>5, <1>7, InvParts DEF GoodsTyped
<1>12. LinesTyped'
  <2>1. v > 0 => state[i] = "live"
    <3>1. CASE copy = 0
      BY <1>1, <1>3, <3>1 DEF RebookLands
    <3>2. CASE copy # 0
      <4>1. v > 0 => booked[i] > 0
        BY <1>1, <1>2, <1>3, <1>4, <3>2 DEF RebookLands
      <4> QED BY <1>4, <4>1, InvParts DEF LinesTyped
    <3> QED BY <3>1, <3>2
  <2>2. ASSUME NEW j \in Lots
        PROVE  /\ booked'[j] > 0 => state'[j] = "live"
               /\ state'[j] = "new" => cancels'[j] = <<>>
    BY <1>5, <1>7, <2>1, InvParts DEF LinesTyped
  <2> QED BY <1>5, <2>2, InvParts DEF LinesTyped
<1>13. RequestsTyped' /\ KnownFresh' /\ ReturnsApart'
  BY <1>5, InvParts, AfterCommit DEF ReturnsApart
<1>14. LinesConserved'
  <2>1. ASSUME NEW j \in Lots, state'[j] = "live", Calm(LineEvents)'
        PROVE  booked'[j] + Outstanding(cancels'[j]) = ordered'[j]
    <3>1. ~req[a].stale
      BY <1>10, <2>1 DEF Calm, LineEvents
    <3>2. CASE j = i
      <4>1. booked'[j] = q /\ ordered'[j] = q + held /\ Outstanding(cancels'[j]) = held
        BY <1>4, <1>5, <1>7, <1>8, <1>9, <3>1, <3>2, InvParts DEF GoodsTyped
      <4> QED BY <4>1
    <3>3. CASE j # i
      <4>1. booked'[j] = booked[j] /\ ordered'[j] = ordered[j] /\ state[j] = "live"
            /\ cancels'[j] = cancels[j]
        BY <1>5, <1>7, <2>1, <3>3, InvParts DEF GoodsTyped
      <4> QED BY <1>10, <2>1, <4>1, CalmBack DEF PoolInv, LinesConserved
    <3> QED BY <3>2, <3>3
  <2> QED BY <2>1 DEF LinesConserved
<1>15. BagsAllocated' /\ ReturnsCovered' /\ StockExact'
  BY <1>5, <1>10, Frames
<1>16. OverCovered'
  <2> SUFFICES ASSUME Calm(OverEvents)' PROVE OverCovered'
    BY DEF OverCovered
  <2>1. AllocatedOf(i) \in Nat /\ UsedIn(alloc')[i] = AllocatedOf(i)
    <3>1. UsedIn(alloc)[i] = AllocatedOf(i) /\ alloc' = alloc
      BY <1>4, <1>5, InvParts, UsedTyped DEF AllocatedOf
    <3> QED BY <1>4, <3>1, InvParts, UsedTyped
  <2>2. AllocatedOf(i) <= booked'[i]
    <3>1. CASE req[a].stale
      <4>1. ~(booked'[i] < AllocatedOf(i))
        BY <1>6, <3>1 DEF Calm, OverEvents
      <4> QED BY <1>7, <2>1, <4>1
    <3>2. CASE ~req[a].stale
      BY <1>4, <1>7, <1>8, <1>9, <2>1, <3>2
    <3> QED BY <3>1, <3>2
  <2>3. NoMoreOver(booked, booked', alloc, alloc')
    <3>1. ASSUME NEW j \in Lots
          PROVE  \/ booked[j] <= booked'[j] /\ \A s \in Sales : alloc'[<<j, s>>] <= alloc[<<j, s>>]
                 \/ UsedIn(alloc')[j] <= booked'[j]
      <4>1. CASE j = i
        BY <2>1, <2>2, <4>1
      <4>2. CASE j # i
        BY <1>5, <1>7, <4>2, InvParts DEF GoodsTyped, Table
      <4> QED BY <4>1, <4>2
    <3> QED BY <3>1 DEF NoMoreOver
  <2>4. Sum(returned) <= Sum(returned')
    BY <1>5, InvParts, SumsTyped
  <2> QED BY <1>10, <1>11, <2>3, <2>4, OverKept
<1> QED BY <1>11, <1>12, <1>13, <1>14, <1>15, <1>16, Assembled

\* A deleted line loses its allocations; if it had any, that is noted.
LEMMA DeleteBookingStep ==
    ASSUME PoolInv, NEW a \in Actors, NEW i \in Lots, DeleteBooking(a, i)
    PROVE  PoolInv'
<1>a. alloc' = [p \in Lots \X Sales |-> IF p[1] = i THEN 0 ELSE alloc[p]]
  BY DEF DeleteBooking
<1>c. cancels' = [cancels EXCEPT ![i] = [k \in DOMAIN @ |-> [@[k] EXCEPT !.void = TRUE]]]
  BY DEF DeleteBooking
<1>h. happened' = happened \cup (IF Linked(i) THEN {"booking deleted"} ELSE {})
  BY DEF DeleteBooking
<1>1. /\ state[i] = "live" /\ state' = [state EXCEPT ![i] = "deleted"]
      /\ booked' = [booked EXCEPT ![i] = 0] /\ ordered' = [ordered EXCEPT ![i] = 0]
      /\ total' = Exact(sold, returned) /\ Commit(a) /\ sold' = sold /\ returned' = returned
      /\ happened \subseteq happened'
  BY <1>h DEF DeleteBooking
<1>2. /\ alloc' \in Table
      /\ \A j \in Lots, s \in Sales : alloc'[<<j, s>>] = IF j = i THEN 0 ELSE alloc[<<j, s>>]
  <2>1. \A p \in Lots \X Sales : alloc[p] \in Nat /\ alloc'[p] = IF p[1] = i THEN 0 ELSE alloc[p]
    BY <1>a, InvParts DEF Table
  <2>2. alloc' \in Table
    BY <1>a, <2>1 DEF Table
  <2>3. \A j \in Lots, s \in Sales : <<j, s>> \in Lots \X Sales /\ <<j, s>>[1] = j
    OBVIOUS
  <2> QED BY <2>1, <2>2, <2>3
<1>3. /\ cancels' \in [Lots -> Seq(CancelNote)] /\ \A j \in Lots \ {i} : cancels'[j] = cancels[j]
      /\ DOMAIN cancels'[i] = DOMAIN cancels[i]
  <2>1. PICK c : c = cancels[i]
    OBVIOUS
  <2>2. c \in Seq(CancelNote)
    BY <2>1, InvParts DEF LinesTyped
  <2>3. PICK c2 : c2 = [k \in DOMAIN c |-> [c[k] EXCEPT !.void = TRUE]]
    OBVIOUS
  <2>4. c2 \in Seq(CancelNote) /\ DOMAIN c2 = DOMAIN c
    <3>1. PICK n \in Nat : DOMAIN c = 1..n
      BY <2>2
    <3>0. \A k \in 1..n : c[k] \in CancelNote
      BY <2>2, <3>1
    <3>2. \A k \in 1..n : c2[k] \in CancelNote
      BY <2>3, <3>0, <3>1 DEF CancelNote
    <3>3. c2 \in [1..n -> CancelNote]
      BY <2>3, <3>1, <3>2
    <3> QED BY <2>3, <3>1, <3>3
  <2>5. cancels' = [cancels EXCEPT ![i] = c2]
    BY <1>c, <2>1, <2>3
  <2> QED BY <2>1, <2>4, <2>5, InvParts DEF LinesTyped
<1>4. GoodsTyped'
  <2>1. Exact(sold, returned) \in Int
    BY InvParts, SumsTyped DEF Exact
  <2> QED BY <1>1, <1>2, <2>1, InvParts DEF GoodsTyped, Table
<1>5. LinesTyped'
  BY <1>1, <1>3, InvParts DEF GoodsTyped, LinesTyped
<1>6. RequestsTyped' /\ KnownFresh' /\ ReturnsApart'
  <2>1. \A j \in Lots : DOMAIN cancels[j] \subseteq DOMAIN cancels'[j]
    BY <1>3
  <2> QED BY <1>1, <2>1, InvParts, AfterCommit DEF ReturnsApart
<1>7. LinesConserved'
  <2>1. ASSUME NEW j \in Lots, state'[j] = "live", Calm(LineEvents)'
        PROVE  booked'[j] + Outstanding(cancels'[j]) = ordered'[j]
    <3>1. j # i
      BY <1>1, <2>1, InvParts DEF LinesTyped
    <3>2. booked'[j] = booked[j] /\ ordered'[j] = ordered[j] /\ state[j] = "live"
          /\ cancels'[j] = cancels[j]
      BY <1>1, <1>3, <2>1, <3>1, InvParts DEF GoodsTyped, LinesTyped
    <3> QED BY <1>1, <2>1, <3>2, CalmBack DEF PoolInv, LinesConserved
  <2> QED BY <2>1 DEF LinesConserved
<1>8. BagsAllocated'
  <2> SUFFICES ASSUME Calm(BagEvents)', NEW s \in Sales
               PROVE  Sum([j \in Lots |-> alloc'[<<j, s>>]]) = sold'[s]
    BY DEF BagsAllocated
  <2>1. ~Linked(i)
    BY <1>h DEF Calm, BagEvents
  <2>2. \A j \in Lots : alloc'[<<j, s>>] = alloc[<<j, s>>]
    BY <1>2, <2>1, InvParts DEF Linked, Table
  <2>3. [j \in Lots |-> alloc'[<<j, s>>]] = [j \in Lots |-> alloc[<<j, s>>]]
    BY <2>2
  <2>4. Sum([j \in Lots |-> alloc[<<j, s>>]]) = sold[s]
    BY <1>1, CalmBack DEF PoolInv, BagsAllocated
  <2> QED BY <1>1, <2>3, <2>4
<1>9. ReturnsCovered'
  BY <1>1, Frames
<1>10. StockExact'
  BY <1>1 DEF StockExact, Unless, Exact
<1>11. OverCovered'
  <2>1. NoMoreOver(booked, booked', alloc, alloc')
    <3>1. ASSUME NEW j \in Lots
          PROVE  \/ booked[j] <= booked'[j] /\ \A s \in Sales : alloc'[<<j, s>>] <= alloc[<<j, s>>]
                 \/ UsedIn(alloc')[j] <= booked'[j]
      <4>1. CASE j = i
        <5>1. \A s \in Sales : alloc'[<<i, s>>] = 0
          BY <1>2
        <5>2. UsedIn(alloc')[i] = 0
          BY <1>2, <5>1, UsedNone
        <5> QED BY <1>1, <4>1, <5>2, InvParts DEF GoodsTyped
      <4>2. CASE j # i
        BY <1>1, <1>2, <4>2, InvParts DEF GoodsTyped, Table
      <4> QED BY <4>1, <4>2
    <3> QED BY <3>1 DEF NoMoreOver
  <2>2. Sum(returned) <= Sum(returned')
    BY <1>1, InvParts, SumsTyped
  <2> QED BY <1>1, <1>4, <2>1, <2>2, OverKept
<1> QED BY <1>4, <1>5, <1>6, <1>7, <1>8, <1>9, <1>10, <1>11, Assembled

\* A sale is delivered anew, planned over a table without it.
LEMMA Delivered ==
    ASSUME PoolInv, NEW a \in Actors, NEW s \in Sales, NEW q \in Nat \ {0}, NEW copy \in Int,
           NEW al \in Table, CanPlan(al, q),
           \A i \in Lots, t \in Sales : al[<<i, t>>] <= alloc[<<i, t>>]
                                        /\ (t # s => al[<<i, t>>] = alloc[<<i, t>>]),
           sold' = [sold EXCEPT ![s] = q], alloc' = Placed(al, s, Plan(al, q)),
           total' = Rebuilt(copy, Exact(sold', returned)), happened \subseteq happened',
           "raced stock" \notin happened' => copy = total,
           Calm(ReturnEvents)' => Sum(returned) <= Sum(sold'),
           Commit(a), UNCHANGED <<state, booked, returned, cancels, ordered>>
    PROVE  PoolInv'
<1>1. PICK plan : plan = Plan(al, q)
  OBVIOUS
<1>2. plan \in [Lots -> Nat] /\ Sum(plan) = q
  BY <1>1, InvParts, PlanFacts DEF CanPlan
<1>3. /\ alloc' \in Table
      /\ \A i \in Lots : /\ alloc'[<<i, s>>] = plan[i]
                         /\ \A t \in Sales \ {s} : alloc'[<<i, t>>] = al[<<i, t>>]
  <2>1. alloc' = Placed(al, s, plan)
    BY <1>1
  <2>2. PICK z : z = Placed(al, s, plan)
    OBVIOUS
  <2>3. /\ z \in Table
        /\ \A i \in Lots : /\ z[<<i, s>>] = plan[i]
                           /\ \A t \in Sales \ {s} : z[<<i, t>>] = al[<<i, t>>]
    <3>1. al \in Table /\ s \in Sales
      OBVIOUS
    <3>2. plan \in [Lots -> Nat]
      BY ONLY <1>2
    <3> QED BY ONLY <2>2, <3>1, <3>2, PlacedIs, SMTT(20)
  <2> QED BY <2>1, <2>2, <2>3
<1>4. sold' \in [Sales -> Nat] /\ Sum(sold') \in Nat /\ Sum(returned) \in Nat
  BY InvParts, SumNat DEF GoodsTyped
<1>5. total' = IF Exact(sold', returned) = copy THEN total ELSE Exact(sold', returned)
  BY DEF Rebuilt
<1>6. GoodsTyped'
  <2>1. Exact(sold', returned) \in Int
    <3>1. Exact(sold', returned) = Sum(returned) - Sum(sold')
      BY DEF Exact
    <3> QED BY ONLY <1>4, <3>1
  <2>2. total' \in Int
    BY <1>5, <2>1, InvParts DEF GoodsTyped
  <2> QED BY <1>3, <1>4, <2>2, InvParts DEF GoodsTyped, Table
<1>7. LinesTyped'
  BY InvParts DEF LinesTyped
<1>8. RequestsTyped' /\ KnownFresh' /\ ReturnsApart'
  BY InvParts, AfterCommit DEF ReturnsApart
<1>9. LinesConserved'
  BY Frames
<1>10. BagsAllocated'
  <2> SUFFICES ASSUME Calm(BagEvents)', NEW t \in Sales
               PROVE  Sum([i \in Lots |-> alloc'[<<i, t>>]]) = sold'[t]
    BY DEF BagsAllocated
  <2>1. CASE t = s
    <3>1. plan = [i \in Lots |-> plan[i]]
      BY <1>2
    <3>2. [i \in Lots |-> alloc'[<<i, s>>]] = [i \in Lots |-> plan[i]]
      BY <1>3
    <3> QED BY <1>2, <2>1, <3>1, <3>2, InvParts DEF GoodsTyped
  <2>2. CASE t # s
    <3>1. \A i \in Lots : alloc'[<<i, t>>] = alloc[<<i, t>>]
      BY <1>3, <2>2
    <3>2. [i \in Lots |-> alloc'[<<i, t>>]] = [i \in Lots |-> alloc[<<i, t>>]]
      BY <3>1
    <3>3. Sum([i \in Lots |-> alloc[<<i, t>>]]) = sold[t]
      BY CalmBack DEF PoolInv, BagsAllocated
    <3> QED BY <2>2, <3>2, <3>3, InvParts DEF GoodsTyped
  <2> QED BY <2>1, <2>2
<1>11. ReturnsCovered'
  BY DEF ReturnsCovered
<1>12. OverCovered'
  <2> SUFFICES ASSUME Calm(OverEvents)' PROVE Sum(OverIn(booked, alloc')) <= Sum(returned)
    BY DEF OverCovered
  <2>1. booked \in [Lots -> Nat] /\ alloc \in Table
    BY InvParts DEF GoodsTyped
  <2>2. NoMoreOver(booked, booked, alloc, al)
    <3>1. \A i \in Lots : booked[i] <= booked[i]
      BY ONLY <2>1
    <3>2. \A i \in Lots, t \in Sales : al[<<i, t>>] <= alloc[<<i, t>>]
      OBVIOUS
    <3> QED BY <3>1, <3>2 DEF NoMoreOver
  <2>3. Sum(OverIn(booked, al)) <= Sum(OverIn(booked, alloc))
    BY <2>1, <2>2, OverLess
  <2>4. Sum(OverIn(booked, alloc)) <= Sum(returned)
    BY CalmBack DEF PoolInv, OverCovered
  <2>5. Sum(OverIn(booked, al)) \in Nat /\ Sum(OverIn(booked, alloc)) \in Nat
    BY <2>1, FreeAndOver
  <2>6. Sum(OverIn(booked, al)) <= Sum(returned)
    <3>1. PICK x, y, z : /\ x = Sum(OverIn(booked, al)) /\ y = Sum(OverIn(booked, alloc))
                         /\ z = Sum(returned)
      OBVIOUS
    <3>2. x \in Nat /\ y \in Nat /\ z \in Nat /\ x <= y /\ y <= z
      BY <1>4, <2>3, <2>4, <2>5, <3>1
    <3>3. x <= z
      BY ONLY <3>2
    <3> QED BY <3>1, <3>3
  <2> QED BY <2>6, InvParts, PlanCovered
<1>13. StockExact'
  <2> SUFFICES ASSUME "raced stock" \notin happened' PROVE total' = Exact(sold', returned)
    BY DEF StockExact, Unless, Exact
  <2> QED BY <1>5
<1> QED BY <1>6, <1>7, <1>8, <1>9, <1>10, <1>11, <1>12, <1>13, Assembled

\* The table without one sale.
LEMMA WithoutSaleIs ==
    ASSUME GoodsTyped, NEW s \in Sales
    PROVE  /\ WithoutSale(s) \in Table
           /\ \A i \in Lots, t \in Sales :
                 /\ WithoutSale(s)[<<i, t>>] = IF t = s THEN 0 ELSE alloc[<<i, t>>]
                 /\ WithoutSale(s)[<<i, t>>] <= alloc[<<i, t>>]
<1>1. \A p \in Lots \X Sales : alloc[p] \in Nat /\ WithoutSale(s)[p] = IF p[2] = s THEN 0 ELSE alloc[p]
  BY DEF WithoutSale, GoodsTyped
<1>2. WithoutSale(s) \in Table
  BY <1>1 DEF WithoutSale, Table
<1>3. \A i \in Lots, t \in Sales : <<i, t>> \in Lots \X Sales /\ <<i, t>>[2] = t
  OBVIOUS
<1> QED BY <1>1, <1>2, <1>3

\* A new delivery.
LEMMA SaleWriteStep ==
    ASSUME PoolInv, NEW a \in Actors, SaleWrite(a)
    PROVE  PoolInv'
<1>1. PICK s, q, copy : s = req[a].id /\ q = req[a].qty /\ copy = req[a].copy
  OBVIOUS
<1>2. req[a].op = "sale" /\ sold[s] = 0 /\ CanPlan(alloc, q) /\ sold' = [sold EXCEPT ![s] = q]
  BY <1>1 DEF SaleWrite
<1>3. alloc' = Placed(alloc, s, Plan(alloc, q)) /\ total' = Rebuilt(copy, Exact(sold', returned))
  BY <1>1 DEF SaleWrite, Allocate, Placed
<1>4. Note(a, "raced stock") /\ Commit(a) /\ UNCHANGED <<state, booked, returned, cancels, ordered>>
  BY DEF SaleWrite
<1>5. s \in Sales /\ q \in Nat \ {0} /\ copy \in Int
  BY <1>1, <1>2, NotOvertaken, FormFields
<1>6. happened \subseteq happened' /\ ("raced stock" \notin happened' => copy = total)
  <2>1. req[a].stale \/ Fresh(req[a])
    BY <1>2, NotOvertaken
  <2> QED BY <1>1, <1>2, <1>4, <2>1 DEF Note, Fresh
<1>7. Calm(ReturnEvents)' => Sum(returned) <= Sum(sold')
  <2>1. sold \in [Sales -> Nat] /\ sold' \in [Sales -> Nat] /\ sold'[s] = q
        /\ \A x \in Sales \ {s} : sold'[x] = sold[x]
    BY <1>2, <1>5, InvParts DEF GoodsTyped
  <2>2. Sum(sold') = Sum(sold) + sold'[s] - sold[s] /\ Sum(sold) \in Nat /\ Sum(returned) \in Nat
    BY <1>5, <2>1, SumOther, SumsTyped, InvParts
  <2>3. Sum(sold') = Sum(sold) + q
    BY <1>2, <1>5, <2>1, <2>2
  <2>4. Calm(ReturnEvents)' => Sum(returned) <= Sum(sold)
    BY <1>6, CalmBack DEF PoolInv, ReturnsCovered
  <2> QED BY <1>5, <2>2, <2>3, <2>4
<1>8. alloc \in Table /\ \A i \in Lots, t \in Sales : alloc[<<i, t>>] <= alloc[<<i, t>>]
  BY InvParts DEF Table
<1>9. PoolInv /\ a \in Actors
  OBVIOUS
<1> QED BY ONLY <1>2, <1>3, <1>4, <1>5, <1>6, <1>7, <1>8, <1>9, Delivered

\* An edited delivery is taken out and planned again.
LEMMA EditSaleWriteStep ==
    ASSUME PoolInv, NEW a \in Actors, EditSaleWrite(a)
    PROVE  PoolInv'
<1>1. PICK s, q, copy : s = req[a].id /\ q = req[a].qty /\ copy = req[a].copy
  OBVIOUS
<1>2. req[a].op = "edit" /\ CanPlan(WithoutSale(s), q) /\ sold' = [sold EXCEPT ![s] = q]
  BY <1>1 DEF EditSaleWrite
<1>3. PICK al : al = WithoutSale(s)
  OBVIOUS
<1>4. alloc' = Placed(al, s, Plan(al, q)) /\ total' = Rebuilt(copy, Exact(sold', returned))
  BY <1>1, <1>3 DEF EditSaleWrite, Allocate, Placed
<1>h. happened' = happened
            \cup (IF req[a].stale THEN {"raced stock"} ELSE {})
            \cup (IF Sum(sold') < Sum(returned) THEN {"delivery dropped"} ELSE {})
  BY DEF EditSaleWrite
<1>5. Commit(a) /\ UNCHANGED <<state, booked, returned, cancels, ordered>>
  BY DEF EditSaleWrite
<1>6. s \in Sales /\ q \in Nat \ {0} /\ copy \in Int
  BY <1>1, <1>2, NotOvertaken, FormFields
<1>7. happened \subseteq happened' /\ ("raced stock" \notin happened' => copy = total)
  <2>1. req[a].stale \/ Fresh(req[a])
    BY <1>2, NotOvertaken
  <2> QED BY <1>1, <1>2, <1>h, <2>1 DEF Fresh
<1>8. Calm(ReturnEvents)' => Sum(returned) <= Sum(sold')
  <2>1. sold' \in [Sales -> Nat]
    BY <1>2, <1>6, InvParts DEF GoodsTyped
  <2>2. Sum(sold') \in Nat /\ Sum(returned) \in Nat
    BY <2>1, SumNat, SumsTyped, InvParts
  <2>3. Calm(ReturnEvents)' => ~(Sum(sold') < Sum(returned))
    BY <1>h DEF Calm, ReturnEvents
  <2> QED BY <2>2, <2>3
<1>9. /\ al \in Table
      /\ \A i \in Lots, t \in Sales : al[<<i, t>>] <= alloc[<<i, t>>]
                                      /\ (t # s => al[<<i, t>>] = alloc[<<i, t>>])
  BY <1>3, <1>6, WithoutSaleIs, InvParts
<1>10. PoolInv /\ a \in Actors
  OBVIOUS
<1> QED BY ONLY <1>2, <1>3, <1>4, <1>5, <1>6, <1>7, <1>8, <1>9, <1>10, Delivered, ZenonT(40)

\* A deleted delivery frees its bags; what came back of it may stay, which is noted.
LEMMA DeleteSaleStep ==
    ASSUME PoolInv, NEW a \in Actors, NEW s \in Sales, DeleteSale(a, s)
    PROVE  PoolInv'
<1>h. happened' = happened \cup (IF Sum(sold') < Sum(returned) THEN {"delivery dropped"} ELSE {})
  BY DEF DeleteSale
<1>t. alloc' = WithoutSale(s) /\ total' = Exact(sold', returned)
  BY DEF DeleteSale
<1>1. /\ sold' = [sold EXCEPT ![s] = 0] /\ happened \subseteq happened'
      /\ Commit(a) /\ UNCHANGED <<state, booked, returned, cancels, ordered>>
  BY <1>h DEF DeleteSale
<1>2. sold' \in [Sales -> Nat] /\ Sum(sold') \in Nat /\ Sum(returned) \in Nat
  <2>1. sold' \in [Sales -> Nat]
    BY <1>1, InvParts DEF GoodsTyped
  <2> QED BY <2>1, InvParts, SumNat, SumsTyped
<1>3. /\ alloc' \in Table
      /\ \A i \in Lots, t \in Sales : /\ alloc'[<<i, t>>] = IF t = s THEN 0 ELSE alloc[<<i, t>>]
                                      /\ alloc'[<<i, t>>] <= alloc[<<i, t>>]
  BY <1>t, WithoutSaleIs, InvParts
<1>4. GoodsTyped' /\ LinesTyped'
  <2>1. total' \in Int
    <3>1. total' = Sum(returned) - Sum(sold')
      BY <1>t DEF Exact
    <3> QED BY <1>2, <3>1
  <2> QED BY <1>1, <1>2, <1>3, <2>1, InvParts DEF GoodsTyped, LinesTyped, Table
<1>5. RequestsTyped' /\ KnownFresh' /\ ReturnsApart'
  BY <1>1, InvParts, AfterCommit DEF ReturnsApart
<1>6. LinesConserved'
  BY <1>1, Frames
<1>7. BagsAllocated'
  <2> SUFFICES ASSUME Calm(BagEvents)', NEW t \in Sales
               PROVE  Sum([i \in Lots |-> alloc'[<<i, t>>]]) = sold'[t]
    BY DEF BagsAllocated
  <2>1. CASE t = s
    <3>1. PICK g : g = [i \in Lots |-> alloc'[<<i, s>>]]
      OBVIOUS
    <3>2. DOMAIN g = Lots /\ \A i \in Lots : g[i] = 0
      BY <1>3, <3>1
    <3>3. Sum(g) = 0
      BY <3>2, SumOf, SumZero, InvParts
    <3> QED BY <1>1, <2>1, <3>1, <3>3, InvParts DEF GoodsTyped
  <2>2. CASE t # s
    <3>1. \A i \in Lots : alloc'[<<i, t>>] = alloc[<<i, t>>]
      BY <1>3, <2>2
    <3>2. [i \in Lots |-> alloc'[<<i, t>>]] = [i \in Lots |-> alloc[<<i, t>>]]
      BY <3>1
    <3>3. Sum([i \in Lots |-> alloc[<<i, t>>]]) = sold[t]
      BY <1>1, CalmBack DEF PoolInv, BagsAllocated
    <3> QED BY <1>1, <2>2, <3>2, <3>3, InvParts DEF GoodsTyped
  <2> QED BY <2>1, <2>2
<1>8. ReturnsCovered'
  <2>1. Calm(ReturnEvents)' => ~(Sum(sold') < Sum(returned))
    BY <1>h DEF Calm, ReturnEvents
  <2> QED BY <1>1, <1>2, <2>1 DEF ReturnsCovered
<1>9. StockExact'
  BY <1>1, <1>t DEF StockExact, Unless, Exact
<1>10. OverCovered'
  <2>1. NoMoreOver(booked, booked', alloc, alloc')
    <3>1. \A i \in Lots : booked[i] <= booked'[i]
      BY <1>1, InvParts DEF GoodsTyped
    <3> QED BY <1>3, <3>1 DEF NoMoreOver
  <2>2. Sum(returned) <= Sum(returned')
    BY ONLY <1>1, <1>2
  <2> QED BY <1>1, <1>4, <2>1, <2>2, OverKept
<1> QED BY <1>4, <1>5, <1>6, <1>7, <1>8, <1>9, <1>10, Assembled

-----------------------------------------------------------------------------
(* Returns.                                                                *)

\* A return is posted, changed or deleted.
LEMMA Returned ==
    ASSUME PoolInv, NEW a \in Actors, NEW r \in Returns, NEW v \in Nat,
           returned' = [returned EXCEPT ![r] = v], total' \in Int, happened \subseteq happened',
           "raced stock" \notin happened' =>
               (total = Exact(sold, returned) => total' = Exact(sold, returned')),
           Calm(ReturnEvents)' => Sum(returned') <= Sum(sold),
           Calm(OverEvents)' => returned[r] <= v,
           \A b \in Actors \ {a} : Returning(b) => req[b].id # r,
           Commit(a), UNCHANGED <<state, booked, alloc, sold, cancels, ordered>>
    PROVE  PoolInv'
<1>1. GoodsTyped' /\ LinesTyped'
  BY InvParts DEF GoodsTyped, LinesTyped
<1>2. RequestsTyped' /\ KnownFresh' /\ ReturnsApart'
  <2>1. ASSUME NEW b \in Actors \ {a}, Returning(b) PROVE returned'[req[b].id] = 0
    <3>1. req[b].op = "return" /\ ~IsIdle(b)
      <4>1. Idle.op # "return"
        BY DEF Idle
      <4> QED BY ONLY <2>1, <4>1 DEF Returning, IsIdle
    <3>2. req[b] \in GoodsForms
      BY <3>1, InvParts DEF RequestsTyped, Sound
    <3>3. req[b].id \in Returns /\ req[b].id # r
      BY <2>1, <3>1, <3>2, FormFields
    <3>4. returned[req[b].id] = 0
      BY <2>1, InvParts DEF ReturnsApart
    <3> QED BY <3>3, <3>4, InvParts DEF GoodsTyped
  <2> QED BY <2>1, InvParts, AfterCommit
<1>3. LinesConserved' /\ BagsAllocated'
  BY Frames
<1>4. ReturnsCovered'
  BY DEF ReturnsCovered
<1>5. StockExact'
  BY DEF PoolInv, StockExact, Unless, Exact
<1>6. OverCovered'
  <2> SUFFICES ASSUME Calm(OverEvents)' PROVE OverCovered'
    BY DEF OverCovered
  <2>1. NoMoreOver(booked, booked', alloc, alloc')
    <3>1. booked \in [Lots -> Nat] /\ booked' = booked /\ alloc' = alloc /\ alloc \in Table
      BY InvParts DEF GoodsTyped
    <3>2. \A i \in Lots : booked[i] <= booked'[i]
      BY ONLY <3>1
    <3>3. \A i \in Lots, s \in Sales : alloc'[<<i, s>>] <= alloc[<<i, s>>]
      BY ONLY <3>1 DEF Table
    <3> QED BY ONLY <3>2, <3>3 DEF NoMoreOver
  <2>2. Sum(returned) <= Sum(returned')
    <3>1. returned \in [Returns -> Nat] /\ returned' \in [Returns -> Nat] /\ returned[r] <= v
      BY <1>1, InvParts DEF GoodsTyped
    <3>2. ASSUME NEW x \in Returns PROVE returned[x] <= returned'[x]
      <4>1. returned'[x] = IF x = r THEN v ELSE returned[x]
        BY <3>1
      <4>2. returned[x] \in Nat
        BY ONLY <3>1, <3>2
      <4> QED BY ONLY <3>1, <4>1, <4>2
    <3> QED BY ONLY <3>1, <3>2, GoodsAssumption, SumMonotone
  <2> QED BY <1>1, <2>1, <2>2, OverKept
<1> QED BY <1>1, <1>2, <1>3, <1>4, <1>5, <1>6, Assembled

\* What all returns come to when one changes.
LEMMA ReturnedSum ==
    ASSUME GoodsTyped, NEW r \in Returns, NEW v \in Nat, NEW back, back = [returned EXCEPT ![r] = v]
    PROVE  /\ back \in [Returns -> Nat] /\ Sum(back) \in Nat
           /\ Sum(returned) \in Nat /\ Sum(sold) \in Nat /\ returned[r] \in Nat
           /\ Sum(back) = Sum(returned) + v - returned[r]
<1>1. /\ returned \in [Returns -> Nat] /\ back \in [Returns -> Nat] /\ back[r] = v
      /\ \A x \in Returns \ {r} : back[x] = returned[x]
  BY DEF GoodsTyped
<1>2. Sum(back) = Sum(returned) + back[r] - returned[r]
  <2>1. IsFiniteSet(Returns) /\ r \in Returns
    BY GoodsAssumption
  <2> QED BY ONLY <1>1, <2>1, SumOther
<1> QED BY <1>1, <1>2, SumNat, SumsTyped, GoodsAssumption

\* A new return: nobody else posts it, and what it may return was read with its stock.
LEMMA ReturnWriteStep ==
    ASSUME PoolInv, NEW a \in Actors, ReturnWrite(a)
    PROVE  PoolInv'
<1>1. PICK r, q, copy, back : r = req[a].id /\ q = req[a].qty /\ copy = req[a].copy /\ back = returned'
  OBVIOUS
<1>2. /\ req[a].op = "return" /\ back = [returned EXCEPT ![r] = q] /\ total' = copy + q
      /\ Commit(a) /\ UNCHANGED <<state, booked, alloc, sold, cancels, ordered>>
  BY <1>1 DEF ReturnWrite
<1>3. happened' = happened
            \cup (IF req[a].stale THEN {"raced stock"} ELSE {})
            \cup (IF req[a].stale /\ Sum(sold) < Sum(back) THEN {"raced return"} ELSE {})
  BY <1>1 DEF ReturnWrite
<1>4. r \in Returns /\ q \in Nat \ {0} /\ copy \in Int
  BY <1>1, <1>2, NotOvertaken, FormFields
<1>5. returned[r] = 0 /\ \A b \in Actors \ {a} : Returning(b) => req[b].id # r
  BY <1>1, <1>2, InvParts DEF ReturnsApart, Returning
<1>6. ~req[a].stale => copy = total /\ q <= Returnable(r)
  BY <1>1, <1>2, NotOvertaken DEF Fresh
<1>7. /\ Sum(back) \in Nat /\ Sum(returned) \in Nat /\ Sum(sold) \in Nat
      /\ Sum(back) = Sum(returned) + q
  <2>1. /\ Sum(back) \in Nat /\ Sum(returned) \in Nat /\ Sum(sold) \in Nat
        /\ Sum(back) = Sum(returned) + q - returned[r]
    BY <1>2, <1>4, ReturnedSum, InvParts
  <2> QED BY ONLY <1>4, <1>5, <2>1
<1>8. happened \subseteq happened' /\ ("raced stock" \notin happened' => ~req[a].stale)
  BY <1>3
<1>9. Calm(ReturnEvents)' => Sum(back) <= Sum(sold)
  <2>1. ASSUME ~req[a].stale PROVE Sum(back) <= Sum(sold)
    <3>1. Returnable(r) = AtLeast0(Sum(sold) - Sum(returned)) + returned[r]
      BY DEF Returnable, Net
    <3> QED BY <1>4, <1>5, <1>6, <1>7, <2>1, <3>1 DEF AtLeast0
  <2>2. Calm(ReturnEvents)' => ~(req[a].stale /\ Sum(sold) < Sum(back))
    BY <1>3 DEF Calm, ReturnEvents
  <2> QED BY <1>7, <2>1, <2>2
<1>10. Exact(sold, returned) = Sum(returned) - Sum(sold) /\ Exact(sold, back) = Sum(back) - Sum(sold)
  BY DEF Exact
<1>11. ~req[a].stale => (total = Exact(sold, returned) => total' = Exact(sold, back))
  BY <1>2, <1>4, <1>6, <1>7, <1>10
<1>12. total' \in Int /\ returned[r] <= q
  BY <1>2, <1>4, <1>5
<1>13. PoolInv /\ a \in Actors
  OBVIOUS
<1> QED BY ONLY <1>1, <1>2, <1>4, <1>5, <1>8, <1>9, <1>11, <1>12, <1>13, Returned, ZenonT(40)

\* An edited return.
LEMMA EditReturnWriteStep ==
    ASSUME PoolInv, NEW a \in Actors, EditReturnWrite(a)
    PROVE  PoolInv'
<1>1. PICK r, q, copy, back : r = req[a].id /\ q = req[a].qty /\ copy = req[a].copy /\ back = returned'
  OBVIOUS
<1>2. /\ req[a].op = "reedit" /\ returned[r] > 0 /\ back = [returned EXCEPT ![r] = q]
      /\ total' = IF q = returned[r] THEN total ELSE copy - returned[r] + q
      /\ Commit(a) /\ UNCHANGED <<state, booked, alloc, sold, cancels, ordered>>
  BY <1>1 DEF EditReturnWrite, Restocked
<1>3. happened' = happened
            \cup (IF req[a].stale THEN {"raced stock"} ELSE {})
            \cup (IF req[a].stale /\ Sum(sold) < Sum(back) THEN {"raced return"} ELSE {})
            \cup (IF q < returned[r] THEN {"return dropped"} ELSE {})
  BY <1>1 DEF EditReturnWrite
<1>4. r \in Returns /\ q \in Nat \ {0} /\ copy \in Int
  BY <1>1, <1>2, NotOvertaken, FormFields
<1>5. \A b \in Actors \ {a} : Returning(b) => req[b].id # r
  <2>1. ~(returned[r] = 0)
    BY <1>2, <1>4, InvParts DEF GoodsTyped
  <2> QED BY <2>1, InvParts DEF ReturnsApart
<1>6. ~req[a].stale => copy = total /\ q <= Returnable(r)
  BY <1>1, <1>2, NotOvertaken DEF Fresh
<1>7. /\ Sum(back) \in Nat /\ Sum(returned) \in Nat /\ Sum(sold) \in Nat /\ returned[r] \in Nat
      /\ Sum(back) = Sum(returned) + q - returned[r]
  BY <1>2, <1>4, ReturnedSum, InvParts
<1>8. happened \subseteq happened' /\ ("raced stock" \notin happened' => ~req[a].stale)
  BY <1>3
<1>9. Calm(ReturnEvents)' => Sum(back) <= Sum(sold)
  <2>1. ASSUME ~req[a].stale, Calm(ReturnEvents)' PROVE Sum(back) <= Sum(sold)
    <3>1. Returnable(r) = AtLeast0(Sum(sold) - Sum(returned)) + returned[r]
      BY DEF Returnable, Net
    <3>2. Sum(returned) <= Sum(sold)
      BY <1>8, <2>1, CalmBack DEF PoolInv, ReturnsCovered
    <3> QED BY <1>4, <1>6, <1>7, <2>1, <3>1, <3>2 DEF AtLeast0
  <2>2. Calm(ReturnEvents)' => ~(req[a].stale /\ Sum(sold) < Sum(back))
    BY <1>3 DEF Calm, ReturnEvents
  <2> QED BY <1>7, <2>1, <2>2
<1>10. Exact(sold, returned) = Sum(returned) - Sum(sold) /\ Exact(sold, back) = Sum(back) - Sum(sold)
  BY DEF Exact
<1>t. total \in Int
  BY InvParts DEF GoodsTyped
<1>11. ~req[a].stale => (total = Exact(sold, returned) => total' = Exact(sold, back))
  BY <1>2, <1>4, <1>6, <1>7, <1>10, <1>t
<1>12. total' \in Int /\ (Calm(OverEvents)' => returned[r] <= q)
  <2>1. Calm(OverEvents)' => ~(q < returned[r])
    BY <1>3 DEF Calm, OverEvents
  <2> QED BY <1>2, <1>4, <1>7, <1>t, <2>1
<1>13. PoolInv /\ a \in Actors
  OBVIOUS
<1> QED BY ONLY <1>1, <1>2, <1>4, <1>5, <1>8, <1>9, <1>11, <1>12, <1>13, Returned, ZenonT(40)

\* A deleted return is noted.
LEMMA DeleteReturnStep ==
    ASSUME PoolInv, NEW a \in Actors, NEW r \in Returns, DeleteReturn(a, r)
    PROVE  PoolInv'
<1>1. PICK back : back = returned'
  OBVIOUS
<1>2. /\ returned[r] > 0 /\ back = [returned EXCEPT ![r] = 0] /\ total' = Exact(sold, back)
      /\ happened' = happened \cup {"return dropped"}
      /\ Commit(a) /\ UNCHANGED <<state, booked, alloc, sold, cancels, ordered>>
  BY <1>1 DEF DeleteReturn
<1>3. \A b \in Actors \ {a} : Returning(b) => req[b].id # r
  <2>1. ~(returned[r] = 0)
    <3>1. returned[r] > 0
      BY <1>2
    <3> QED BY ONLY <3>1
  <2> QED BY <2>1, InvParts DEF ReturnsApart
<1>4. /\ Sum(back) \in Nat /\ Sum(returned) \in Nat /\ Sum(sold) \in Nat /\ returned[r] \in Nat
      /\ Sum(back) = Sum(returned) + 0 - returned[r]
  BY <1>2, ReturnedSum, InvParts
<1>5. happened \subseteq happened' /\ ~Calm(OverEvents)'
  BY <1>2 DEF Calm, OverEvents
<1>6. Calm(ReturnEvents)' => Sum(back) <= Sum(sold)
  <2>1. Calm(ReturnEvents)' => Sum(returned) <= Sum(sold)
    BY <1>5, CalmBack DEF PoolInv, ReturnsCovered
  <2> QED BY <1>4, <2>1
<1>7. total' \in Int
  <2>1. total' = Sum(back) - Sum(sold)
    BY <1>2 DEF Exact
  <2> QED BY ONLY <1>4, <2>1
<1>8. PoolInv /\ a \in Actors
  OBVIOUS
<1> QED BY ONLY <1>1, <1>2, <1>3, <1>5, <1>6, <1>7, <1>8, Returned

-----------------------------------------------------------------------------
(* Cancelling and taking back.                                             *)

\* A cancellation that nothing has overtaken deletes only lines without allocations and
\* leaves what was ordered; one that was overtaken is noted.
LEMMA CancelWriteStep ==
    ASSUME PoolInv, NEW a \in Actors, CancelWrite(a)
    PROVE  PoolInv'
<1>1. PICK left, copy, rows, gone : /\ left = req[a].left /\ copy = req[a].copy /\ rows = DOMAIN left
                                    /\ gone = {i \in rows : left[i] = copy[i]}
  OBVIOUS
<1>2. /\ req[a].op = "cancel" /\ \A i \in rows : state[i] = "live"
      /\ booked' = [i \in Lots |-> IF i \in rows THEN copy[i] - left[i] ELSE booked[i]]
      /\ Commit(a) /\ UNCHANGED <<state, sold, returned, total, ordered>>
  BY <1>1 DEF CancelWrite, Kept, CancelLands
<1>a. alloc' = [p \in Lots \X Sales |-> IF p[1] \in gone THEN 0 ELSE alloc[p]]
  BY <1>1 DEF CancelWrite
<1>c. cancels' = [i \in Lots |-> IF i \in rows THEN Append(cancels[i], [qty |-> left[i], void |-> FALSE])
                                 ELSE cancels[i]]
  BY <1>1 DEF CancelWrite
<1>h. happened' = happened
            \cup (IF req[a].stale THEN {"raced cancel"} ELSE {})
            \cup (IF \E i \in rows : booked'[i] < Sum([s \in Sales |-> alloc'[<<i, s>>]])
                  THEN {"cancelled delivered"} ELSE {})
  BY <1>1 DEF CancelWrite
<1>3. /\ rows \subseteq Lots /\ DOMAIN copy = rows
      /\ \A i \in rows : left[i] \in Nat /\ copy[i] \in Nat /\ left[i] <= copy[i]
  <2>1. left \in Part /\ copy \in Part
    BY <1>1, <1>2, NotOvertaken, FormFields
  <2>2. DOMAIN copy = rows /\ \A i \in rows : left[i] <= copy[i]
    BY <1>1, <1>2, NotOvertaken DEF Sound
  <2> QED BY <1>1, <2>1, <2>2, PartFields
<1>4. ~req[a].stale => \A i \in rows : copy[i] = booked[i] /\ (left[i] = booked[i] => ~Linked(i))
  BY <1>1, <1>2, NotOvertaken DEF Fresh
<1>5. happened \subseteq happened' /\ ("raced cancel" \notin happened' => ~req[a].stale)
  BY <1>h
<1>6. /\ alloc' \in Table
      /\ \A i \in Lots, s \in Sales : alloc'[<<i, s>>] = IF i \in gone THEN 0 ELSE alloc[<<i, s>>]
  <2>1. \A p \in Lots \X Sales : alloc[p] \in Nat /\ alloc'[p] = IF p[1] \in gone THEN 0 ELSE alloc[p]
    BY <1>a, InvParts DEF Table
  <2>2. alloc' \in Table
    BY <1>a, <2>1 DEF Table
  <2>3. \A i \in Lots, s \in Sales : <<i, s>> \in Lots \X Sales /\ <<i, s>>[1] = i
    OBVIOUS
  <2> QED BY <2>1, <2>2, <2>3
<1>7. ASSUME NEW i \in rows
      PROVE  /\ cancels'[i] \in Seq(CancelNote) /\ DOMAIN cancels[i] \subseteq DOMAIN cancels'[i]
             /\ Outstanding(cancels'[i]) = Outstanding(cancels[i]) + left[i]
             /\ Outstanding(cancels[i]) \in Nat
  <2>1. PICK c, e : c = cancels[i] /\ e = [qty |-> left[i], void |-> FALSE]
    OBVIOUS
  <2>2. c \in Seq(CancelNote) /\ e \in CancelNote /\ e.qty = left[i] /\ ~e.void
    BY <1>3, <2>1, InvParts DEF LinesTyped, CancelNote
  <2>3. cancels'[i] = Append(c, e)
    BY <1>3, <1>c, <2>1
  <2>4. Append(c, e) \in Seq(CancelNote) /\ DOMAIN c \subseteq DOMAIN Append(c, e)
    BY ONLY <2>2
  <2>5. Outstanding(Append(c, e)) = Outstanding(c) + left[i] /\ Outstanding(c) \in Nat
    BY <2>2, OutstandingIs
  <2> QED BY <2>1, <2>3, <2>4, <2>5
<1>8. \A i \in Lots \ rows : cancels'[i] = cancels[i] /\ booked'[i] = booked[i]
  BY <1>2, <1>c
<1>9. \A i \in rows : booked'[i] = copy[i] - left[i] /\ booked'[i] \in Nat /\ state[i] = "live"
  BY <1>2, <1>3, InvParts DEF LinesTyped
<1>10. booked' \in [Lots -> Nat]
  <2>1. \A i \in Lots : booked'[i] \in Nat
    BY <1>8, <1>9, InvParts DEF GoodsTyped
  <2> QED BY <1>2, <2>1
<1>11. GoodsTyped'
  BY <1>2, <1>6, <1>10, InvParts DEF GoodsTyped, Table
<1>12. LinesTyped'
  <2>1. cancels' \in [Lots -> Seq(CancelNote)]
    <3>1. \A i \in Lots : cancels'[i] \in Seq(CancelNote)
      BY <1>7, <1>8, InvParts DEF LinesTyped
    <3> QED BY <1>c, <3>1
  <2>2. ASSUME NEW i \in Lots
        PROVE  /\ booked'[i] > 0 => state'[i] = "live"
               /\ state'[i] = "new" => cancels'[i] = <<>>
    BY <1>2, <1>8, <1>9, InvParts DEF LinesTyped
  <2> QED BY <1>2, <2>1, <2>2, InvParts DEF LinesTyped
<1>13. RequestsTyped' /\ KnownFresh' /\ ReturnsApart'
  <2>1. \A i \in Lots : DOMAIN cancels[i] \subseteq DOMAIN cancels'[i]
    BY <1>7, <1>8
  <2> QED BY <1>2, <2>1, InvParts, AfterCommit DEF ReturnsApart
<1>14. LinesConserved'
  <2>1. ASSUME NEW i \in Lots, state'[i] = "live", Calm(LineEvents)'
        PROVE  booked'[i] + Outstanding(cancels'[i]) = ordered'[i]
    <3>1. booked[i] + Outstanding(cancels[i]) = ordered[i] /\ ordered'[i] = ordered[i]
      BY <1>2, <1>5, <2>1, CalmBack DEF PoolInv, LinesConserved
    <3>2. CASE i \in rows
      <4>1. ~req[a].stale
        BY <1>5, <2>1 DEF Calm, LineEvents
      <4>2. copy[i] = booked[i]
        BY <1>4, <3>2, <4>1
      <4>3. PICK o, o2, x, y : o = Outstanding(cancels[i]) /\ o2 = Outstanding(cancels'[i])
                               /\ x = booked[i] /\ y = booked'[i]
        OBVIOUS
      <4>4. o \in Nat /\ o2 = o + left[i] /\ left[i] \in Nat /\ x \in Nat /\ y = x - left[i]
        BY <1>3, <1>7, <1>9, <3>2, <4>2, <4>3
      <4>5. y + o2 = x + o
        BY ONLY <4>4
      <4> QED BY <3>1, <4>3, <4>5
    <3>3. CASE i \notin rows
      BY <1>8, <3>1, <3>3
    <3> QED BY <3>2, <3>3
  <2> QED BY <2>1 DEF LinesConserved
<1>15. BagsAllocated'
  <2> SUFFICES ASSUME Calm(BagEvents)', NEW s \in Sales
               PROVE  Sum([i \in Lots |-> alloc'[<<i, s>>]]) = sold'[s]
    BY DEF BagsAllocated
  <2>1. ~req[a].stale
    BY <1>5 DEF Calm, BagEvents
  <2>2. \A i \in gone : ~Linked(i)
    BY <1>1, <1>4, <2>1
  <2>3. \A i \in Lots : alloc'[<<i, s>>] = alloc[<<i, s>>]
    BY <1>6, <2>2, InvParts DEF Linked, Table
  <2>4. [i \in Lots |-> alloc'[<<i, s>>]] = [i \in Lots |-> alloc[<<i, s>>]]
    BY <2>3
  <2>5. Sum([i \in Lots |-> alloc[<<i, s>>]]) = sold[s]
    BY <1>5, CalmBack DEF PoolInv, BagsAllocated
  <2> QED BY <1>2, <2>4, <2>5
<1>16. ReturnsCovered' /\ StockExact'
  BY <1>2, <1>5, Frames
<1>17. OverCovered'
  <2> SUFFICES ASSUME Calm(OverEvents)' PROVE OverCovered'
    BY DEF OverCovered
  <2>1. ASSUME NEW i \in Lots
        PROVE  \/ booked[i] <= booked'[i] /\ \A s \in Sales : alloc'[<<i, s>>] <= alloc[<<i, s>>]
               \/ UsedIn(alloc')[i] <= booked'[i]
    <3>1. CASE i \in rows
      <4>1. ~(booked'[i] < Sum([s \in Sales |-> alloc'[<<i, s>>]]))
        BY <1>h, <3>1 DEF Calm, OverEvents
      <4>2. UsedIn(alloc')[i] = Sum([s \in Sales |-> alloc'[<<i, s>>]]) /\ UsedIn(alloc')[i] \in Nat
        BY <1>6, UsedTyped
      <4> QED BY <1>10, <4>1, <4>2
    <3>2. CASE i \notin rows
      <4>1. booked[i] \in Nat /\ booked'[i] = booked[i]
        BY <1>8, <3>2, InvParts DEF GoodsTyped
      <4>2. \A s \in Sales : alloc'[<<i, s>>] = alloc[<<i, s>>] /\ alloc[<<i, s>>] \in Nat
        BY <1>1, <1>6, <3>2, InvParts DEF Table
      <4> QED BY <4>1, <4>2
    <3> QED BY <3>1, <3>2
  <2>2. NoMoreOver(booked, booked', alloc, alloc')
    BY <2>1 DEF NoMoreOver
  <2>3. Sum(returned) <= Sum(returned')
    BY <1>2, InvParts, SumsTyped
  <2> QED BY <1>5, <1>11, <2>2, <2>3, OverKept
<1> QED BY <1>11, <1>12, <1>13, <1>14, <1>15, <1>16, <1>17, Assembled

\* A cancellation taken back gives the line what it had lost.
LEMMA RevertWriteStep ==
    ASSUME PoolInv, NEW a \in Actors, RevertWrite(a)
    PROVE  PoolInv'
<1>1. PICK i, k, copy, c : i = req[a].lot /\ k = req[a].note /\ copy = req[a].copy /\ c = cancels[i]
  OBVIOUS
<1>2. /\ req[a].op = "revert" /\ copy # NoCopy /\ state[i] = "live"
      /\ booked' = [booked EXCEPT ![i] = c[k].qty + (IF copy = 0 THEN booked[i] ELSE copy)]
      /\ Note(a, "raced revert") /\ Commit(a)
      /\ UNCHANGED <<state, alloc, sold, returned, total, ordered>>
  BY <1>1 DEF RevertWrite
<1>c. cancels' = [cancels EXCEPT ![i][k].void = TRUE]
  BY <1>1 DEF RevertWrite
<1>3. i \in Lots /\ copy \in Nat /\ k \in DOMAIN c
  <2>1. req[a] \in GoodsForms /\ Sound(req[a])
    BY <1>2, NotOvertaken
  <2>2. i \in Lots /\ copy \in Nat \cup {NoCopy}
    BY <1>1, <1>2, <2>1, FormFields
  <2>3. k \in DOMAIN c
    BY <1>1, <1>2, <2>1 DEF Sound
  <2> QED BY <1>2, <2>2, <2>3
<1>4. ~req[a].stale => copy = booked[i] /\ ~c[k].void
  BY <1>1, <1>2, NotOvertaken DEF Fresh
<1>5. happened \subseteq happened' /\ ("raced revert" \notin happened' => ~req[a].stale)
  BY <1>2 DEF Note
<1>6. PICK c2 : c2 = [c EXCEPT ![k].void = TRUE]
  OBVIOUS
<1>7. c \in Seq(CancelNote) /\ c[k] \in CancelNote /\ c[k].qty \in Nat
  <2>1. c \in Seq(CancelNote)
    BY <1>1, <1>3, InvParts DEF LinesTyped
  <2>2. c[k] \in CancelNote
    BY ONLY <1>3, <2>1
  <2> QED BY <2>1, <2>2 DEF CancelNote
<1>8. c2 \in Seq(CancelNote) /\ DOMAIN c2 = DOMAIN c
  <2>1. PICK n \in Nat : DOMAIN c = 1..n
    BY ONLY <1>7
  <2>2. \A j \in 1..n : c[j] \in CancelNote
    BY ONLY <1>7, <2>1
  <2>3. \A j \in 1..n : c2[j] \in CancelNote
    BY ONLY <1>6, <2>1, <2>2 DEF CancelNote
  <2>4. c2 \in [1..n -> CancelNote] /\ DOMAIN c2 = DOMAIN c
    BY ONLY <1>6, <1>7, <2>1, <2>3
  <2>5. c2 \in Seq(CancelNote)
    BY ONLY <2>1, <2>4
  <2> QED BY ONLY <2>4, <2>5
<1>9. cancels' \in [Lots -> Seq(CancelNote)] /\ cancels'[i] = c2 /\ \A j \in Lots \ {i} : cancels'[j] = cancels[j]
  <2>1. cancels' = [cancels EXCEPT ![i] = c2]
    BY <1>1, <1>6, <1>c
  <2> QED BY <1>3, <1>8, <2>1, InvParts DEF LinesTyped
<1>b. booked \in [Lots -> Nat]
  BY InvParts DEF GoodsTyped
<1>10. /\ booked' \in [Lots -> Nat] /\ \A j \in Lots \ {i} : booked'[j] = booked[j]
       /\ booked'[i] = c[k].qty + (IF copy = 0 THEN booked[i] ELSE copy)
  <2>1. PICK v : v = c[k].qty + (IF copy = 0 THEN booked[i] ELSE copy)
    OBVIOUS
  <2>2. booked' = [booked EXCEPT ![i] = v]
    BY ONLY <1>2, <2>1
  <2>3. v \in Nat
    <3>1. booked[i] \in Nat
      BY ONLY <1>3, <1>b
    <3> QED BY ONLY <1>3, <1>7, <2>1, <3>1
  <2> QED BY ONLY <1>3, <1>b, <2>1, <2>2, <2>3
<1>11. GoodsTyped' /\ LinesTyped'
  <2>1. GoodsTyped'
    BY <1>2, <1>10, InvParts DEF GoodsTyped, Table
  <2>2. LinesTyped'
    BY <1>2, <1>9, <1>10, InvParts DEF LinesTyped
  <2> QED BY <2>1, <2>2
<1>12. RequestsTyped' /\ KnownFresh' /\ ReturnsApart'
  <2>1. \A j \in Lots : DOMAIN cancels[j] \subseteq DOMAIN cancels'[j]
    BY <1>1, <1>8, <1>9
  <2> QED BY <1>2, <2>1, InvParts, AfterCommit DEF ReturnsApart
<1>13. ~req[a].stale => booked'[i] = booked[i] + c[k].qty
  <2>1. booked[i] \in Nat
    BY ONLY <1>3, <1>b
  <2> QED BY ONLY <1>3, <1>4, <1>7, <1>10, <2>1
<1>14. LinesConserved'
  <2>1. ASSUME NEW j \in Lots, state'[j] = "live", Calm(LineEvents)'
        PROVE  booked'[j] + Outstanding(cancels'[j]) = ordered'[j]
    <3>1. booked[j] + Outstanding(cancels[j]) = ordered[j] /\ ordered'[j] = ordered[j]
      BY <1>2, <1>5, <2>1, CalmBack DEF PoolInv, LinesConserved
    <3>2. CASE j = i
      <4>1. ~req[a].stale
        BY <1>5, <2>1 DEF Calm, LineEvents
      <4>2. Outstanding(c2) = Outstanding(c) - c[k].qty /\ Outstanding(c) \in Nat
        BY <1>3, <1>4, <1>6, <1>7, <4>1, OutstandingIs
      <4>3. PICK o, o2, x, y, q : o = Outstanding(c) /\ o2 = Outstanding(c2)
                                  /\ x = booked[i] /\ y = booked'[i] /\ q = c[k].qty
        OBVIOUS
      <4>4. o \in Nat /\ o2 = o - q /\ q \in Nat /\ x \in Nat /\ y = x + q
        BY <1>3, <1>7, <1>13, <4>1, <4>2, <4>3, InvParts DEF GoodsTyped
      <4>5. y + o2 = x + o
        BY ONLY <4>4
      <4> QED BY <1>1, <1>9, <3>1, <3>2, <4>3, <4>5
    <3>3. CASE j # i
      BY <1>9, <1>10, <3>1, <3>3
    <3> QED BY <3>2, <3>3
  <2> QED BY <2>1 DEF LinesConserved
<1>15. BagsAllocated' /\ ReturnsCovered' /\ StockExact'
  BY <1>2, <1>5, Frames
<1>16. OverCovered'
  <2> SUFFICES ASSUME Calm(OverEvents)' PROVE OverCovered'
    BY DEF OverCovered
  <2>1. ~req[a].stale
    BY <1>5 DEF Calm, OverEvents
  <2>2. \A j \in Lots : booked[j] <= booked'[j]
    <3>1. ASSUME NEW j \in Lots PROVE booked[j] <= booked'[j]
      <4>1. booked[j] \in Nat /\ booked[i] \in Nat
        BY <1>3, InvParts DEF GoodsTyped
      <4>2. j = i => booked'[j] = booked[j] + c[k].qty
        BY <1>13, <2>1
      <4>3. j # i => booked'[j] = booked[j]
        BY <1>10
      <4> QED BY ONLY <1>7, <4>1, <4>2, <4>3
    <3> QED BY <3>1
  <2>3. \A j \in Lots, s \in Sales : alloc'[<<j, s>>] <= alloc[<<j, s>>]
    <3>1. alloc' = alloc /\ alloc \in Table
      BY <1>2, InvParts
    <3> QED BY ONLY <3>1 DEF Table
  <2>4. NoMoreOver(booked, booked', alloc, alloc')
    BY <2>2, <2>3 DEF NoMoreOver
  <2>5. Sum(returned) <= Sum(returned')
    <3>1. returned' = returned /\ Sum(returned) \in Nat
      BY <1>2, InvParts, SumsTyped
    <3> QED BY ONLY <3>1
  <2> QED BY <1>5, <1>11, <2>4, <2>5, OverKept
<1> QED BY <1>11, <1>12, <1>14, <1>15, <1>16, Assembled

-----------------------------------------------------------------------------
(* Requests that read, load or give up.                                    *)

\* A refused request changes nothing.
LEMMA GivesUp ==
    ASSUME PoolInv, NEW a \in Actors, GiveUp(a)
    PROVE  PoolInv'
<1>1. req' = [req EXCEPT ![a] = Idle] /\ UNCHANGED <<goods, happened>>
  BY DEF GiveUp
<1>2. Idle.op # "return"
  BY DEF Idle
<1> QED BY <1>1, <1>2, QuietKeeps

\* Whatever a sale, a return or an edit of one reads.
LEMMA FormRead ==
    ASSUME PoolInv, NEW a \in Actors, NEW op \in {"sale", "edit", "return", "reedit"}, NEW d, NEW q \in Nat \ {0},
           op \in {"sale", "edit"} => d \in Sales,
           op \in {"return", "reedit"} => d \in Returns /\ q <= Returnable(d),
           op = "return" => /\ returned[d] = 0
                            /\ \A b \in Actors : req[b].op = "return" => req[b].id # d,
           Read(a, [op |-> op, id |-> d, qty |-> q, copy |-> total, stale |-> FALSE])
    PROVE  PoolInv'
<1>1. PICK r : r = [op |-> op, id |-> d, qty |-> q, copy |-> total, stale |-> FALSE]
  OBVIOUS
<1>2. r.op = op /\ r.id = d /\ r.qty = q /\ r.copy = total /\ r.stale = FALSE
  BY ONLY <1>1
<1>3. r \in GoodsForms
  <2>1. total \in Int
    BY InvParts DEF GoodsTyped
  <2>2. CASE op \in {"sale", "edit"}
    BY <1>1, <2>1, <2>2 DEF SaleForm, GoodsForms
  <2>3. CASE op \in {"return", "reedit"}
    BY <1>1, <2>1, <2>3 DEF ReturnForm, GoodsForms
  <2> QED BY <2>2, <2>3
<1>4. Sound(r)
  BY <1>2, <1>3 DEF Sound
<1>5. Fresh(r)
  BY <1>2 DEF Fresh
<1>6. req' = [req EXCEPT ![a] = r] /\ UNCHANGED <<goods, happened>>
  BY <1>1 DEF Read
<1>7. r.op = "return" => /\ returned[r.id] = 0
                         /\ \A b \in Actors \ {a} : Returning(b) => req[b].id # r.id
  BY <1>2 DEF Returning
<1> QED BY <1>4, <1>5, <1>6, <1>7, QuietKeeps

\* The plan of a cancellation.
LEMMA CancelReadStep ==
    ASSUME PoolInv, NEW a \in Actors, NEW rows \in SUBSET Lots, CancelRead(a, rows)
    PROVE  PoolInv'
<1>1. PICK l, c : l = [i \in rows |-> Left[i]] /\ c = [i \in rows |-> booked[i]]
  OBVIOUS
<1>2. PICK r : r = [op |-> "cancel", left |-> l, copy |-> c, stale |-> FALSE]
  OBVIOUS
<1>3. r.op = "cancel" /\ r.left = l /\ r.copy = c /\ r.stale = FALSE
  BY ONLY <1>2
<1>4. /\ req' = [req EXCEPT ![a] = r] /\ UNCHANGED <<goods, happened>>
      /\ ~CancelBlocked(rows)
  BY <1>1, <1>2 DEF CancelRead, Read
<1>5. ASSUME NEW i \in Lots
      PROVE  booked[i] \in Nat /\ Left[i] \in Nat /\ Left[i] <= booked[i]
  <2>1. PICK n : n = AtLeast0(Net - SumFunctionOnSet(booked, 1..(i - 1)))
    OBVIOUS
  <2>2. /\ booked[i] \in Nat /\ Left[i] = booked[i] - SmallerOf(booked[i], n)
    BY <2>1, InvParts DEF Left, GoodsTyped
  <2>3. n \in Nat
    <3>1. Net \in Int
      <4>1. Sum(sold) \in Nat /\ Sum(returned) \in Nat
        BY InvParts, SumsTyped
      <4> QED BY ONLY <4>1 DEF Net
    <3>2. SumFunctionOnSet(booked, 1..(i - 1)) \in Nat
      <4>1. i \in Nat /\ \A j \in 1..(i - 1) : j \in Lots
        BY LotsFinite DEF Lots
      <4>2. IsFiniteSet(1..(i - 1)) /\ \A j \in 1..(i - 1) : booked[j] \in Nat
        <5>1. IsFiniteSet(1..(i - 1))
          BY <4>1, FS_Interval
        <5>2. booked \in [Lots -> Nat]
          BY InvParts DEF GoodsTyped
        <5> QED BY ONLY <4>1, <5>1, <5>2
      <4> QED BY ONLY <4>2, SumType
    <3> QED BY ONLY <2>1, <3>1, <3>2 DEF AtLeast0
  <2> QED BY ONLY <2>2, <2>3 DEF SmallerOf
<1>6. l \in Part /\ c \in Part /\ DOMAIN l = rows /\ DOMAIN c = rows
      /\ \A i \in rows : l[i] = Left[i] /\ c[i] = booked[i]
  <2>1. \A i \in rows : Left[i] \in Nat /\ booked[i] \in Nat
    BY <1>5
  <2>2. l \in [rows -> Nat] /\ c \in [rows -> Nat]
    BY ONLY <1>1, <2>1
  <2> QED BY <1>1, <2>2 DEF Part
<1>7. r \in GoodsForms
  <2> HIDE DEF Part
  <2> QED BY ONLY <1>2, <1>6 DEF CancelForm, GoodsForms
<1>8. Sound(r)
  BY <1>3, <1>5, <1>6, <1>7 DEF Sound
<1>9. Fresh(r)
  <2>1. \A i \in rows : Left[i] = booked[i] => ~Linked(i)
    BY <1>4 DEF CancelBlocked
  <2> QED BY <1>3, <1>6, <2>1 DEF Fresh
<1> QED BY <1>3, <1>4, <1>8, <1>9, QuietKeeps

\* The line to edit.
LEMMA EditBookingReadStep ==
    ASSUME PoolInv, NEW a \in Actors, NEW i \in Lots, NEW q \in Nat, EditBookingRead(a, i, q)
    PROVE  PoolInv'
<1>1. PICK h, c : h = Outstanding(cancels[i]) /\ c = booked[i]
  OBVIOUS
<1>2. PICK r : r = [op |-> "rebook", lot |-> i, qty |-> q, held |-> h, copy |-> c, stale |-> FALSE]
  OBVIOUS
<1>3. r.op = "rebook" /\ r.lot = i /\ r.qty = q /\ r.held = h /\ r.copy = c /\ r.stale = FALSE
  BY ONLY <1>2
<1>4. /\ req' = [req EXCEPT ![a] = r] /\ UNCHANGED <<goods, happened>>
      /\ state[i] = "live" /\ q >= AllocatedOf(i)
  BY <1>1, <1>2 DEF EditBookingRead, Read, MayEdit
<1>5. h \in Nat /\ c \in Nat
  BY <1>1, InvParts, OutstandingIs DEF LinesTyped, GoodsTyped
<1>6. r \in GoodsForms
  BY <1>2, <1>5 DEF RebookForm, GoodsForms
<1>7. Sound(r)
  BY <1>3, <1>6 DEF Sound
<1>8. Fresh(r)
  BY <1>1, <1>3, <1>4 DEF Fresh
<1> QED BY <1>3, <1>4, <1>7, <1>8, QuietKeeps

\* The entry to take back.
LEMMA RevertReadStep ==
    ASSUME PoolInv, NEW a \in Actors, NEW i \in Lots, NEW k \in Nat, RevertRead(a, i, k)
    PROVE  PoolInv'
<1>1. PICK r : r = [op |-> "revert", lot |-> i, note |-> k, copy |-> NoCopy, stale |-> FALSE]
  OBVIOUS
<1>2. r.op = "revert" /\ r.lot = i /\ r.note = k /\ r.copy = NoCopy /\ r.stale = FALSE
  BY ONLY <1>1
<1>3. /\ req' = [req EXCEPT ![a] = r] /\ UNCHANGED <<goods, happened>>
      /\ state[i] = "live" /\ k \in DOMAIN cancels[i] /\ ~cancels[i][k].void
  BY <1>1 DEF RevertRead, Read
<1>4. r \in GoodsForms
  BY <1>1 DEF RevertForm, GoodsForms
<1>5. Sound(r)
  BY <1>2, <1>3, <1>4 DEF Sound
<1>6. Fresh(r)
  BY <1>2, <1>3 DEF Fresh
<1> QED BY <1>2, <1>3, <1>5, <1>6, QuietKeeps

\* The line it is taken back to.
LEMMA RevertLoadStep ==
    ASSUME PoolInv, NEW a \in Actors, RevertLoad(a)
    PROVE  PoolInv'
<1>1. PICK p, v : p = req[a] /\ v = booked[p.lot]
  OBVIOUS
<1>2. PICK r : r = [p EXCEPT !.copy = v]
  OBVIOUS
<1>3. /\ p.op = "revert" /\ req' = [req EXCEPT ![a] = r] /\ UNCHANGED <<goods, happened>>
  BY <1>1, <1>2 DEF RevertLoad
<1>4. p \in GoodsForms /\ Sound(p) /\ (p.stale \/ Fresh(p))
  BY <1>1, <1>3, NotOvertaken
<1>5. p \in RevertForm /\ p.lot \in Lots
  BY <1>3, <1>4, FormFields
<1>6. v \in Nat
  BY <1>1, <1>5, InvParts DEF GoodsTyped
<1>7. /\ r \in RevertForm /\ r.op = "revert" /\ r.lot = p.lot /\ r.note = p.note
      /\ r.stale = p.stale /\ r.copy = v
  BY ONLY <1>2, <1>3, <1>5, <1>6 DEF RevertForm
<1>8. Sound(r)
  BY <1>3, <1>4, <1>7 DEF Sound, GoodsForms
<1>9. r.stale \/ Fresh(r)
  BY <1>1, <1>3, <1>4, <1>7 DEF Fresh
<1> QED BY <1>3, <1>7, <1>8, <1>9, QuietKeeps

-----------------------------------------------------------------------------
(* The theorems.                                                           *)

\* Nothing booked, nothing delivered.
LEMMA PoolStart == PoolInit => PoolInv
<1> SUFFICES ASSUME PoolInit PROVE PoolInv
  OBVIOUS
<1>1. /\ state = [i \in Lots |-> "new"] /\ booked = [i \in Lots |-> 0] /\ ordered = [i \in Lots |-> 0]
      /\ alloc = [p \in Lots \X Sales |-> 0] /\ sold = [s \in Sales |-> 0]
      /\ returned = [r \in Returns |-> 0] /\ cancels = [i \in Lots |-> <<>>] /\ total = 0
      /\ req = [a \in Actors |-> Idle] /\ happened = {}
  BY DEF PoolInit
<1>2. GoodsTyped
  BY <1>1 DEF GoodsTyped
<1>3. LinesTyped
  <2>1. <<>> \in Seq(CancelNote)
    OBVIOUS
  <2> QED BY <1>1, <2>1 DEF LinesTyped
<1>4. RequestsTyped /\ KnownFresh
  BY <1>1 DEF RequestsTyped, KnownFresh, IsIdle
<1>5. ReturnsApart
  <2>1. Idle.op # "return"
    BY DEF Idle
  <2> QED BY <1>1, <2>1 DEF ReturnsApart, Returning
<1>6. LinesConserved
  BY <1>1 DEF LinesConserved
<1>7. Sum(sold) = 0 /\ Sum(returned) = 0
  <2>1. DOMAIN sold = Sales /\ DOMAIN returned = Returns
        /\ (\A s \in Sales : sold[s] = 0) /\ (\A r \in Returns : returned[r] = 0)
    BY <1>1
  <2> QED BY <2>1, SumOf, SumZero, GoodsAssumption
<1>8. BagsAllocated
  <2>1. ASSUME NEW s \in Sales PROVE Sum([i \in Lots |-> alloc[<<i, s>>]]) = sold[s]
    <3>1. PICK g : g = [i \in Lots |-> alloc[<<i, s>>]]
      OBVIOUS
    <3>2. DOMAIN g = Lots /\ \A i \in Lots : g[i] = 0
      BY <1>1, <3>1
    <3>3. Sum(g) = 0
      BY <3>2, SumOf, SumZero, LotsFinite
    <3> QED BY <1>1, <3>1, <3>3
  <2> QED BY <2>1 DEF BagsAllocated
<1>9. ReturnsCovered
  BY <1>7 DEF ReturnsCovered
<1>10. OverCovered
  <2>1. PICK g : g = OverIn(booked, alloc)
    OBVIOUS
  <2>2. alloc \in Table
    BY <1>2 DEF GoodsTyped, Table
  <2>3. DOMAIN g = Lots /\ \A i \in Lots : g[i] = 0
    <3>1. ASSUME NEW i \in Lots PROVE UsedIn(alloc)[i] = 0
      <4>1. \A s \in Sales : alloc[<<i, s>>] = 0
        BY <1>1
      <4> QED BY <2>2, <4>1, UsedNone
    <3> QED BY <1>1, <2>1, <3>1 DEF OverIn, AtLeast0
  <2>4. Sum(g) = 0
    BY <2>3, SumOf, SumZero, LotsFinite
  <2> QED BY <1>7, <2>1, <2>4 DEF OverCovered
<1>11. StockExact
  BY <1>1, <1>7 DEF StockExact, Unless, Exact
<1> QED BY <1>2, <1>3, <1>4, <1>5, <1>6, <1>8, <1>9, <1>10, <1>11 DEF PoolInv, PoolTyped

\* Every step keeps the invariant.
LEMMA PoolStep == PoolInv /\ [PoolNext]_poolVars => PoolInv'
<1> SUFFICES ASSUME PoolInv, [PoolNext]_poolVars PROVE PoolInv'
  OBVIOUS
<1>a. Amounts \subseteq Nat \ {0} /\ 0..MaxQty \subseteq Nat /\ 1..MaxCancels \subseteq Nat
  BY BoundsAssumption DEF Amounts
<1>1. ASSUME NEW a \in Actors, NEW i \in Lots, NEW q \in Amounts, AddBooking(a, i, q) PROVE PoolInv'
  BY <1>1, <1>a, AddBookingStep
<1>2. ASSUME NEW a \in Actors, NEW i \in Lots, NEW q \in 0..MaxQty, EditBooking(a, i, q) PROVE PoolInv'
  BY <1>2, <1>a, EditBookingStep
<1>e. ASSUME NEW a \in Actors, NEW i \in Lots, NEW q \in 0..MaxQty, EditBookingRead(a, i, q) PROVE PoolInv'
  BY <1>e, <1>a, EditBookingReadStep
<1>w. ASSUME NEW a \in Actors, EditBookingWrite(a) \/ EditBookingRefused(a) PROVE PoolInv'
  BY <1>w, EditBookingWriteStep, GivesUp DEF EditBookingRefused
<1>3. ASSUME NEW a \in Actors, NEW i \in Lots, DeleteBooking(a, i) PROVE PoolInv'
  BY <1>3, DeleteBookingStep
<1>4. ASSUME NEW a \in Actors, NEW i \in Lots, NEW k \in 1..MaxCancels, RevertRead(a, i, k) PROVE PoolInv'
  BY <1>4, <1>a, RevertReadStep
<1>5. ASSUME NEW a \in Actors, NEW s \in Sales, NEW q \in Amounts, SaleRead(a, s, q) PROVE PoolInv'
  BY <1>5, <1>a, FormRead DEF SaleRead
<1>6. ASSUME NEW a \in Actors, NEW s \in Sales, NEW q \in Amounts, EditSaleRead(a, s, q) PROVE PoolInv'
  BY <1>6, <1>a, FormRead DEF EditSaleRead
<1>7. ASSUME NEW a \in Actors, NEW s \in Sales, DeleteSale(a, s) PROVE PoolInv'
  BY <1>7, DeleteSaleStep
<1>8. ASSUME NEW a \in Actors, NEW r \in Returns, NEW q \in Amounts, ReturnRead(a, r, q) PROVE PoolInv'
  BY <1>8, <1>a, FormRead DEF ReturnRead
<1>9. ASSUME NEW a \in Actors, NEW r \in Returns, NEW q \in Amounts, EditReturnRead(a, r, q) PROVE PoolInv'
  BY <1>9, <1>a, FormRead DEF EditReturnRead
<1>10. ASSUME NEW a \in Actors, NEW r \in Returns, DeleteReturn(a, r) PROVE PoolInv'
  BY <1>10, DeleteReturnStep
<1>11. ASSUME NEW a \in Actors, NEW rows \in SUBSET Lots, CancelRead(a, rows) PROVE PoolInv'
  BY <1>11, CancelReadStep
<1>12. ASSUME NEW a \in Actors, SaleWrite(a) \/ EditSaleWrite(a) \/ SaleRefused(a) PROVE PoolInv'
  BY <1>12, SaleWriteStep, EditSaleWriteStep, GivesUp DEF SaleRefused
<1>13. ASSUME NEW a \in Actors, ReturnWrite(a) \/ EditReturnWrite(a) \/ EditReturnRefused(a) PROVE PoolInv'
  BY <1>13, ReturnWriteStep, EditReturnWriteStep, GivesUp DEF EditReturnRefused
<1>14. ASSUME NEW a \in Actors, CancelWrite(a) \/ CancelRefused(a) PROVE PoolInv'
  BY <1>14, CancelWriteStep, GivesUp DEF CancelRefused
<1>15. ASSUME NEW a \in Actors, RevertLoad(a) \/ RevertWrite(a) \/ RevertRefused(a) PROVE PoolInv'
  BY <1>15, RevertLoadStep, RevertWriteStep, GivesUp DEF RevertRefused
<1>16. CASE UNCHANGED poolVars
  <2>1. UNCHANGED <<state, booked, alloc, sold, returned, cancels, total, req, ordered, happened>>
    BY <1>16 DEF poolVars
  <2>2. GoodsTyped' /\ LinesTyped' /\ RequestsTyped'
    BY <2>1, InvParts DEF GoodsTyped, LinesTyped, RequestsTyped, IsIdle, Sound
  <2>3. KnownFresh' /\ ReturnsApart'
    BY <2>1, InvParts DEF KnownFresh, ReturnsApart, IsIdle, Fresh, Returnable, Net, Linked, Returning,
                          Outstanding, AllocatedOf
  <2>4. LinesConserved' /\ BagsAllocated' /\ ReturnsCovered' /\ OverCovered' /\ StockExact'
    BY <2>1 DEF PoolInv, LinesConserved, BagsAllocated, ReturnsCovered, OverCovered, StockExact,
                Calm, Unless
  <2> QED BY <2>2, <2>3, <2>4, Assembled
<1>17. CASE PoolNext
  BY <1>17, <1>1, <1>2, <1>3, <1>4, <1>5, <1>6, <1>7, <1>8, <1>9, <1>10, <1>11, <1>12, <1>13, <1>14,
     <1>15, <1>e, <1>w DEF PoolNext
<1> QED BY <1>16, <1>17

\* What holds in every reachable state.
THEOREM PoolIsSound == PoolSpec => []PoolInv
  BY PoolStart, PoolStep, PTL DEF PoolSpec

\* The client is never handed more than was booked, net of what came back, outside the
\* six events the code has no answer to (sales_core.py:640 checks the pool of rows).
THEOREM DeliveriesWithinBooking == PoolSpec => []WithinBooking
<1>1. PoolInv => WithinBooking
  BY Within
<1> QED BY <1>1, PoolIsSound, PTL

\* The sale sheet, the posting check and the cancellation screen compute what is left
\* three times and come to one number, all of which the two passes can deliver.
THEOREM BalancesAgree == PoolSpec => []OneBalance
<1>1. PoolInv => OneBalance
  BY Balances
<1> QED BY <1>1, PoolIsSound, PTL

\* Cancelling and taking back conserve what was ordered, and every bag a sale delivers
\* stays allocated to a booking line.
THEOREM GoodsConserved == PoolSpec => []BookedGoodsConserved
<1>1. PoolInv => BookedGoodsConserved
  BY Conserves
<1> QED BY <1>1, PoolIsSound, PTL

\* The stock figure is the sum of the entries, unless a posting was overtaken after it
\* had loaded the figure.
THEOREM StockTrue == PoolSpec => []StockExact
<1>1. PoolInv => StockExact
  BY DEF PoolInv
<1> QED BY <1>1, PoolIsSound, PTL

------------------------------------------------------------------------------
(* The duplicate-submission guard.                                            *)

\* A request that has passed the key check, or whose sale was committed.
Past(r) == pc[r] \in {"keyed", "stocked", "valid", "saving"} \/ r \in made

\* A payload whose repeat orders the guard cannot compare with each other.
Excused(p) ==
    \/ p \in Backdated \ FromDraft
    \/ \E q \in old : form[q].key = NoKey /\ PayloadOf(q) = p

\* The parts of the type invariant, and that key is a function of the requests.
Rows ==
    /\ sales \subseteq made /\ made \subseteq Requests /\ old \subseteq made
    /\ form \in [Requests -> Forms \cup {NoForm}]
    /\ reply \in [Requests -> {"none", "saved", "replayed", "refused", "error"}]
    /\ draft \in {"held", "gone", "discarded"}
    /\ key = [r \in Requests |-> key[r]]
Seen == seen \in [Requests -> [stock : SUBSET Requests, bill : SUBSET Requests]]
Positions ==
    /\ pc \in [Requests -> Places] /\ writer \in Requests \cup {Nobody}
    /\ \A r \in Requests : writer = r <=> pc[r] = "saving"

Typed == Rows /\ Seen /\ Positions

\* Where a request stands says what it has posted, committed and been told.
Progress ==
    \A r \in Requests :
        /\ form[r] \in IF pc[r] = "idle" THEN {NoForm} ELSE Forms
        /\ r \in made => pc[r] \in {"saved", "done"}
        /\ pc[r] = "saved" => r \in made
        /\ pc[r] # "done" => reply[r] = "none"

\* The key a request settled on is the sheet's, or comes from its own payload.
Settled(r) ==
    /\ form[r].key # NoKey => key[r] = form[r].key
    /\ form[r].key = NoKey => \/ key[r] = Fingerprint(PayloadOf(r))
                              \/ /\ key[r] = Disambiguated(PayloadOf(r), r)
                                 /\ Excused(PayloadOf(r))
KeySettled == \A r \in Requests : Past(r) => Settled(r)

\* The unique index.
KeysUnique == \A s, t \in sales : key[s] = key[t] => s = t

\* What a request saw when it checked the bill number carried another one.
SeenDiffers ==
    \A r \in Requests : \A s \in seen[r].bill :
        /\ s \in made /\ ~SameBill(PayloadOf(s), PayloadOf(r))
        /\ pc[r] \in {"valid", "saving", "saved", "done"}

Guarded == /\ Progress /\ KeySettled /\ KeysUnique /\ SeenDiffers
           /\ ReplyTruthful /\ DraftBecomesSale

IInv == Typed /\ Guarded

\* Every step of a request keeps the state well typed; Nobody is no request, so
\* the write lock is held exactly by the request that is saving.
LEMMA TypeStep ==
    ASSUME Typed, NEW r \in Requests,
           Handle(r) \/ Submit(r) \/ Fail(r) \/ Crash(r) \/ Age(r) \/ Delete(r)
    PROVE  Typed'
<1> USE NobodyAssumption DEF Typed, Rows, Seen, Positions, Answer, Goto, Places
<1>1. CASE CheckKey(r)
  <2>1. Rows'
    BY <1>1 DEF CheckKey
  <2>2. Positions'
    BY <1>1 DEF CheckKey
  <2>3. Seen'
    BY <1>1 DEF CheckKey
  <2> QED
    BY <2>1, <2>2, <2>3
<1>2. CASE CheckFingerprint(r)
  <2>1. Rows'
    BY <1>2 DEF CheckFingerprint
  <2>2. Positions'
    BY <1>2, ZenonT(60) DEF CheckFingerprint
  <2>3. Seen'
    BY <1>2 DEF CheckFingerprint
  <2> QED
    BY <2>1, <2>2, <2>3
<1>3. CASE CheckStock(r)
  <2>1. Rows'
    BY <1>3 DEF CheckStock
  <2>2. Positions'
    BY <1>3 DEF CheckStock
  <2>3. Seen'
    <3>1. sales \in SUBSET Requests
      OBVIOUS
    <3>2. CASE seen' = [seen EXCEPT ![r].stock = sales]
      BY <3>1, <3>2
    <3> QED
      BY <1>3, <3>2 DEF CheckStock
  <2> QED
    BY <2>1, <2>2, <2>3
<1>4. CASE CheckBill(r)
  <2>1. Rows'
    BY <1>4 DEF CheckBill
  <2>2. Positions'
    <3>1. PICK at \in Places : pc' = [pc EXCEPT ![r] = at] /\ at # "saving"
      BY <1>4 DEF CheckBill
    <3>2. writer' = writer /\ pc[r] = "stocked"
      BY <1>4 DEF CheckBill
    <3> QED
      BY <3>1, <3>2
  <2>3. Seen'
    <3>1. sales \in SUBSET Requests
      OBVIOUS
    <3>2. CASE seen' = [seen EXCEPT ![r].bill = sales]
      BY <3>1, <3>2
    <3> QED
      BY <1>4, <3>2 DEF CheckBill
  <2> QED
    BY <2>1, <2>2, <2>3
<1>5. CASE TakeWriteLock(r)
  <2>1. Rows'
    BY <1>5 DEF TakeWriteLock
  <2>2. Positions'
    BY <1>5 DEF TakeWriteLock
  <2>3. Seen'
    BY <1>5 DEF TakeWriteLock
  <2> QED
    BY <2>1, <2>2, <2>3
<1>6. CASE LockTimeout(r)
  <2>1. Rows'
    BY <1>6 DEF LockTimeout
  <2>2. Positions'
    BY <1>6 DEF LockTimeout
  <2>3. Seen'
    BY <1>6 DEF LockTimeout
  <2> QED
    BY <2>1, <2>2, <2>3
<1>7. CASE SaveDuplicate(r)
  <2>1. Rows'
    BY <1>7 DEF SaveDuplicate
  <2>2. Positions'
    BY <1>7 DEF SaveDuplicate
  <2>3. Seen'
    BY <1>7 DEF SaveDuplicate
  <2> QED
    BY <2>1, <2>2, <2>3
<1>8. CASE Save(r)
  <2>1. Rows'
    BY <1>8 DEF Save
  <2>2. Positions'
    BY <1>8 DEF Save
  <2>3. Seen'
    BY <1>8 DEF Save
  <2> QED
    BY <2>1, <2>2, <2>3
<1>9. CASE Finish(r)
  <2>1. Rows'
    BY <1>9 DEF Finish
  <2>2. Positions'
    BY <1>9 DEF Finish
  <2>3. Seen'
    BY <1>9 DEF Finish
  <2> QED
    BY <2>1, <2>2, <2>3
<1>f. CASE FinishKeepsDraft(r)
  <2>1. Rows' /\ Positions' /\ Seen'
    BY <1>f DEF FinishKeepsDraft
  <2> QED
    BY <2>1
<1>10. CASE Submit(r)
  <2>1. Rows'
    BY <1>10 DEF Submit
  <2>2. Positions'
    BY <1>10 DEF Submit
  <2>3. Seen'
    BY <1>10 DEF Submit
  <2> QED
    BY <2>1, <2>2, <2>3
<1>11. CASE Fail(r)
  <2>1. Rows'
    BY <1>11 DEF Fail
  <2>2. Positions'
    BY <1>11 DEF Fail
  <2>3. Seen'
    BY <1>11 DEF Fail
  <2> QED
    BY <2>1, <2>2, <2>3
<1>12. CASE Crash(r)
  <2>1. Rows'
    BY <1>12 DEF Crash
  <2>2. Positions'
    BY <1>12 DEF Crash
  <2>3. Seen'
    BY <1>12 DEF Crash
  <2> QED
    BY <2>1, <2>2, <2>3
<1>13. CASE Age(r)
  <2>1. Rows'
    BY <1>13 DEF Age
  <2>2. Positions'
    BY <1>13 DEF Age
  <2>3. Seen'
    BY <1>13 DEF Age
  <2> QED
    BY <2>1, <2>2, <2>3
<1>14. CASE Delete(r)
  <2>1. Rows'
    BY <1>14 DEF Delete
  <2>2. Positions'
    BY <1>14 DEF Delete
  <2>3. Seen'
    BY <1>14 DEF Delete
  <2> QED
    BY <2>1, <2>2, <2>3
<1> QED
  BY <1>1, <1>2, <1>3, <1>4, <1>5, <1>6, <1>7, <1>8, <1>9, <1>10, <1>11, <1>12, <1>13, <1>14, <1>f DEF Handle

\* A request whose sale is not made yet disturbs nothing that is said of the others.
LEMMA OwnStep ==
    ASSUME IInv, NEW r \in Requests, r \notin made, UNCHANGED <<sales, made, old, draft>>,
           \A q \in Requests \ {r} : /\ form'[q] = form[q] /\ key'[q] = key[q] /\ pc'[q] = pc[q]
                                     /\ reply'[q] = reply[q] /\ seen'[q] = seen[q],
           form'[r] \in Forms, pc'[r] \notin {"idle", "saved"},
           pc'[r] # "done" => reply'[r] = "none",
           pc'[r] \in {"keyed", "stocked", "valid", "saving"} =>
               /\ form'[r].key # NoKey => key'[r] = form'[r].key
               /\ form'[r].key = NoKey => \/ key'[r] = Fingerprint(form'[r].payload)
                                          \/ /\ key'[r] = Disambiguated(form'[r].payload, r)
                                             /\ Excused(form'[r].payload),
           \A s \in seen'[r].bill :
               /\ s \in made /\ ~SameBill(PayloadOf(s), form'[r].payload)
               /\ pc'[r] \in {"valid", "saving", "done"},
           reply'[r] # "saved",
           reply'[r] = "replayed" => \E s \in made : PayloadOf(s) = form'[r].payload
    PROVE  Guarded'
<1> USE DEF IInv, Typed, Rows, Seen, Positions, Guarded, PayloadOf
<1>1. \A s \in made : form'[s] = form[s] /\ key'[s] = key[s]
  OBVIOUS
<1>3. Progress'
  BY DEF Progress
<1>4. KeySettled'
  <2> SUFFICES ASSUME NEW q \in Requests, Past(q)' PROVE Settled(q)'
    BY DEF KeySettled
  <2>0. Excused(PayloadOf(q)) /\ form'[q] = form[q] => Excused(PayloadOf(q))'
    BY <1>1 DEF Excused
  <2>1. CASE q = r
    <3>1. Excused(form'[r].payload) => Excused(PayloadOf(r))'
      BY <1>1 DEF Excused
    <3> QED
      BY <2>1, <3>1 DEF Past, Settled
  <2>2. CASE q # r
    <3>1. Settled(q) /\ UNCHANGED <<form[q], key[q]>>
      BY <2>2 DEF Past, KeySettled
    <3> QED
      BY <2>0, <3>1 DEF Settled
  <2> QED
    BY <2>1, <2>2
<1>5. KeysUnique'
  <2>1. KeysUnique /\ sales' = sales /\ \A s \in sales : key'[s] = key[s]
    BY <1>1
  <2>2. ASSUME NEW s \in sales, NEW t \in sales, key'[s] = key'[t] PROVE s = t
    <3>1. key[s] = key[t]
      BY <2>1, <2>2
    <3> QED
      BY <2>1, <3>1 DEF KeysUnique
  <2> QED
    BY <2>1, <2>2 DEF KeysUnique
<1>6. SeenDiffers'
  <2> SUFFICES ASSUME NEW q \in Requests, NEW s \in seen'[q].bill
               PROVE  /\ s \in made /\ ~SameBill(form'[s].payload, form'[q].payload)
                      /\ pc'[q] \in {"valid", "saving", "saved", "done"}
    BY DEF SeenDiffers
  <2>1. CASE q = r
    BY <1>1, <2>1
  <2>2. CASE q # r
    BY <1>1, <2>2 DEF SeenDiffers
  <2> QED
    BY <2>1, <2>2
<1>7. ReplyTruthful'
  BY <1>1 DEF ReplyTruthful
<1>8. DraftBecomesSale'
  BY <1>1 DEF DraftBecomesSale
<1> QED
  BY <1>3, <1>4, <1>5, <1>6, <1>7, <1>8

\* Every step of a request keeps what is said of keys, replies and the draft.  The
\* checks before the save are own steps; Save relies on the unique index.
LEMMA GuardStep ==
    ASSUME IInv, NEW r \in Requests,
           Handle(r) \/ Submit(r) \/ Fail(r) \/ Crash(r) \/ Age(r) \/ Delete(r)
    PROVE  Guarded'
<1> USE DEF Guarded, IInv, Typed, Rows, Seen, Positions, Answer, Goto
<1>t. /\ pc[r] # "idle" => form[r] \in Forms
      /\ pc[r] \notin {"saved", "done"} => r \notin made
      /\ pc[r] # "done" => reply[r] = "none"
      /\ pc[r] \notin {"valid", "saving", "saved", "done"} => seen[r].bill = {}
  BY DEF Progress, SeenDiffers
<1>s. /\ r \in made \/ pc[r] \in {"keyed", "stocked", "valid", "saving"} =>
             /\ form[r].key # NoKey => key[r] = form[r].key
             /\ form[r].key = NoKey => \/ key[r] = Fingerprint(form[r].payload)
                                       \/ /\ key[r] = Disambiguated(form[r].payload, r)
                                          /\ Excused(form[r].payload)
      /\ \A s \in seen[r].bill :
             /\ s \in made /\ ~SameBill(PayloadOf(s), form[r].payload)
             /\ pc[r] \in {"valid", "saving", "saved", "done"}
  BY DEF KeySettled, Settled, Past, SeenDiffers, PayloadOf
<1>1. CASE CheckKey(r)
  <2>1. CASE Prior(form[r].key) = {}
    <3> USE DEF CheckKey
    <3>1. key' = [key EXCEPT ![r] = form[r].key] /\ pc' = [pc EXCEPT ![r] = "keyed"]
      BY <1>1, <2>1
    <3>2. key'[r] = form'[r].key /\ form[r].key # NoKey /\ form' = form
      BY <1>1, <3>1
    <3> QED
      BY <1>1, <1>t, <2>1, <3>1, <3>2, OwnStep
  <2>2. CASE Prior(form[r].key) # {}
    <3>1. PICK s \in Prior(form[r].key) : TRUE
      BY <2>2
    <3>2. s \in made
      BY <3>1 DEF Prior
    <3>3. reply'[r] = "replayed" => PayloadOf(s) = PayloadOf(r)
      BY <1>1, <2>2, <3>1 DEF CheckKey
    <3>4. reply'[r] \in {"replayed", "refused"} /\ pc'[r] = "done" /\ key' = key
      BY <1>1, <2>2 DEF CheckKey
    <3>5. \A q \in Requests \ {r} : pc'[q] = pc[q] /\ reply'[q] = reply[q]
      BY <1>1, <2>2 DEF CheckKey
    <3>6. UNCHANGED <<sales, form, old, writer, seen, made, draft>>
      BY <1>1 DEF CheckKey
    <3>7. pc[r] = "posted"
      BY <1>1 DEF CheckKey
    <3> QED
      BY <1>t, <3>2, <3>3, <3>4, <3>5, <3>6, <3>7, OwnStep DEF PayloadOf
  <2> QED
    BY <2>1, <2>2
<1>2. CASE CheckFingerprint(r)
  <2> DEFINE fp == Fingerprint(PayloadOf(r))
  <2>0. /\ pc[r] = "posted" /\ form[r].key = NoKey
        /\ UNCHANGED <<sales, form, old, writer, seen, made, draft>>
    BY <1>2 DEF CheckFingerprint
  <2>1. \A s \in Prior(fp) : s \in made /\ form[s].key = NoKey /\ PayloadOf(s) = PayloadOf(r)
    <3> SUFFICES ASSUME NEW s \in sales, key[s] = fp
                 PROVE  s \in made /\ form[s].key = NoKey /\ PayloadOf(s) = PayloadOf(r)
      BY DEF Prior, KeyOf
    <3>1. s \in made /\ s \in Requests /\ form[s] \in Forms
      BY DEF Progress
    <3>2. form[r] \in Forms /\ PayloadOf(r) \in Payloads
      BY <1>t, <2>0 DEF Forms, PayloadOf
    <3>3. form[s].key = NoKey
      BY <3>1, <3>2, KeysAssumption DEF KeySettled, Settled, Past, Forms
    <3>4. key[s] = Fingerprint(PayloadOf(s)) \/ key[s] = Disambiguated(PayloadOf(s), s)
      BY <3>1, <3>3 DEF KeySettled, Settled, Past
    <3>5. PayloadOf(s) = PayloadOf(r)
      BY <3>4 DEF Fingerprint, Disambiguated
    <3> QED
      BY <3>1, <3>3, <3>5
  <2>2. CASE \E s \in Prior(fp) : IsRecent(s)
    <3>1. /\ pc' = [pc EXCEPT ![r] = "done"] /\ reply' = [reply EXCEPT ![r] = "replayed"]
          /\ key' = key
      BY <1>2, <2>2 DEF CheckFingerprint
    <3>2. \E s \in made : PayloadOf(s) = PayloadOf(r)
      BY <2>1, <2>2
    <3> QED
      BY <1>t, <2>0, <3>1, <3>2, OwnStep DEF PayloadOf
  <2>3. CASE ~\E s \in Prior(fp) : IsRecent(s)
    <3>1. /\ pc' = [pc EXCEPT ![r] = "keyed"] /\ reply' = reply
          /\ key' = [key EXCEPT ![r] = IF Prior(fp) = {} THEN fp
                                       ELSE Disambiguated(PayloadOf(r), r)]
      BY <1>2, <2>3 DEF CheckFingerprint
    <3>2. Prior(fp) # {} => Excused(PayloadOf(r))
      BY <2>1, <2>3 DEF IsRecent, Excused
    <3>3. key'[r] = IF Prior(fp) = {} THEN fp ELSE Disambiguated(PayloadOf(r), r)
      BY <3>1
    <3>4. key'[r] = fp \/ (key'[r] = Disambiguated(PayloadOf(r), r) /\ Excused(PayloadOf(r)))
      BY <3>2, <3>3
    <3> QED
      BY <1>t, <2>0, <3>1, <3>4, OwnStep DEF PayloadOf
  <2> QED
    BY <2>2, <2>3
<1>3. CASE CheckStock(r)
  <2>1. seen'[r].bill = seen[r].bill /\ \A q \in Requests \ {r} : seen'[q] = seen[q]
    BY <1>3 DEF CheckStock
  <2>2. CASE pc'[r] = "done"
    BY <1>3, <1>t, <2>1, <2>2, OwnStep DEF CheckStock
  <2>3. CASE pc'[r] # "done"
    BY <1>3, <1>t, <2>1, <2>3, OwnStep
    DEF CheckStock, KeySettled, Settled, Past, PayloadOf
  <2> QED
    BY <2>2, <2>3
<1>4. CASE CheckBill(r)
  <2>1. \A q \in Requests \ {r} : seen'[q] = seen[q]
    BY <1>4 DEF CheckBill
  <2>2. CASE pc'[r] = "done"
    BY <1>4, <1>t, <2>1, <2>2, OwnStep DEF CheckBill
  <2>3. CASE pc'[r] # "done"
    <3>1. /\ \A s \in sales : ~SameBill(PayloadOf(s), PayloadOf(r))
          /\ pc' = [pc EXCEPT ![r] = "valid"] /\ reply' = reply
          /\ seen'[r].bill = sales
      BY <1>4, <2>3 DEF CheckBill
    <3> QED
      BY <1>4, <1>t, <2>1, <3>1, OwnStep DEF CheckBill, KeySettled, Settled, Past, PayloadOf
  <2> QED
    BY <2>2, <2>3
<1>5. CASE TakeWriteLock(r)
  BY <1>5, <1>t, <1>s, OwnStep DEF TakeWriteLock
<1>6. CASE LockTimeout(r)
  BY <1>6, <1>t, <1>s, OwnStep DEF LockTimeout
<1>7. CASE SaveDuplicate(r)
  BY <1>7, <1>t, <1>s, OwnStep DEF SaveDuplicate
<1>8. CASE Save(r)
  <2>1. KeysUnique'
    BY <1>8 DEF Save, Prior, KeyOf, KeysUnique
  <2> QED
    BY <1>8, <2>1
    DEF Save, Progress, PayloadOf, Past, KeySettled, Settled,
        SeenDiffers, ReplyTruthful, DraftBecomesSale, Excused
<1>9. CASE Finish(r)
  <2>1. Progress' /\ SeenDiffers' /\ ReplyTruthful' /\ DraftBecomesSale'
    BY <1>9 DEF Finish, Resumed, Progress, SeenDiffers, ReplyTruthful, DraftBecomesSale, PayloadOf
  <2>2. KeySettled' /\ KeysUnique'
    BY <1>9, ZenonT(60) DEF Finish, Resumed, Progress, KeySettled, Settled, Past, Excused, KeysUnique, PayloadOf
  <2> QED
    BY <2>1, <2>2
<1>f. CASE FinishKeepsDraft(r)
  <2>1. Progress' /\ SeenDiffers' /\ ReplyTruthful' /\ DraftBecomesSale'
    BY <1>f DEF FinishKeepsDraft, Progress, SeenDiffers, ReplyTruthful, DraftBecomesSale, PayloadOf
  <2>2. KeySettled' /\ KeysUnique'
    BY <1>f, ZenonT(60)
    DEF FinishKeepsDraft, Progress, KeySettled, Settled, Past, Excused, KeysUnique, PayloadOf
  <2> QED
    BY <2>1, <2>2
<1>10. CASE Submit(r)
  <2>1. /\ form'[r] \in Forms /\ pc' = [pc EXCEPT ![r] = "posted"]
        /\ \A q \in Requests \ {r} : form'[q] = form[q]
    BY <1>10 DEF Submit
  <2> QED
    BY <1>10, <1>t, <2>1, OwnStep DEF Submit
<1>11. CASE Fail(r)
  BY <1>11, <1>t, <1>s, OwnStep DEF Fail
<1>12. CASE Crash(r)
  <2>1. Progress' /\ SeenDiffers' /\ ReplyTruthful' /\ DraftBecomesSale'
    BY <1>12 DEF Crash, Progress, SeenDiffers, ReplyTruthful, DraftBecomesSale, PayloadOf
  <2>2. KeySettled' /\ KeysUnique'
    BY <1>12, ZenonT(60) DEF Crash, Progress, KeySettled, Settled, Past, Excused, KeysUnique, PayloadOf
  <2> QED
    BY <2>1, <2>2
<1>13. CASE Age(r)
  <2>1. Progress' /\ SeenDiffers' /\ ReplyTruthful' /\ DraftBecomesSale'
    BY <1>13 DEF Age, Progress, SeenDiffers, ReplyTruthful, DraftBecomesSale, PayloadOf
  <2>2. KeySettled' /\ KeysUnique'
    BY <1>13, ZenonT(60) DEF Age, Progress, KeySettled, Settled, Past, Excused, KeysUnique, PayloadOf
  <2> QED
    BY <2>1, <2>2
<1>14. CASE Delete(r)
  <2>1. Progress' /\ SeenDiffers' /\ ReplyTruthful' /\ DraftBecomesSale'
    BY <1>14 DEF Delete, Progress, SeenDiffers, ReplyTruthful, DraftBecomesSale, PayloadOf
  <2>2. KeySettled' /\ KeysUnique'
    BY <1>14, ZenonT(60) DEF Delete, Progress, KeySettled, Settled, Past, Excused, KeysUnique, PayloadOf
  <2> QED
    BY <2>1, <2>2
<1> QED
  BY <1>1, <1>2, <1>3, <1>4, <1>5, <1>6, <1>7, <1>8, <1>9, <1>f, <1>10, <1>11, <1>12, <1>13, <1>14
  DEF Handle

\* Every step keeps the invariant; discarding the draft touches no request.
LEMMA StepInv == IInv /\ [Next]_vars => IInv'
<1> SUFFICES ASSUME IInv, [Next]_vars PROVE IInv'
  OBVIOUS
<1>1. CASE \E r \in Requests :
             Handle(r) \/ Submit(r) \/ Fail(r) \/ Crash(r) \/ Age(r) \/ Delete(r)
  BY <1>1, TypeStep, GuardStep DEF IInv
<1>2. CASE UNCHANGED vars \/ DiscardDraft
  <2>1. UNCHANGED <<sales, form, key, old, pc, writer, reply, seen, made>>
    BY <1>2 DEF vars, DiscardDraft
  <2>2. draft' \in {draft, "discarded"}
    BY <1>2 DEF vars, DiscardDraft
  <2>3. Typed'
    BY <2>1, <2>2 DEF IInv, Typed, Rows, Seen, Positions
  <2>4. Progress' /\ KeysUnique' /\ SeenDiffers' /\ ReplyTruthful' /\ DraftBecomesSale'
    BY <2>1, <2>2 DEF IInv, Guarded, Progress, KeysUnique, SeenDiffers, ReplyTruthful,
                      DraftBecomesSale, PayloadOf
  <2>5. KeySettled'
    BY <2>1 DEF IInv, Guarded, KeySettled, Settled, Past, Excused, PayloadOf
  <2> QED
    BY <2>3, <2>4, <2>5 DEF IInv, Guarded
<1> QED
  BY <1>1, <1>2 DEF Next

\* Nothing is posted yet, and the draft is held.
LEMMA InitInv == Init => IInv
  BY NobodyAssumption
  DEF Init, IInv, Typed, Rows, Seen, Positions, Places, Guarded, Progress, KeySettled, Past,
      KeysUnique, SeenDiffers, ReplyTruthful, DraftBecomesSale

\* Every reachable state satisfies the inductive invariant.
THEOREM InvariantHolds == Spec => []IInv
<1> QED
  BY InitInv, StepInv, PTL DEF Spec

\* The state is always well typed.
THEOREM TypeCorrect == Spec => []TypeOK
<1>1. IInv => TypeOK
  BY DEF IInv, Typed, Rows, Seen, Positions, TypeOK
<1> QED
  BY <1>1, InvariantHolds, PTL

\* No two sales were posted with the key of one sheet.
THEOREM SheetSoldOnce == Spec => []OneSalePerSheet
<1>1. IInv => OneSalePerSheet
  BY DEF IInv, Typed, Rows, Guarded, KeySettled, Settled, Past, KeysUnique, OneSalePerSheet
<1> QED
  BY <1>1, InvariantHolds, PTL

\* "saved" and "already saved" are only ever said of committed sales, and what was
\* refused or failed committed nothing.
THEOREM RepliesTrue == Spec => []ReplyTruthful
<1>1. IInv => ReplyTruthful
  BY DEF IInv, Guarded
<1> QED
  BY <1>1, InvariantHolds, PTL

\* Two young keyless sales of one payload exist only if that payload is backdated
\* or an older sale of it had aged.
THEOREM KeylessTwinsExplained == Spec => []TwinsNeedOlderSale
<1>1. IInv => TwinsNeedOlderSale
  <2> SUFFICES ASSUME IInv, NEW s \in sales, NEW t \in sales, KeylessTwins(s, t)
               PROVE  Excused(PayloadOf(s))
    BY DEF TwinsNeedOlderSale, Excused
  <2>1. s # t /\ PayloadOf(s) = PayloadOf(t)
    BY DEF KeylessTwins
  <2>2. Settled(s) /\ Settled(t) /\ form[s].key = NoKey /\ form[t].key = NoKey
    BY DEF IInv, Typed, Rows, Guarded, KeySettled, Past, KeylessTwins
  <2>3. key[s] # key[t]
    BY <2>1 DEF IInv, Guarded, KeysUnique
  <2> QED
    BY <2>1, <2>2, <2>3 DEF Settled
<1> QED
  BY <1>1, InvariantHolds, PTL

\* Two sales share a manual bill number only if neither was visible when the other
\* looked for it.
THEOREM BillTwinsConcurrent == Spec => []BillTwinsOverlapped
<1>1. IInv => BillTwinsOverlapped
  BY DEF IInv, Typed, Rows, Guarded, SeenDiffers, BillTwinsOverlapped, SameBill
<1> QED
  BY <1>1, InvariantHolds, PTL

------------------------------------------------------------------------------
(* Bags sold beyond the stock.                                               *)

\* A request that has found the stock sufficient, or whose sale was committed.
Stocked(r) == pc[r] \in {"stocked", "valid", "saving"} \/ r \in made
SoldIn(S) == [s \in Requests |-> IF s \in S THEN Qty[PayloadOf(s)] ELSE 0]

\* What a request saw when it compared the stock was committed before its own sale...
SeenBefore == \A r \in Requests : \A s \in seen[r].stock : s \in made /\ s # r
\* ... so that of any committed sales one was seen by none of the others ...
SomeLast == \A S \in SUBSET made : S # {} => \E t \in S : \A s \in S : t \notin seen[s].stock
\* ... and its own bags were there beside those of the sales it saw.
Fits ==
    ~AllowNegative => \A r \in Requests : Stocked(r) =>
        Qty[PayloadOf(r)] + SumFunctionOnSet(SoldIn(seen[r].stock), Requests) <= Stock

StockInv == SeenBefore /\ SomeLast /\ Fits

\* The bags of committed sales are naturals, and so is their sum.
LEMMA SoldTyped ==
    ASSUME IInv, NEW S \in SUBSET made
    PROVE  /\ \A s \in Requests : SoldIn(S)[s] \in Nat
           /\ SumFunctionOnSet(SoldIn(S), Requests) \in Nat
<1>1. \A s \in made : s \in Requests /\ Qty[PayloadOf(s)] \in Nat
  BY QtyAssumption DEF IInv, Typed, Rows, Guarded, Progress, Forms, PayloadOf
<1>2. \A s \in Requests : SoldIn(S)[s] \in Nat
  BY <1>1 DEF SoldIn
<1>3. IsFiniteSet(Requests)
  BY StockAssumption
<1> QED BY <1>2, <1>3, SumType

\* A request whose form, sight and place in the queue stay keeps its bags.
LEMMA FitsKept ==
    ASSUME IInv, NEW r \in Requests, seen'[r].stock = seen[r].stock, seen[r].stock \subseteq made,
           r \in made \/ pc[r] \in {"stocked", "valid", "saving"},
           \A s \in Requests : pc[s] # "idle" => form'[s] = form[s],
           Qty[PayloadOf(r)] + SumFunctionOnSet(SoldIn(seen[r].stock), Requests) <= Stock
    PROVE  Qty[PayloadOf(r)'] + SumFunctionOnSet(SoldIn(seen[r].stock)', Requests) <= Stock
<1>1. \A s \in made \cup {r} : pc[s] # "idle" /\ s \in Requests
  BY DEF IInv, Typed, Rows, Guarded, Progress
<1>2. PayloadOf(r)' = PayloadOf(r) /\ \A s \in seen[r].stock : PayloadOf(s)' = PayloadOf(s)
  BY <1>1 DEF PayloadOf
<1>3. SoldIn(seen[r].stock)' = SoldIn(seen[r].stock)
  BY <1>2 DEF SoldIn
<1> QED BY <1>2, <1>3

\* A step that neither looks at the stock nor commits a sale.
OtherStep ==
    /\ made' = made
    /\ \A q \in Requests :
          /\ seen'[q].stock = seen[q].stock
          /\ Stocked(q)' => Stocked(q)
          /\ pc[q] # "idle" => form'[q] = form[q]

\* Every step is such a step, except a look at the stock and the commit of a sale.
LEMMA StockQuiet ==
    ASSUME IInv, [Next]_vars, ~ \E r \in Requests : Save(r) \/ CheckStock(r)
    PROVE  OtherStep
<1> USE DEF IInv, Typed, Rows, Seen, Positions, OtherStep, Stocked, Goto, Answer
<1>1. ASSUME NEW r \in Requests, CheckBill(r) PROVE OtherStep
  <2>1. seen' = seen \/ seen' = [seen EXCEPT ![r].bill = sales]
    BY <1>1 DEF CheckBill
  <2>2. \A q \in Requests : seen'[q].stock = seen[q].stock
    BY <2>1
  <2> QED BY <1>1, <2>2 DEF CheckBill
<1>2. ASSUME NEW r \in Requests, CheckKey(r) \/ CheckFingerprint(r) PROVE OtherStep
  BY <1>2 DEF CheckKey, CheckFingerprint
<1>3. ASSUME NEW r \in Requests,
             TakeWriteLock(r) \/ LockTimeout(r) \/ SaveDuplicate(r) \/ Finish(r) \/ FinishKeepsDraft(r)
      PROVE  OtherStep
  BY <1>3 DEF TakeWriteLock, LockTimeout, SaveDuplicate, Finish, FinishKeepsDraft
<1>4. ASSUME NEW r \in Requests, Submit(r) PROVE OtherStep
  BY <1>4 DEF Submit
<1>5. ASSUME NEW r \in Requests, Fail(r) \/ Crash(r) PROVE OtherStep
  BY <1>5 DEF Fail, Crash
<1>6. ASSUME NEW r \in Requests, Age(r) \/ Delete(r) PROVE OtherStep
  BY <1>6 DEF Age, Delete
<1>7. CASE UNCHANGED vars \/ DiscardDraft
  BY <1>7 DEF vars, DiscardDraft
<1> QED
  BY <1>1, <1>2, <1>3, <1>4, <1>5, <1>6, <1>7 DEF Next, Handle

\* Every step keeps the stock invariant: a look sees all that is committed, and the
\* sale committed last was seen by none before it.
LEMMA StockStep == IInv /\ StockInv /\ [Next]_vars => StockInv'
<1> SUFFICES ASSUME IInv, StockInv, [Next]_vars PROVE StockInv'
  OBVIOUS
<1>a. /\ sales \subseteq made /\ made \subseteq Requests
      /\ \A r \in Requests : r \in made => pc[r] \in {"saved", "done"}
  BY DEF IInv, Typed, Rows, Guarded, Progress
<1>b. \A r \in Requests : seen[r].stock \subseteq made
  BY DEF StockInv, SeenBefore
<1>1. CASE OtherStep
  <2>1. SeenBefore' /\ SomeLast'
    BY <1>1, <1>a DEF OtherStep, StockInv, SeenBefore, SomeLast
  <2>2. ASSUME ~AllowNegative, NEW r \in Requests, Stocked(r)'
        PROVE  Qty[PayloadOf(r)'] + SumFunctionOnSet(SoldIn(seen[r].stock)', Requests) <= Stock
    <3>1. Stocked(r) /\ seen'[r].stock = seen[r].stock /\ \A s \in Requests : pc[s] # "idle" => form'[s] = form[s]
      BY <1>1, <2>2 DEF OtherStep
    <3>2. Qty[PayloadOf(r)] + SumFunctionOnSet(SoldIn(seen[r].stock), Requests) <= Stock
      BY <2>2, <3>1 DEF StockInv, Fits
    <3> QED BY <1>b, <3>1, <3>2, FitsKept DEF Stocked
  <2>3. Fits'
    BY <2>2 DEF Fits
  <2> QED BY <2>1, <2>3 DEF StockInv
<1>2. ASSUME NEW r \in Requests, CheckStock(r), ~OtherStep PROVE StockInv'
  <2>1. /\ pc[r] = "keyed" /\ seen' = [seen EXCEPT ![r].stock = sales] /\ pc' = [pc EXCEPT ![r] = "stocked"]
        /\ ~AllowNegative => ~(Available < Qty[PayloadOf(r)])
        /\ UNCHANGED <<sales, form, made>>
    BY <1>2 DEF CheckStock, Answer, Goto, OtherStep, Stocked, IInv, Typed, Positions
  <2>2. seen'[r].stock = sales /\ r \notin made /\ \A q \in Requests \ {r} : seen'[q].stock = seen[q].stock
    BY <1>a, <2>1 DEF IInv, Typed, Seen
  <2>3. SeenBefore'
    BY <1>a, <2>1, <2>2 DEF StockInv, SeenBefore
  <2>4. SomeLast'
    BY <1>a, <2>1, <2>2 DEF StockInv, SomeLast
  <2>5. \A S : SoldIn(S)' = SoldIn(S)
    BY <2>1 DEF SoldIn, PayloadOf
  <2>6. ASSUME ~AllowNegative
        PROVE  Qty[PayloadOf(r)] + SumFunctionOnSet(SoldIn(sales), Requests) <= Stock
    <3>1. Available = Stock - SumFunctionOnSet(SoldIn(sales), Requests)
      BY DEF Available, SoldIn
    <3>2. SumFunctionOnSet(SoldIn(sales), Requests) \in Nat
      BY <1>a, SoldTyped
    <3>3. Qty[PayloadOf(r)] \in Nat
      BY <2>1, QtyAssumption DEF IInv, Guarded, Progress, Forms, PayloadOf
    <3> QED BY <2>1, <2>6, <3>1, <3>2, <3>3, StockAssumption
  <2>7. ASSUME ~AllowNegative, NEW q \in Requests, Stocked(q)'
        PROVE  (Qty[PayloadOf(q)] + SumFunctionOnSet(SoldIn(seen[q].stock), Requests) <= Stock)'
    <3>1. PayloadOf(q)' = PayloadOf(q) /\ SoldIn(seen[q].stock)' = SoldIn(seen'[q].stock)
      BY <2>1, <2>5 DEF PayloadOf, SoldIn
    <3>2. CASE q = r
      BY <2>2, <2>6, <2>7, <3>1, <3>2
    <3>3. CASE q # r
      <4>1. Stocked(q) /\ seen'[q].stock = seen[q].stock
        BY <2>1, <2>2, <2>7, <3>3 DEF Stocked, IInv, Typed, Positions
      <4> QED BY <2>7, <3>1, <4>1 DEF StockInv, Fits
    <3> QED BY <3>2, <3>3
  <2>8. Fits'
    BY <2>7 DEF Fits
  <2> QED BY <2>3, <2>4, <2>8 DEF StockInv
<1>3. ASSUME NEW r \in Requests, Save(r) PROVE StockInv'
  <2>1. /\ pc[r] = "saving" /\ made' = made \cup {r} /\ UNCHANGED <<form, seen>>
        /\ pc' = [pc EXCEPT ![r] = "saved"]
    BY <1>3 DEF Save, Goto
  <2>2. r \notin made
    BY <1>a, <2>1
  <2>3. SeenBefore'
    BY <2>1 DEF StockInv, SeenBefore
  <2>4. SomeLast'
    <3> SUFFICES ASSUME NEW S \in SUBSET (made \cup {r}), S # {}
                 PROVE  \E t \in S : \A s \in S : t \notin seen[s].stock
      BY <2>1 DEF SomeLast
    <3>1. CASE r \in S
      <4>1. \A s \in S : r \notin seen[s].stock
        BY <1>a, <1>b, <2>2
      <4> QED BY <3>1, <4>1
    <3>2. CASE r \notin S
      BY <3>2 DEF StockInv, SomeLast
    <3> QED BY <3>1, <3>2
  <2>5. \A q \in Requests : Stocked(q)' => Stocked(q)
    BY <2>1 DEF Stocked, IInv, Typed, Positions
  <2>6. \A q \in Requests : SoldIn(seen[q].stock)' = SoldIn(seen[q].stock) /\ PayloadOf(q)' = PayloadOf(q)
    BY <2>1 DEF SoldIn, PayloadOf
  <2>7. Fits'
    BY <2>5, <2>6 DEF StockInv, Fits
  <2> QED BY <2>3, <2>4, <2>7 DEF StockInv
<1> QED
  BY <1>1, <1>2, <1>3, StockQuiet

\* Every reachable state satisfies the stock invariant.
LEMMA StockHolds == Spec => []StockInv
<1>1. Init => StockInv
  BY DEF Init, StockInv, SeenBefore, SomeLast, Fits, Stocked
<1> QED BY <1>1, StockStep, InvariantHolds, PTL DEF Spec

\* A sum is at most one of its entries and any sum that covers the others.
LEMMA OneMore ==
    ASSUME NEW S, IsFiniteSet(S), NEW all, NEW saw, NEW t \in S,
           \A x \in S : all[x] \in Nat /\ saw[x] \in Nat, \A x \in S \ {t} : all[x] <= saw[x]
    PROVE  SumFunctionOnSet(all, S) <= all[t] + SumFunctionOnSet(saw, S)
<1> DEFINE rest == [x \in S |-> IF x = t THEN 0 ELSE all[x]]
<1>1. /\ \A x \in S : rest[x] \in Int /\ all[x] \in Int
      /\ \A x \in S : rest[x] \in Nat /\ saw[x] \in Nat /\ rest[x] <= saw[x]
      /\ rest[t] = 0
  OBVIOUS
<1>2. \A x \in S \ {t} : all[x] = rest[x]
  OBVIOUS
<1> HIDE DEF rest
<1>3. SumFunctionOnSet(all, S) = SumFunctionOnSet(rest, S) + all[t] - rest[t]
  <2>1. \A x \in S : rest[x] \in Int /\ all[x] \in Int
    BY <1>1
  <2> QED BY ONLY <2>1, <1>2, SumChange, IsFiniteSet(S), t \in S
<1>4. SumFunctionOnSet(rest, S) <= SumFunctionOnSet(saw, S)
  BY <1>1, SumGrows
<1>5. all[t] \in Nat /\ SumFunctionOnSet(rest, S) \in Nat /\ SumFunctionOnSet(saw, S) \in Nat
  BY <1>1, SumType
<1> DEFINE a == SumFunctionOnSet(all, S)
           b == SumFunctionOnSet(rest, S)
           c == SumFunctionOnSet(saw, S)
<1>6. rest[t] = 0
  BY <1>1
<1>7. a = b + all[t] - rest[t] /\ b <= c /\ all[t] \in Nat /\ b \in Nat /\ c \in Nat
  BY <1>3, <1>4, <1>5
<1> HIDE DEF a, b, c
<1>8. a <= all[t] + c
  BY <1>6, <1>7
<1> QED BY <1>8 DEF a, c

\* What the checks in autocommit let through they let through to overlapping sales
\* only: a bill number used twice, and bags sold beyond the stock.
THEOREM OverlapNeeded == Spec => []ConflictsNeedOverlap
<1>1. ASSUME IInv, StockInv PROVE ConflictsNeedOverlap
  <2>1. BillTwinsOverlapped
    BY <1>1 DEF IInv, Typed, Rows, Guarded, SeenDiffers, BillTwinsOverlapped, SameBill
  <2>2. ASSUME ~AllowNegative, \A s, t \in sales : s # t => s \in seen[t].stock \/ t \in seen[s].stock
        PROVE  Available >= 0
    <3>1. sales \subseteq made /\ made \subseteq Requests /\ IsFiniteSet(Requests) /\ Stock \in Nat
      BY <1>1, StockAssumption DEF IInv, Typed, Rows
    <3>2. Available = Stock - SumFunctionOnSet(SoldIn(sales), Requests)
      BY DEF Available, SoldIn
    <3>3. CASE sales = {}
      <4>1. \A s \in Requests : SoldIn(sales)[s] = 0
        BY <3>3 DEF SoldIn
      <4>2. SumFunctionOnSet(SoldIn(sales), Requests) = 0
        BY <3>1, <4>1, SumZero
      <4> QED BY <3>1, <3>2, <4>2
    <3>4. CASE sales # {}
      <4>1. PICK t \in sales : \A s \in sales : t \notin seen[s].stock
        BY <1>1, <3>1, <3>4 DEF StockInv, SomeLast
      <4>2. sales \subseteq seen[t].stock \cup {t} /\ t \notin seen[t].stock /\ seen[t].stock \subseteq made
        BY <1>1, <2>2, <3>1, <4>1 DEF StockInv, SeenBefore
      <4>3. /\ \A s \in Requests : SoldIn(sales)[s] \in Nat /\ SoldIn(seen[t].stock)[s] \in Nat
            /\ SumFunctionOnSet(SoldIn(sales), Requests) \in Nat
            /\ SumFunctionOnSet(SoldIn(seen[t].stock), Requests) \in Nat
        BY <1>1, <3>1, <4>2, SoldTyped
      <4>4. /\ \A s \in Requests \ {t} : SoldIn(sales)[s] <= SoldIn(seen[t].stock)[s]
            /\ SoldIn(sales)[t] = Qty[PayloadOf(t)] /\ t \in Requests
        <5>1. \A s \in Requests : SoldIn(seen[t].stock)[s] \in Nat
          BY <4>3
        <5> QED BY <3>1, <4>1, <4>2, <5>1 DEF SoldIn
      <4>5. Qty[PayloadOf(t)] + SumFunctionOnSet(SoldIn(seen[t].stock), Requests) <= Stock
        BY <1>1, <2>2, <3>1 DEF StockInv, Fits, Stocked
      <4>6. SumFunctionOnSet(SoldIn(sales), Requests)
               <= SoldIn(sales)[t] + SumFunctionOnSet(SoldIn(seen[t].stock), Requests)
        BY <3>1, <4>3, <4>4, OneMore
      <4> QED BY <3>1, <3>2, <4>3, <4>4, <4>5, <4>6
    <3> QED BY <3>3, <3>4
  <2> QED BY <2>1, <2>2 DEF ConflictsNeedOverlap
<1> QED BY <1>1, InvariantHolds, StockHolds, PTL

\* A held draft disappears only by its user's hand or into a committed sale.
THEOREM DraftKept == Spec => []DraftBecomesSale
<1>1. IInv => DraftBecomesSale
  BY DEF IInv, Guarded
<1> QED
  BY <1>1, InvariantHolds, PTL

------------------------------------------------------------------------------
\* An answer that records nothing is an abstract answer or, for a worker that
\* died, no abstract step at all.
LEMMA DeclineStep ==
    ASSUME IInv, NEW r \in Requests, pc[r] \in Places \ {"idle", "saved", "done"},
           reply' \in {[reply EXCEPT ![r] = "refused"], [reply EXCEPT ![r] = "error"]},
           UNCHANGED <<sales, made, form, draft>>
    PROVE  Register!Decline(r)
<1>1. r \notin made /\ form[r] \in Forms /\ reply[r] = "none"
  BY DEF IInv, Guarded, Progress
<1> QED
  BY <1>1 DEF Register!Decline, Register!Tell

\* A replay is answered only while a sale of the same form stands.
LEMMA ReplayStep ==
    ASSUME IInv, NEW r \in Requests, pc[r] = "posted",
           reply' = [reply EXCEPT ![r] = "replayed"],
           UNCHANGED <<sales, made, form, draft>>,
           NEW s \in sales, form[s].key = form[r].key, PayloadOf(s) = PayloadOf(r)
    PROVE  Register!Replay(r)
<1>1. r \notin made /\ form[r] \in Forms /\ reply[r] = "none"
  BY DEF IInv, Guarded, Progress
<1>2. s \in Requests /\ form[s] \in Forms
  BY DEF IInv, Typed, Rows, Guarded, Progress
<1>3. form[s] = form[r]
  BY <1>1, <1>2 DEF Forms, PayloadOf
<1> QED
  BY <1>1, <1>3 DEF Register!Replay, Register!Tell

\* A committed sale that holds the key a form names was posted with that key.
LEMMA PriorOfSheet ==
    ASSUME IInv, NEW r \in Requests, pc[r] = "posted", form[r].key # NoKey,
           NEW s \in Prior(form[r].key)
    PROVE  form[s].key = form[r].key
<1>1. s \in sales /\ s \in made /\ s \in Requests /\ key[s] = form[r].key
  BY DEF Prior, KeyOf, IInv, Typed, Rows
<1>2. Settled(s) /\ form[s] \in Forms /\ form[r] \in Forms
  BY <1>1 DEF IInv, Guarded, KeySettled, Past, Progress
<1>3. CASE form[s].key # NoKey
  BY <1>1, <1>2, <1>3 DEF Settled
<1>4. CASE form[s].key = NoKey
  <2>1. form[r].key \in SheetKeys /\ PayloadOf(s) \in Payloads
    BY <1>2 DEF Forms, PayloadOf
  <2>2. key[s] = Fingerprint(PayloadOf(s)) \/ key[s] = Disambiguated(PayloadOf(s), s)
    BY <1>2, <1>4 DEF Settled
  <2> QED
    BY <1>1, <2>1, <2>2, KeysAssumption
<1> QED
  BY <1>3, <1>4

\* A committed sale that holds a form's fingerprint is keyless and of its payload.
LEMMA PriorOfFingerprint ==
    ASSUME IInv, NEW r \in Requests, pc[r] = "posted",
           NEW s \in Prior(Fingerprint(PayloadOf(r)))
    PROVE  form[s].key = NoKey /\ PayloadOf(s) = PayloadOf(r)
<1>1. s \in made /\ s \in Requests /\ key[s] = Fingerprint(PayloadOf(r))
  BY DEF Prior, KeyOf, IInv, Typed, Rows
<1>2. Settled(s) /\ form[s] \in Forms /\ form[r] \in Forms
  BY <1>1 DEF IInv, Guarded, KeySettled, Past, Progress
<1>3. form[s].key = NoKey
  BY <1>1, <1>2, KeysAssumption DEF Settled, Forms, PayloadOf
<1>4. key[s] = Fingerprint(PayloadOf(s)) \/ key[s] = Disambiguated(PayloadOf(s), s)
  BY <1>2, <1>3 DEF Settled
<1>5. PayloadOf(s) = PayloadOf(r)
  BY <1>1, <1>4 DEF Fingerprint, Disambiguated
<1> QED
  BY <1>3, <1>5

\* The unique index on the settled key keeps a second sale of a sheet out.
LEMMA RecordStep ==
    ASSUME IInv, NEW r \in Requests, Save(r)
    PROVE  Register!Record(r)
<1>1. /\ pc[r] = "saving" /\ Prior(key[r]) = {}
      /\ sales' = sales \cup {r} /\ made' = made \cup {r}
      /\ UNCHANGED <<form, reply, draft>>
  BY DEF Save, Goto
<1>2. r \notin made /\ form[r] \in Forms /\ reply[r] = "none"
  BY <1>1 DEF IInv, Guarded, Progress
<1>3. ASSUME NEW s \in sales, form[s].key # NoKey, form[s].key = form[r].key
      PROVE  FALSE
  <2>1. s \in made /\ s \in Requests
    BY DEF IInv, Typed, Rows
  <2>2. Settled(s) /\ Settled(r)
    BY <1>1, <2>1 DEF IInv, Guarded, KeySettled, Past
  <2>3. key[s] = key[r]
    BY <1>3, <2>2 DEF Settled
  <2> QED
    BY <1>1, <2>3 DEF Prior, KeyOf
<1>4. ~\E s \in sales : Register!SameSheet(s, r)
  BY <1>3 DEF Register!SameSheet
<1> QED
  BY <1>1, <1>2, <1>4 DEF Register!Record

\* Every step of the route is a step of the register or invisible to it.
LEMMA StepImplements == IInv /\ [Next]_vars => [Register!RegisterNext]_(Register!register)
<1> SUFFICES ASSUME IInv, [Next]_vars
             PROVE  Register!RegisterNext \/ UNCHANGED Register!register
  OBVIOUS
<1> USE DEF Register!register
<1>1. CASE UNCHANGED vars
  BY <1>1 DEF vars
<1>2. CASE DiscardDraft
  BY <1>2 DEF DiscardDraft, Register!RegisterNext, Register!Discard
<1>3. ASSUME NEW r \in Requests,
             Handle(r) \/ Submit(r) \/ Fail(r) \/ Crash(r) \/ Age(r) \/ Delete(r)
      PROVE  Register!RegisterNext \/ UNCHANGED Register!register
  <2> USE DEF Answer, Goto, Register!RegisterNext
  <2>1. CASE CheckKey(r)
    <3>1. CASE Prior(form[r].key) = {}
      BY <2>1, <3>1 DEF CheckKey
    <3>2. CASE \E s \in Prior(form[r].key) : PayloadOf(s) # PayloadOf(r)
      BY <2>1, <3>2, DeclineStep DEF CheckKey, Places
    <3>3. ASSUME NEW s \in Prior(form[r].key), \A t \in Prior(form[r].key) : PayloadOf(t) = PayloadOf(r)
          PROVE  Register!Replay(r)
      <4>1. /\ pc[r] = "posted" /\ form[r].key # NoKey
            /\ reply' = [reply EXCEPT ![r] = "replayed"] /\ UNCHANGED <<sales, made, form, draft>>
        BY <2>1, <3>3 DEF CheckKey
      <4>2. s \in sales /\ PayloadOf(s) = PayloadOf(r)
        BY <3>3 DEF Prior
      <4>3. form[s].key = form[r].key
        BY <3>3, <4>1, PriorOfSheet
      <4> QED
        BY <4>1, <4>2, <4>3, ReplayStep
    <3> QED
      BY <3>1, <3>2, <3>3
  <2>2. CASE CheckFingerprint(r)
    <3>1. CASE ~\E s \in Prior(Fingerprint(PayloadOf(r))) : IsRecent(s)
      BY <2>2, <3>1 DEF CheckFingerprint
    <3>2. ASSUME NEW s \in Prior(Fingerprint(PayloadOf(r))), IsRecent(s)
          PROVE  Register!Replay(r)
      <4>1. /\ pc[r] = "posted" /\ form[r].key = NoKey
            /\ reply' = [reply EXCEPT ![r] = "replayed"] /\ UNCHANGED <<sales, made, form, draft>>
        BY <2>2, <3>2 DEF CheckFingerprint
      <4>2. s \in sales
        BY DEF Prior
      <4> QED
        BY <4>1, <4>2, PriorOfFingerprint, ReplayStep
    <3> QED
      BY <3>1, <3>2
  <2>3. CASE CheckStock(r)
    BY <2>3, DeclineStep DEF CheckStock, Places
  <2>4. CASE CheckBill(r)
    BY <2>4, DeclineStep DEF CheckBill, Places
  <2>5. CASE TakeWriteLock(r)
    BY <2>5 DEF TakeWriteLock
  <2>6. CASE LockTimeout(r)
    BY <2>6, DeclineStep DEF LockTimeout, Places
  <2>7. CASE SaveDuplicate(r)
    BY <2>7, DeclineStep DEF SaveDuplicate, Places
  <2>8. CASE Save(r)
    BY <2>8, RecordStep
  <2>9. CASE Finish(r)
    <3>1. r \in made /\ form[r] \in Forms /\ reply[r] = "none"
      BY <2>9 DEF Finish, IInv, Guarded, Progress
    <3>2. Register!Confirm(r)
      BY <2>9, <3>1 DEF Finish, Resumed, PayloadOf, Register!Confirm, Register!Tell
    <3> QED
      BY <3>2
  <2>f. CASE FinishKeepsDraft(r)
    <3>1. r \in made /\ form[r] \in Forms /\ reply[r] = "none"
      BY <2>f DEF FinishKeepsDraft, IInv, Guarded, Progress
    <3>2. Register!Confirm(r)
      BY <2>f, <3>1 DEF FinishKeepsDraft, Register!Confirm, Register!Tell
    <3> QED
      BY <3>2
  <2>10. CASE Submit(r)
    <3>1. form[r] = NoForm /\ reply[r] = "none"
      BY <2>10 DEF Submit, IInv, Guarded, Progress
    <3>2. Register!Ask(r)
      BY <2>10, <3>1 DEF Submit, Register!Ask
    <3> QED
      BY <3>2
  <2>11. CASE Fail(r)
    BY <2>11, DeclineStep DEF Fail, Places
  <2>12. CASE Crash(r)
    BY <2>12 DEF Crash
  <2>13. CASE Age(r)
    BY <2>13 DEF Age
  <2>14. CASE Delete(r)
    BY <2>14 DEF Delete, Register!Remove
  <2> QED
    BY <1>3, <2>1, <2>2, <2>3, <2>4, <2>5, <2>6, <2>7, <2>8, <2>9, <2>f, <2>10, <2>11, <2>12, <2>13,
       <2>14 DEF Handle
<1> QED
  BY <1>1, <1>2, <1>3 DEF Next

\* The route implements the abstract register, for any number of requests.
THEOREM RegisterImplemented == Spec => ImplementsRegister
<1>1. Init => Register!RegisterInit
  BY DEF Init, Register!RegisterInit
<1>2. IInv /\ [Next]_vars => [Register!RegisterNext]_(Register!register)
  BY StepImplements
<1> QED
  BY <1>1, <1>2, InvariantHolds, PTL DEF Spec, ImplementsRegister, Register!RegisterSpec

==============================================================================
