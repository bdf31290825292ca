---------------------------- MODULE SumTheorems ----------------------------
(***************************************************************************)
(* What SumFunctionOnSet and SumFunction of the community modules compute: *)
(* the fold chooses the elements of a finite set in some order, and its    *)
(* recursive function is shown to exist by the size of the subsets.  With  *)
(* it, what the proofs need of finite sets of numbers, strict orders,      *)
(* induction up to a number, and functions defined step by step.           *)
(***************************************************************************)
EXTENDS Functions, FiniteSets, FiniteSetsExt, FiniteSetTheorems, WellFoundedInduction, TLAPS

\* One step of the fold over T, and the fold over the subsets of S of at most n elements.
Chosen(T) == CHOOSE x \in T : TRUE
FoldStep(f, h, T) == IF T = {} THEN 0 ELSE f[Chosen(T)] + h[T \ {Chosen(T)}]
SubsetsUpTo(S, n) == {T \in SUBSET S : Cardinality(T) <= n}

\* A set of natural numbers that is not empty has a least one.
LEMMA LeastNumber ==
    ASSUME NEW A \in SUBSET Nat, A # {}
    PROVE  \E n \in A : \A m \in A : n <= m
<1>1. PICK n \in A : \A m \in A : ~ (<<m, n>> \in OpToRel(<, Nat))
  <2> HIDE DEF OpToRel
  <2> QED
    BY NatLessThanWellFounded, WFMin
<1>2. ASSUME NEW m \in A, ~(n <= m) PROVE FALSE
  <2>1. m < n /\ <<m, n>> \in Nat \X Nat
    BY <1>2
  <2>2. <<m, n>> \in OpToRel(<, Nat)
    BY <2>1 DEF OpToRel
  <2> HIDE DEF OpToRel
  <2> QED
    BY <1>1, <2>2
<1> QED
  BY <1>2

\* The fold over subsets of bounded size exists, by induction on the bound.
LEMMA FoldOfSize ==
    ASSUME NEW S, IsFiniteSet(S), NEW f, NEW n \in Nat
    PROVE  \E h : h = [T \in SubsetsUpTo(S, n) |-> FoldStep(f, h, T)]
<1> DEFINE Missing == {k \in Nat : ~ \E h : h = [T \in SubsetsUpTo(S, k) |-> FoldStep(f, h, T)]}
<1>1. SUFFICES ASSUME Missing # {} PROVE FALSE
  OBVIOUS
<1>2. PICK k \in Missing : \A m \in Missing : k <= m
  <2> HIDE DEF Missing
  <2>1. Missing \in SUBSET Nat
    BY DEF Missing
  <2> QED BY <1>1, <2>1, LeastNumber
<1>3. k \in Nat /\ ~ \E h : h = [T \in SubsetsUpTo(S, k) |-> FoldStep(f, h, T)]
  OBVIOUS
<1>4. CASE k = 0
  <2>1. \A T \in SubsetsUpTo(S, 0) : T = {}
    BY FS_Subset, FS_EmptySet, FS_CardinalityType DEF SubsetsUpTo
  <2> DEFINE h == [T \in SubsetsUpTo(S, 0) |-> 0]
  <2>2. \A T \in SubsetsUpTo(S, 0) : FoldStep(f, h, T) = 0
    BY <2>1 DEF FoldStep
  <2>3. h = [T \in SubsetsUpTo(S, 0) |-> FoldStep(f, h, T)]
    BY <2>2
  <2> QED BY <1>3, <1>4, <2>3
<1>5. CASE k # 0
  <2>1. PICK g : g = [T \in SubsetsUpTo(S, k - 1) |-> FoldStep(f, g, T)]
    <3>1. k - 1 \in Nat /\ k - 1 \notin Missing
      BY <1>2, <1>3, <1>5
    <3> QED BY <3>1
  <2> DEFINE h == [T \in SubsetsUpTo(S, k) |-> FoldStep(f, g, T)]
  <2>2. ASSUME NEW T \in SubsetsUpTo(S, k) PROVE FoldStep(f, h, T) = FoldStep(f, g, T)
    <3>1. CASE T = {}
      BY <3>1 DEF FoldStep
    <3>2. CASE T # {}
      <4> DEFINE U == T \ {Chosen(T)}
      <4>1. Chosen(T) \in T
        BY <3>2 DEF Chosen
      <4>2. IsFiniteSet(T) /\ Cardinality(T) <= k
        BY FS_Subset DEF SubsetsUpTo
      <4>3. Cardinality(U) = Cardinality(T) - 1 /\ Cardinality(T) \in Nat
        BY <4>1, <4>2, FS_RemoveElement, FS_CardinalityType
      <4>4. U \in SubsetsUpTo(S, k - 1) /\ U \in SubsetsUpTo(S, k)
        BY <1>3, <4>2, <4>3 DEF SubsetsUpTo
      <4>5. h[U] = g[U]
        BY <2>1, <4>4
      <4> QED BY <3>2, <4>5 DEF FoldStep
    <3> QED BY <3>1, <3>2
  <2>3. h = [T \in SubsetsUpTo(S, k) |-> FoldStep(f, h, T)]
    BY <2>2
  <2> QED BY <1>3, <2>3
<1> QED BY <1>4, <1>5

\* The fold is the recursive function that its definition asks for.
LEMMA SumIsFold ==
    ASSUME NEW S, IsFiniteSet(S), NEW f
    PROVE  \E g : g = [T \in SUBSET S |-> FoldStep(f, g, T)] /\ SumFunctionOnSet(f, S) = g[S]
<1>1. SubsetsUpTo(S, Cardinality(S)) = SUBSET S
  BY FS_Subset, FS_CardinalityType DEF SubsetsUpTo
<1>2. \E g : g = [T \in SUBSET S |-> FoldStep(f, g, T)]
  <2>1. Cardinality(S) \in Nat
    BY FS_CardinalityType
  <2>2. \E h : h = [T \in SubsetsUpTo(S, Cardinality(S)) |-> FoldStep(f, h, T)]
    BY <2>1, FoldOfSize
  <2> QED BY <1>1, <2>2
<1>3. \E g : g = [T \in SUBSET S |-> IF T = {} THEN 0 ELSE f[CHOOSE x \in T : TRUE] + g[T \ {CHOOSE x \in T : TRUE}]]
  BY <1>2 DEF FoldStep, Chosen
<1> DEFINE G == CHOOSE g : g = [T \in SUBSET S |-> IF T = {} THEN 0 ELSE f[CHOOSE x \in T : TRUE] + g[T \ {CHOOSE x \in T : TRUE}]]
<1>4. G = [T \in SUBSET S |-> IF T = {} THEN 0 ELSE f[CHOOSE x \in T : TRUE] + G[T \ {CHOOSE x \in T : TRUE}]]
  BY <1>3
<1>5. SumFunctionOnSet(f, S) = G[S]
  BY DEF SumFunctionOnSet, FoldFunctionOnSet, MapThenFoldSet
<1> QED BY <1>4, <1>5 DEF FoldStep, Chosen

\* Induction along the fold, for a set A of subsets.
LEMMA AlongFold ==
    ASSUME NEW S, IsFiniteSet(S), NEW A \in SUBSET (SUBSET S), {} \in A,
           \A T \in SUBSET S : T # {} /\ T \ {Chosen(T)} \in A => T \in A
    PROVE  S \in A
<1> DEFINE Left == {n \in Nat : \E T \in SUBSET S : T \notin A /\ Cardinality(T) = n}
<1>1. SUFFICES ASSUME S \notin A PROVE FALSE
  OBVIOUS
<1>2. Cardinality(S) \in Left
  BY <1>1, FS_CardinalityType
<1>3. PICK n \in Left : \A m \in Left : n <= m
  <2>1. Left \in SUBSET Nat /\ Left # {}
    BY <1>2
  <2> HIDE DEF Left
  <2> QED BY <2>1, LeastNumber
<1>4. PICK T \in SUBSET S : T \notin A /\ Cardinality(T) = n
  OBVIOUS
<1>5. Chosen(T) \in T
  BY <1>4 DEF Chosen
<1>6. IsFiniteSet(T) /\ Cardinality(T \ {Chosen(T)}) = n - 1 /\ Cardinality(T \ {Chosen(T)}) \in Nat
  BY <1>4, <1>5, FS_Subset, FS_RemoveElement, FS_CardinalityType
<1>7. T \ {Chosen(T)} \notin A
  BY <1>4, <1>5
<1>8. n - 1 \in Left
  BY <1>6, <1>7
<1> QED BY <1>3, <1>8

\* A sum of integers is an integer, and of numbers a number.
THEOREM SumType ==
    ASSUME NEW S, IsFiniteSet(S), NEW f
    PROVE  /\ (\A x \in S : f[x] \in Int) => SumFunctionOnSet(f, S) \in Int
           /\ (\A x \in S : f[x] \in Nat) => SumFunctionOnSet(f, S) \in Nat
<1>1. PICK g : g = [T \in SUBSET S |-> FoldStep(f, g, T)] /\ SumFunctionOnSet(f, S) = g[S]
  BY SumIsFold
<1>2. ASSUME NEW N, N = Int \/ N = Nat, \A x \in S : f[x] \in N PROVE g[S] \in N
  <2> DEFINE A == {T \in SUBSET S : g[T] \in N}
  <2>1. {} \in A
    <3>1. g[{}] = 0
      BY <1>1 DEF FoldStep
    <3> QED BY <1>2, <3>1
  <2>2. ASSUME NEW T \in SUBSET S, T # {}, T \ {Chosen(T)} \in A PROVE T \in A
    <3>1. Chosen(T) \in T
      BY <2>2 DEF Chosen
    <3>2. g[T] = f[Chosen(T)] + g[T \ {Chosen(T)}]
      BY <1>1, <2>2 DEF FoldStep
    <3>3. f[Chosen(T)] \in N /\ g[T \ {Chosen(T)}] \in N
      BY <1>2, <2>2, <3>1
    <3> QED BY <1>2, <3>2, <3>3
  <2>3. A \in SUBSET (SUBSET S)
    OBVIOUS
  <2>4. S \in A
    <3> HIDE DEF A
    <3> QED BY <2>1, <2>2, <2>3, AlongFold
  <2> QED BY <2>4
<1> QED BY <1>1, <1>2

\* The sum of sums.
THEOREM SumPlus ==
    ASSUME NEW S, IsFiniteSet(S), NEW f, NEW p, NEW q,
           \A x \in S : p[x] \in Int /\ q[x] \in Int /\ f[x] = p[x] + q[x]
    PROVE  SumFunctionOnSet(f, S) = SumFunctionOnSet(p, S) + SumFunctionOnSet(q, S)
<1>1. PICK f1 : f1 = [T \in SUBSET S |-> FoldStep(f, f1, T)] /\ SumFunctionOnSet(f, S) = f1[S]
  BY SumIsFold
<1>2. PICK p1 : p1 = [T \in SUBSET S |-> FoldStep(p, p1, T)] /\ SumFunctionOnSet(p, S) = p1[S]
  BY SumIsFold
<1>3. PICK q1 : q1 = [T \in SUBSET S |-> FoldStep(q, q1, T)] /\ SumFunctionOnSet(q, S) = q1[S]
  BY SumIsFold
<1> DEFINE A == {T \in SUBSET S : p1[T] \in Int /\ q1[T] \in Int /\ f1[T] = p1[T] + q1[T]}
<1>4. {} \in A
  <2>1. f1[{}] = 0 /\ p1[{}] = 0 /\ q1[{}] = 0
    BY <1>1, <1>2, <1>3 DEF FoldStep
  <2> QED BY <2>1
<1>5. ASSUME NEW T \in SUBSET S, T # {}, T \ {Chosen(T)} \in A PROVE T \in A
  <2> DEFINE x == Chosen(T)
             U == T \ {x}
  <2>1. x \in S /\ U \in SUBSET S
    BY <1>5 DEF Chosen
  <2>2. f1[T] = f[x] + f1[U] /\ p1[T] = p[x] + p1[U] /\ q1[T] = q[x] + q1[U]
    <3>1. f1[T] = f[x] + f1[U]
      BY <1>1, <1>5 DEF FoldStep
    <3>2. p1[T] = p[x] + p1[U]
      BY <1>2, <1>5 DEF FoldStep
    <3>3. q1[T] = q[x] + q1[U]
      BY <1>3, <1>5 DEF FoldStep
    <3> QED BY <3>1, <3>2, <3>3
  <2>3. p[x] \in Int /\ q[x] \in Int /\ f[x] = p[x] + q[x]
    BY <2>1
  <2>4. p1[U] \in Int /\ q1[U] \in Int /\ f1[U] = p1[U] + q1[U]
    BY <1>5
  <2> HIDE DEF x, U
  <2> QED BY <2>2, <2>3, <2>4
<1>6. S \in A
  <2>1. A \in SUBSET (SUBSET S)
    OBVIOUS
  <2> HIDE DEF A
  <2> QED BY <1>4, <1>5, <2>1, AlongFold
<1> QED BY <1>1, <1>2, <1>3, <1>6

\* A sum moves by as much as its one changed entry.
THEOREM SumChange ==
    ASSUME NEW S, IsFiniteSet(S), NEW f, NEW h, NEW d \in S,
           \A x \in S : f[x] \in Int /\ h[x] \in Int, \A x \in S \ {d} : h[x] = f[x]
    PROVE  SumFunctionOnSet(h, S) = SumFunctionOnSet(f, S) + h[d] - f[d]
<1>1. PICK f1 : f1 = [T \in SUBSET S |-> FoldStep(f, f1, T)] /\ SumFunctionOnSet(f, S) = f1[S]
  BY SumIsFold
<1>2. PICK h1 : h1 = [T \in SUBSET S |-> FoldStep(h, h1, T)] /\ SumFunctionOnSet(h, S) = h1[S]
  BY SumIsFold
<1> DEFINE Moved(T) == IF d \in T THEN h[d] - f[d] ELSE 0
           A == {T \in SUBSET S : f1[T] \in Int /\ h1[T] = f1[T] + Moved(T)}
<1>3. {} \in A
  <2>1. f1[{}] = 0 /\ h1[{}] = 0
    BY <1>1, <1>2 DEF FoldStep
  <2> QED BY <2>1
<1>4. ASSUME NEW T \in SUBSET S, T # {}, T \ {Chosen(T)} \in A PROVE T \in A
  <2>1. PICK x : x = Chosen(T)
    OBVIOUS
  <2>2. PICK U : U = T \ {x}
    OBVIOUS
  <2>3. x \in T /\ x \in S /\ U \in SUBSET S
    BY <1>4, <2>1, <2>2 DEF Chosen
  <2>4. f1[T] = f[x] + f1[U]
    BY <1>1, <1>4, <2>1, <2>2 DEF FoldStep
  <2>5. h1[T] = h[x] + h1[U]
    BY <1>2, <1>4, <2>1, <2>2 DEF FoldStep
  <2>6. f1[U] \in Int /\ h1[U] = f1[U] + Moved(U)
    BY <1>4, <2>1, <2>2
  <2>7. f[x] \in Int /\ h[x] \in Int /\ f[d] \in Int /\ h[d] \in Int
    BY <2>3
  <2>8. CASE x = d
    <3>1. d \in T /\ d \notin U
      BY <2>2, <2>3, <2>8
    <3> QED BY <2>4, <2>5, <2>6, <2>7, <2>8, <3>1
  <2>9. CASE x # d
    <3>1. h[x] = f[x] /\ (d \in T <=> d \in U)
      BY <2>2, <2>3, <2>9
    <3> QED BY <2>4, <2>5, <2>6, <2>7, <3>1
  <2> QED BY <2>8, <2>9
<1>5. S \in A
  <2>1. A \in SUBSET (SUBSET S)
    OBVIOUS
  <2> HIDE DEF A
  <2> QED BY <1>3, <1>4, <2>1, AlongFold
<1>6. h1[S] = f1[S] + (h[d] - f[d]) /\ f1[S] \in Int /\ f[d] \in Int /\ h[d] \in Int
  BY <1>5
<1> QED BY <1>1, <1>2, <1>6

\* Entries of zero have the sum zero.
THEOREM SumZero ==
    ASSUME NEW S, IsFiniteSet(S), NEW f, \A x \in S : f[x] = 0
    PROVE  SumFunctionOnSet(f, S) = 0
<1>1. SumFunctionOnSet(f, S) = SumFunctionOnSet(f, S) + SumFunctionOnSet(f, S)
  <2>1. \A x \in S : f[x] \in Int /\ f[x] = f[x] + f[x]
    OBVIOUS
  <2> QED BY <2>1, SumPlus
<1>2. SumFunctionOnSet(f, S) \in Int
  BY SumType
<1>3. \A n \in Int : n = n + n => n = 0
  OBVIOUS
<1> QED BY <1>1, <1>2, <1>3

\* Equal entries have equal sums.
THEOREM SumSame ==
    ASSUME NEW S, IsFiniteSet(S), NEW f, NEW h, \A x \in S : f[x] \in Int /\ h[x] = f[x]
    PROVE  SumFunctionOnSet(h, S) = SumFunctionOnSet(f, S)
<1> DEFINE zero == [x \in S |-> 0]
<1>1. \A x \in S : f[x] \in Int /\ zero[x] \in Int /\ h[x] = f[x] + zero[x]
  OBVIOUS
<1>2. SumFunctionOnSet(zero, S) = 0
  BY SumZero
<1>3. SumFunctionOnSet(f, S) \in Int
  BY SumType
<1> HIDE DEF zero
<1>4. SumFunctionOnSet(h, S) = SumFunctionOnSet(f, S) + SumFunctionOnSet(zero, S)
  BY <1>1, SumPlus
<1> QED BY <1>2, <1>3, <1>4

\* The fold over S of a subset is the sum over that subset.
LEMMA SumWithin ==
    ASSUME NEW S, IsFiniteSet(S), NEW f, NEW g, g = [T \in SUBSET S |-> FoldStep(f, g, T)],
           NEW T \in SUBSET S
    PROVE  g[T] = SumFunctionOnSet(f, T)
<1>1. IsFiniteSet(T)
  BY FS_Subset
<1>2. PICK t : t = [U \in SUBSET T |-> FoldStep(f, t, U)] /\ SumFunctionOnSet(f, T) = t[T]
  BY <1>1, SumIsFold
<1> DEFINE A == {U \in SUBSET T : g[U] = t[U]}
<1>3. {} \in A
  <2>1. g[{}] = 0 /\ t[{}] = 0
    BY <1>2 DEF FoldStep
  <2> QED BY <2>1
<1>4. ASSUME NEW U \in SUBSET T, U # {}, U \ {Chosen(U)} \in A PROVE U \in A
  <2>1. g[U] = f[Chosen(U)] + g[U \ {Chosen(U)}]
    BY <1>4 DEF FoldStep
  <2>2. t[U] = f[Chosen(U)] + t[U \ {Chosen(U)}]
    BY <1>2, <1>4 DEF FoldStep
  <2> QED BY <1>4, <2>1, <2>2
<1>5. T \in A
  <2>1. A \in SUBSET (SUBSET T)
    OBVIOUS
  <2> HIDE DEF A
  <2> QED BY <1>1, <1>3, <1>4, <2>1, AlongFold
<1> QED BY <1>2, <1>5

\* The order of the summands does not matter: any of them can be taken first.
THEOREM SumRemove ==
    ASSUME NEW S, IsFiniteSet(S), NEW f, \A x \in S : f[x] \in Int, NEW d \in S
    PROVE  SumFunctionOnSet(f, S) = f[d] + SumFunctionOnSet(f, S \ {d})
<1> DEFINE Sum(T) == SumFunctionOnSet(f, T)
           Left == {n \in Nat : \E T \in SUBSET S : \E e \in T :
                                   Cardinality(T) = n /\ Sum(T) # f[e] + Sum(T \ {e})}
<1>1. SUFFICES ASSUME Sum(S) # f[d] + Sum(S \ {d}) PROVE FALSE
  OBVIOUS
<1>2. Cardinality(S) \in Left
  BY <1>1, FS_CardinalityType
<1>3. PICK n \in Left : \A m \in Left : n <= m
  <2>1. Left \in SUBSET Nat /\ Left # {}
    BY <1>2
  <2> HIDE DEF Left
  <2> QED BY <2>1, LeastNumber
<1>d. PICK T \in SUBSET S : \E e \in T : Cardinality(T) = n /\ Sum(T) # f[e] + Sum(T \ {e})
  <2>1. \E T \in SUBSET S : \E e \in T : Cardinality(T) = n /\ Sum(T) # f[e] + Sum(T \ {e})
    OBVIOUS
  <2> HIDE DEF Sum, Left
  <2> QED BY <2>1
<1>4. PICK e \in T : Cardinality(T) = n /\ Sum(T) # f[e] + Sum(T \ {e})
  BY <1>d
<1> HIDE DEF Sum
<1>5. PICK x : x = Chosen(T)
  OBVIOUS
<1>6. x \in T
  BY <1>4, <1>5 DEF Chosen
<1>7. Sum(T) = f[x] + Sum(T \ {x})
  <2>1. PICK g : g = [U \in SUBSET S |-> FoldStep(f, g, U)] /\ SumFunctionOnSet(f, S) = g[S]
    BY SumIsFold
  <2>2. g[T] = f[x] + g[T \ {x}]
    BY <1>4, <1>5, <2>1 DEF FoldStep
  <2>3. g[T] = Sum(T) /\ g[T \ {x}] = Sum(T \ {x})
    <3>1. T \ {x} \in SUBSET S
      OBVIOUS
    <3>2. \A U \in SUBSET S : g[U] = SumFunctionOnSet(f, U)
      <4>1. g = [U \in SUBSET S |-> FoldStep(f, g, U)]
        BY <2>1
      <4> QED BY <4>1, SumWithin
    <3> QED BY <3>1, <3>2 DEF Sum
  <2> QED BY <2>2, <2>3
<1>8. x # e
  BY <1>4, <1>7
<1>9. ASSUME NEW y \in T, NEW z \in T, y # z PROVE Sum(T \ {y}) = f[z] + Sum((T \ {y}) \ {z})
  <2>1. IsFiniteSet(T) /\ Cardinality(T \ {y}) = n - 1 /\ Cardinality(T \ {y}) \in Nat
    BY <1>4, FS_Subset, FS_RemoveElement, FS_CardinalityType
  <2>2. n - 1 \notin Left
    <3>1. n \in Nat
      OBVIOUS
    <3> HIDE DEF Left
    <3> QED BY <1>3, <2>1, <3>1
  <2>3. T \ {y} \in SUBSET S /\ z \in T \ {y}
    BY <1>9
  <2> QED BY <2>1, <2>2, <2>3
<1>10. Sum(T \ {x}) = f[e] + Sum((T \ {x}) \ {e}) /\ Sum(T \ {e}) = f[x] + Sum((T \ {e}) \ {x})
  BY <1>6, <1>8, <1>9
<1>11. Sum((T \ {x}) \ {e}) = Sum((T \ {e}) \ {x})
  <2>1. (T \ {x}) \ {e} = (T \ {e}) \ {x}
    OBVIOUS
  <2> QED BY <2>1
<1>12. Sum((T \ {e}) \ {x}) \in Int
  <2>1. IsFiniteSet((T \ {e}) \ {x})
    BY FS_Subset
  <2> QED BY <2>1, SumType DEF Sum
<1>13. f[x] \in Int /\ f[e] \in Int
  BY <1>6
<1> QED BY <1>4, <1>7, <1>10, <1>11, <1>12, <1>13

\* Summing over a part is summing over all with zeros elsewhere.
THEOREM SumPart ==
    ASSUME NEW S, IsFiniteSet(S), NEW f, \A x \in S : f[x] \in Int, NEW R \in SUBSET S,
           NEW h, \A x \in S : h[x] = IF x \in R THEN f[x] ELSE 0
    PROVE  SumFunctionOnSet(f, R) = SumFunctionOnSet(h, S)
<1> DEFINE A == {T \in SUBSET S : SumFunctionOnSet(f, T \cap R) = SumFunctionOnSet(h, T)}
<1>1. {} \in A
  <2>1. \A k : SumFunctionOnSet(k, {}) = 0
    <3>1. ASSUME NEW k PROVE SumFunctionOnSet(k, {}) = 0
      <4>1. PICK g : g = [T \in SUBSET {} |-> FoldStep(k, g, T)] /\ SumFunctionOnSet(k, {}) = g[{}]
        BY SumIsFold, FS_EmptySet
      <4> QED BY <4>1 DEF FoldStep
    <3> QED BY <3>1
  <2>2. {} \cap R = {}
    OBVIOUS
  <2> QED BY <2>1, <2>2
<1>2. ASSUME NEW T \in SUBSET S, T # {}, T \ {Chosen(T)} \in A PROVE T \in A
  <2>1. PICK x : x = Chosen(T)
    OBVIOUS
  <2>2. x \in T /\ IsFiniteSet(T) /\ IsFiniteSet(T \cap R)
    BY <1>2, <2>1, FS_Subset DEF Chosen
  <2>3. SumFunctionOnSet(f, (T \ {x}) \cap R) = SumFunctionOnSet(h, T \ {x})
    BY <1>2, <2>1
  <2>4. \A y \in T : h[y] \in Int /\ f[y] \in Int
    OBVIOUS
  <2>5. SumFunctionOnSet(h, T) = h[x] + SumFunctionOnSet(h, T \ {x})
    BY <2>2, <2>4, SumRemove
  <2>6. CASE x \in R
    <3>1. SumFunctionOnSet(f, T \cap R) = f[x] + SumFunctionOnSet(f, (T \cap R) \ {x})
      BY <2>2, <2>4, <2>6, SumRemove
    <3>2. (T \cap R) \ {x} = (T \ {x}) \cap R
      OBVIOUS
    <3>3. h[x] = f[x]
      BY <2>2, <2>6
    <3> QED BY <2>3, <2>5, <3>1, <3>2, <3>3
  <2>7. CASE x \notin R
    <3>1. T \cap R = (T \ {x}) \cap R
      BY <2>7
    <3>2. h[x] = 0
      BY <2>2, <2>7
    <3>3. SumFunctionOnSet(h, T \ {x}) \in Int
      <4>1. IsFiniteSet(T \ {x})
        BY FS_Subset
      <4>2. \A y \in T \ {x} : h[y] \in Int
        BY <2>4
      <4> QED BY <4>1, <4>2, SumType
    <3>4. SumFunctionOnSet(f, T \cap R) = SumFunctionOnSet(f, (T \ {x}) \cap R)
      BY <3>1
    <3>5. SumFunctionOnSet(f, T \cap R) = SumFunctionOnSet(h, T)
      <4> HIDE DEF A
      <4> QED BY <2>3, <2>5, <3>2, <3>3, <3>4
    <3> QED BY <3>5
  <2> QED BY <2>6, <2>7
<1>3. S \in A
  <2>1. A \in SUBSET (SUBSET S)
    OBVIOUS
  <2> HIDE DEF A
  <2> QED BY <1>1, <1>2, <2>1, AlongFold
<1>4. S \cap R = R
  OBVIOUS
<1> QED BY <1>3, <1>4

\* Larger entries have a larger sum.
THEOREM SumGrows ==
    ASSUME NEW S, IsFiniteSet(S), NEW f, NEW h,
           \A x \in S : f[x] \in Nat /\ h[x] \in Nat /\ f[x] <= h[x]
    PROVE  SumFunctionOnSet(f, S) <= SumFunctionOnSet(h, S)
<1> DEFINE g == [x \in S |-> h[x] - f[x]]
<1>1. \A x \in S : g[x] \in Nat /\ h[x] = f[x] + g[x] /\ f[x] \in Int /\ g[x] \in Int
  OBVIOUS
<1> HIDE DEF g
<1>2. SumFunctionOnSet(h, S) = SumFunctionOnSet(f, S) + SumFunctionOnSet(g, S)
  BY <1>1, SumPlus
<1>3. SumFunctionOnSet(f, S) \in Nat /\ SumFunctionOnSet(g, S) \in Nat
  BY <1>1, SumType
<1> QED BY <1>2, <1>3

\* A set may be summed in two parts.
THEOREM SumSplit ==
    ASSUME NEW S, IsFiniteSet(S), NEW f, \A x \in S : f[x] \in Int, NEW R \in SUBSET S
    PROVE  SumFunctionOnSet(f, S) = SumFunctionOnSet(f, R) + SumFunctionOnSet(f, S \ R)
<1> DEFINE h == [x \in S |-> IF x \in R THEN f[x] ELSE 0]
           k == [x \in S |-> IF x \in S \ R THEN f[x] ELSE 0]
<1>1. \A x \in S : h[x] \in Int /\ k[x] \in Int /\ f[x] = h[x] + k[x]
  OBVIOUS
<1>2. \A x \in S : h[x] = IF x \in R THEN f[x] ELSE 0
  OBVIOUS
<1>3. \A x \in S : k[x] = IF x \in S \ R THEN f[x] ELSE 0
  OBVIOUS
<1> HIDE DEF h, k
<1>4. SumFunctionOnSet(f, S) = SumFunctionOnSet(h, S) + SumFunctionOnSet(k, S)
  BY <1>1, SumPlus
<1>5. SumFunctionOnSet(f, R) = SumFunctionOnSet(h, S)
  BY <1>2, SumPart
<1>6. SumFunctionOnSet(f, S \ R) = SumFunctionOnSet(k, S)
  <2>1. S \ R \in SUBSET S
    OBVIOUS
  <2> QED BY <1>3, <2>1, SumPart
<1> QED BY <1>4, <1>5, <1>6

\* A sum may be taken over names for the entries: g names every entry of S once.
THEOREM SumRenamed ==
    ASSUME NEW S, IsFiniteSet(S), NEW g, \A x, y \in S : g[x] = g[y] => x = y,
           NEW f, NEW h, \A x \in S : h[x] \in Int /\ f[g[x]] = h[x]
    PROVE  SumFunctionOnSet(f, {g[x] : x \in S}) = SumFunctionOnSet(h, S)
<1> DEFINE Named(T) == {g[x] : x \in T}
           A == {T \in SUBSET S : IsFiniteSet(Named(T))
                                   /\ SumFunctionOnSet(f, Named(T)) = SumFunctionOnSet(h, T)}
<1>1. {} \in A
  <2>1. Named({}) = {} /\ IsFiniteSet({})
    BY FS_EmptySet
  <2>2. SumFunctionOnSet(f, {}) = 0 /\ SumFunctionOnSet(h, {}) = 0
    BY <2>1, SumZero
  <2> QED BY <2>1, <2>2
<1>2. ASSUME NEW T \in SUBSET S, T # {}, T \ {Chosen(T)} \in A PROVE T \in A
  <2>1. PICK x : x = Chosen(T)
    OBVIOUS
  <2>2. PICK U : U = T \ {x}
    OBVIOUS
  <2>3. x \in T /\ x \in S /\ x \notin U /\ T = U \cup {x} /\ U \in SUBSET S /\ U \in A
    BY <1>2, <2>1, <2>2 DEF Chosen
  <2>4. Named(T) = Named(U) \cup {g[x]} /\ g[x] \notin Named(U) /\ g[x] \in Named(T)
    BY <2>3
  <2>5. Named(T) \ {g[x]} = Named(U)
    BY <2>4
  <2>6. IsFiniteSet(Named(U)) /\ SumFunctionOnSet(f, Named(U)) = SumFunctionOnSet(h, U)
    BY <2>3
  <2>7. IsFiniteSet(Named(T))
    <3> HIDE DEF Named
    <3> QED BY <2>4, <2>6, FS_AddElement
  <2>8. \A z \in Named(T) : f[z] \in Int
    BY <2>3
  <2>9. IsFiniteSet(T) /\ \A z \in T : h[z] \in Int
    BY FS_Subset
  <2> HIDE DEF Named, A
  <2>10. SumFunctionOnSet(f, Named(T)) = f[g[x]] + SumFunctionOnSet(f, Named(T) \ {g[x]})
    BY <2>4, <2>7, <2>8, SumRemove
  <2>11. SumFunctionOnSet(h, T) = h[x] + SumFunctionOnSet(h, T \ {x})
    BY <2>3, <2>9, SumRemove
  <2> QED BY <2>2, <2>3, <2>5, <2>6, <2>7, <2>10, <2>11 DEF A
<1>3. A \in SUBSET (SUBSET S)
  OBVIOUS
<1>4. S \in A
  <2> HIDE DEF A
  <2> QED BY <1>1, <1>2, <1>3, AlongFold
<1> QED BY <1>4

\* h gives the sums of the columns, or of the rows, k of the table f.
TableColumns(f, R, C, h, k) ==
    \A c \in C : /\ h[c] = SumFunctionOnSet(k[c], R)
                 /\ \A r \in R : f[<<r, c>>] \in Int /\ k[c][r] = f[<<r, c>>]
TableRows(f, R, C, h, k) ==
    \A r \in R : /\ h[r] = SumFunctionOnSet(k[r], C)
                 /\ \A c \in C : f[<<r, c>>] \in Int /\ k[r][c] = f[<<r, c>>]

\* A table is summed column by column ...
THEOREM SumColumns ==
    ASSUME NEW R, IsFiniteSet(R), NEW C, IsFiniteSet(C), NEW f, NEW h, NEW k, TableColumns(f, R, C, h, k)
    PROVE  SumFunctionOnSet(f, R \X C) = SumFunctionOnSet(h, C)
<1> USE DEF TableColumns
<1> DEFINE A == {T \in SUBSET C : SumFunctionOnSet(f, R \X T) = SumFunctionOnSet(h, T)}
<1>1. {} \in A
  <2>1. R \X {} = {} /\ IsFiniteSet({})
    BY FS_EmptySet
  <2>2. SumFunctionOnSet(f, {}) = 0 /\ SumFunctionOnSet(h, {}) = 0
    BY <2>1, SumZero
  <2> QED BY <2>1, <2>2
<1>2. ASSUME NEW T \in SUBSET C, T # {}, T \ {Chosen(T)} \in A PROVE T \in A
  <2>1. PICK c : c = Chosen(T)
    OBVIOUS
  <2>2. PICK U : U = T \ {c}
    OBVIOUS
  <2>3. c \in T /\ c \in C /\ c \notin U /\ T = U \cup {c} /\ U \in SUBSET C /\ U \in A
    BY <1>2, <2>1, <2>2 DEF Chosen
  <2>4. IsFiniteSet(T) /\ IsFiniteSet(R \X T)
    BY FS_Subset, FS_Product
  <2> DEFINE col == k[c]
             g == [r \in R |-> <<r, c>>]
             Col == {g[r] : r \in R}
  <2>5. Col \in SUBSET (R \X T) /\ (R \X T) \ Col = R \X U
    BY <2>3
  <2>6. \A p \in R \X T : f[p] \in Int
    OBVIOUS
  <2>7. /\ \A x, y \in R : g[x] = g[y] => x = y
        /\ \A r \in R : col[r] \in Int /\ f[g[r]] = col[r]
    BY <2>3
  <2>8. h[c] = SumFunctionOnSet(col, R)
    BY <2>3
  <2>9. h[c] \in Int /\ \A z \in T : h[z] \in Int
    <3>1. ASSUME NEW z \in C PROVE h[z] \in Int
      <4>1. \A r \in R : k[z][r] \in Int
        OBVIOUS
      <4>2. h[z] = SumFunctionOnSet(k[z], R)
        OBVIOUS
      <4> QED BY <4>1, <4>2, SumType
    <3> QED BY <2>3, <3>1
  <2> HIDE DEF col, g
  <2>10. SumFunctionOnSet(f, Col) = SumFunctionOnSet(col, R)
    <3>1. IsFiniteSet(R)
      OBVIOUS
    <3>2. \A x, y \in R : g[x] = g[y] => x = y
      BY <2>7
    <3>3. \A r \in R : col[r] \in Int /\ f[g[r]] = col[r]
      BY <2>7
    <3>4. SumFunctionOnSet(f, {g[r] : r \in R}) = SumFunctionOnSet(col, R)
      BY ONLY <3>1, <3>2, <3>3, SumRenamed
    <3> QED BY <3>4
  <2> HIDE DEF Col
  <2>11. SumFunctionOnSet(f, R \X T) = SumFunctionOnSet(f, Col) + SumFunctionOnSet(f, R \X U)
    BY <2>4, <2>5, <2>6, SumSplit
  <2>12. SumFunctionOnSet(h, T) = h[c] + SumFunctionOnSet(h, T \ {c})
    BY <2>3, <2>4, <2>9, SumRemove
  <2>13. SumFunctionOnSet(f, R \X U) = SumFunctionOnSet(h, U)
    BY <2>3
  <2> HIDE DEF A
  <2>14. SumFunctionOnSet(f, R \X T) = SumFunctionOnSet(h, T)
    <3>1. SumFunctionOnSet(h, U) \in Int
      <4>1. IsFiniteSet(U) /\ \A z \in U : h[z] \in Int
        BY <2>3, <2>4, <2>9, FS_Subset
      <4> QED BY <4>1, SumType
    <3> QED BY <2>2, <2>8, <2>9, <2>10, <2>11, <2>12, <2>13, <3>1
  <2> QED BY <2>14 DEF A
<1>3. A \in SUBSET (SUBSET C)
  OBVIOUS
<1>4. C \in A
  <2> HIDE DEF A
  <2> QED BY <1>1, <1>2, <1>3, AlongFold
<1> QED BY <1>4

\* ... or row by row.
THEOREM SumRows ==
    ASSUME NEW R, IsFiniteSet(R), NEW C, IsFiniteSet(C), NEW f, NEW h, NEW k, TableRows(f, R, C, h, k)
    PROVE  SumFunctionOnSet(f, R \X C) = SumFunctionOnSet(h, R)
<1> USE DEF TableRows
<1> DEFINE t == [q \in C \X R |-> f[<<q[2], q[1]>>]]
           g == [q \in C \X R |-> <<q[2], q[1]>>]
<1>1. {g[q] : q \in C \X R} = R \X C
  <2>1. ASSUME NEW p \in R \X C PROVE p \in {g[q] : q \in C \X R}
    <3>1. <<p[2], p[1]>> \in C \X R /\ g[<<p[2], p[1]>>] = p
      OBVIOUS
    <3> QED BY <3>1
  <2>2. \A q \in C \X R : g[q] \in R \X C
    OBVIOUS
  <2> QED BY <2>1, <2>2
<1>2. /\ \A x, y \in C \X R : g[x] = g[y] => x = y
      /\ \A q \in C \X R : t[q] \in Int /\ f[g[q]] = t[q]
  OBVIOUS
<1>3. IsFiniteSet(C \X R)
  BY FS_Product
<1>4. SumFunctionOnSet(f, R \X C) = SumFunctionOnSet(t, C \X R)
  <2> DEFINE S == C \X R
  <2>1. IsFiniteSet(S) /\ {g[q] : q \in S} = R \X C
    BY <1>1, <1>3
  <2>2. \A x, y \in S : g[x] = g[y] => x = y
    BY <1>2
  <2>3. \A q \in S : t[q] \in Int /\ f[g[q]] = t[q]
    BY <1>2
  <2> HIDE DEF g, t, S
  <2>4. SumFunctionOnSet(f, {g[q] : q \in S}) = SumFunctionOnSet(t, S)
    BY ONLY <2>1, <2>2, <2>3, SumRenamed
  <2> QED BY <2>1, <2>4 DEF S
<1>5. \A r \in R : h[r] = SumFunctionOnSet(k[r], C) /\ \A c \in C : k[r][c] = t[<<c, r>>]
  OBVIOUS
<1>6. SumFunctionOnSet(t, C \X R) = SumFunctionOnSet(h, R)
  <2>1. \A c \in C, r \in R : t[<<c, r>>] \in Int
    OBVIOUS
  <2> HIDE DEF t, g
  <2>2. TableColumns(t, C, R, h, k)
    BY <1>5, <2>1 DEF TableColumns
  <2> QED BY <2>2, SumColumns
<1> QED BY <1>4, <1>6

\* A finite set of numbers that is not empty has a greatest one, and a least one.
LEMMA GreatestAndLeast ==
    ASSUME NEW S \in SUBSET Nat, IsFiniteSet(S), S # {}
    PROVE  /\ Max(S) \in S /\ \A x \in S : x <= Max(S)
           /\ Min(S) \in S /\ \A x \in S : Min(S) <= x
<1> DEFINE A == {T \in SUBSET S : T = {} \/ \E m \in T : \A x \in T : m >= x}
<1>1. {} \in A
  OBVIOUS
<1>2. ASSUME NEW T \in SUBSET S, T # {}, T \ {Chosen(T)} \in A PROVE T \in A
  <2>1. PICK c : c = Chosen(T)
    OBVIOUS
  <2>2. c \in T
    BY <1>2, <2>1 DEF Chosen
  <2>3. CASE T \ {c} = {}
    <3>1. \A x \in T : x = c
      BY <2>3
    <3>2. c \in Nat
      BY <2>2
    <3>3. \A x \in T : c >= x
      BY <3>1, <3>2
    <3> QED
      BY <2>2, <3>3
  <2>4. CASE T \ {c} # {}
    <3>1. PICK m \in T \ {c} : \A x \in T \ {c} : m >= x
      BY <1>2, <2>1, <2>4
    <3>2. m \in Nat /\ c \in Nat
      BY <2>2
    <3>3. \A x \in T : x = c \/ m >= x
      BY <3>1
    <3>4. CASE m >= c
      BY <3>1, <3>3, <3>4
    <3>5. CASE c >= m
      <4>1. \A x \in T : c >= x
        BY <3>2, <3>3, <3>5
      <4> QED
        BY <2>2, <4>1
    <3> QED
      BY <3>2, <3>4, <3>5
  <2> QED
    BY <2>3, <2>4
<1>3. S \in A
  <2> HIDE DEF A
  <2>1. A \in SUBSET (SUBSET S)
    BY DEF A
  <2> QED
    BY <1>1, <1>2, <2>1, AlongFold
<1>4. \E m \in S : \A x \in S : m >= x
  BY <1>3
<1>5. \E m \in S : \A x \in S : m <= x
  BY LeastNumber
<1>6. Max(S) \in S /\ \A x \in S : Max(S) >= x
  BY <1>4 DEF Max
<1>7. Min(S) \in S /\ \A x \in S : Min(S) <= x
  BY <1>5 DEF Min
<1> QED
  BY <1>6, <1>7

\* A strict order of all elements of a set.
StrictOrder(L, lt) ==
    /\ \A k, l \in L : k # l => <<k, l>> \in lt \/ <<l, k>> \in lt
    /\ \A k \in L : <<k, k>> \notin lt
    /\ \A k, l, m \in L : <<k, l>> \in lt /\ <<l, m>> \in lt => <<k, m>> \in lt

\* In such an order every element has its turn: as many come before it as the turn
\* says, and every turn from the first to the last is somebody's.
HaveTurns(L, lt) ==
    /\ \A n \in 1..Cardinality(L) : \E l \in L : Cardinality({k \in L : <<k, l>> \in lt}) = n - 1
    /\ \A l \in L : Cardinality({k \in L : <<k, l>> \in lt}) + 1 \in 1..Cardinality(L)
    /\ \A l, m \in L :
          Cardinality({k \in L : <<k, l>> \in lt}) = Cardinality({k \in L : <<k, m>> \in lt}) => l = m

\* That is so in every strict order of a finite set.
LEMMA EachHasItsTurn ==
    ASSUME NEW L, IsFiniteSet(L), NEW lt, StrictOrder(L, lt)
    PROVE  HaveTurns(L, lt)
<1> DEFINE many == Cardinality(L)
           Earlier(l) == {k \in L : <<k, l>> \in lt}
           rank == [l \in L |-> Cardinality(Earlier(l))]
           Ranks == {rank[l] : l \in L}
<1>1. many \in Nat
  BY FS_CardinalityType
<1>2. \A k, l \in L : k # l => <<k, l>> \in lt \/ <<l, k>> \in lt
  BY DEF StrictOrder
<1>3. \A k, l, m \in L : /\ <<k, k>> \notin lt
                         /\ <<k, l>> \in lt /\ <<l, m>> \in lt => <<k, m>> \in lt
  BY DEF StrictOrder
<1>4. \A l \in L : IsFiniteSet(Earlier(l)) /\ rank[l] \in Nat /\ rank[l] < many
  <2> TAKE l \in L
  <2>1. Earlier(l) \subseteq L /\ Earlier(l) # L
    BY <1>3
  <2>2. IsFiniteSet(Earlier(l)) /\ Cardinality(Earlier(l)) <= many /\ Cardinality(Earlier(l)) # many
    <3> HIDE DEF Earlier
    <3> QED
      BY <2>1, FS_Subset
  <2>3. Cardinality(Earlier(l)) \in Nat
    BY <2>2, FS_CardinalityType
  <2> QED
    BY <1>1, <2>2, <2>3
<1>5. \A k, l \in L : <<k, l>> \in lt => rank[k] < rank[l]
  <2> TAKE k \in L, l \in L
  <2> HAVE <<k, l>> \in lt
  <2>1. Earlier(k) \subseteq Earlier(l)
    BY <1>3
  <2>2. Earlier(k) # Earlier(l)
    BY <1>3
  <2>3. Cardinality(Earlier(k)) <= Cardinality(Earlier(l)) /\ Cardinality(Earlier(k)) # Cardinality(Earlier(l))
    <3>1. IsFiniteSet(Earlier(l))
      BY <1>4
    <3> HIDE DEF Earlier
    <3> QED
      BY <2>1, <2>2, <3>1, FS_Subset
  <2>4. rank[k] = Cardinality(Earlier(k)) /\ rank[l] = Cardinality(Earlier(l))
    OBVIOUS
  <2>5. rank[k] \in Nat /\ rank[l] \in Nat
    BY <1>4
  <2> HIDE DEF rank, Earlier
  <2> QED
    BY <2>3, <2>4, <2>5
<1> HIDE DEF Earlier
<1>16. \A l \in L : rank[l] \in Nat /\ rank[l] < many
  BY <1>4
<1>6. \A k, l \in L : rank[k] = rank[l] => k = l
  <2> HIDE DEF rank, many
  <2> TAKE k \in L, l \in L
  <2> HAVE rank[k] = rank[l]
  <2>1. ~(rank[k] < rank[l]) /\ ~(rank[l] < rank[k])
    BY <1>16
  <2> QED
    BY <1>2, <1>5, <2>1
<1>7. rank \in Surjection(L, Ranks) /\ rank \in Injection(L, Ranks)
  <2> HIDE DEF rank
  <2>1. rank = [l \in L |-> rank[l]]
    BY DEF rank
  <2> QED
    BY <1>6, <2>1 DEF Surjection, Injection, IsInjective
<1>8. IsFiniteSet(Ranks) /\ Cardinality(Ranks) = many
  <2> HIDE DEF rank, Ranks
  <2> QED
    BY <1>7, FS_Surjection
<1>9. 0..(many - 1) \subseteq Ranks
  <2>1. IsFiniteSet(0..(many - 1)) /\ Cardinality(0..(many - 1)) = many
    <3> HIDE DEF many
    <3> QED
      BY <1>1, FS_Interval
  <2>2. Ranks \subseteq 0..(many - 1)
    <3> HIDE DEF rank, many
    <3>1. ASSUME NEW l \in L PROVE rank[l] \in 0..(many - 1)
      BY <1>1, <1>16
    <3> QED
      BY <3>1
  <2> HIDE DEF Ranks, many
  <2> QED
    BY <1>8, <2>1, <2>2, FS_Subset
<1>10. ASSUME NEW n \in 1..many PROVE \E l \in L : Cardinality({k \in L : <<k, l>> \in lt}) = n - 1
  <2>1. n - 1 \in Ranks
    <3> HIDE DEF Ranks, many
    <3> QED
      BY <1>1, <1>9
  <2> QED
    BY <2>1 DEF Earlier
<1>11. ASSUME NEW l \in L PROVE Cardinality({k \in L : <<k, l>> \in lt}) + 1 \in 1..many
  <2>1. rank[l] = Cardinality({k \in L : <<k, l>> \in lt})
    BY DEF Earlier
  <2> HIDE DEF rank, many
  <2> QED
    BY <1>1, <1>16, <2>1
<1>12. ASSUME NEW l \in L, NEW m \in L,
              Cardinality({k \in L : <<k, l>> \in lt}) = Cardinality({k \in L : <<k, m>> \in lt})
       PROVE  l = m
  <2>1. rank[l] = rank[m]
    BY <1>12 DEF Earlier
  <2> HIDE DEF rank
  <2> QED
    BY <1>6, <2>1
<1> HIDE DEF rank, Ranks
<1> QED
  BY <1>10, <1>11, <1>12 DEF HaveTurns

\* Induction up to a number.
LEMMA UpTo ==
    ASSUME NEW k \in Nat, NEW A, 0 \in A, \A n \in 1..k : n - 1 \in A => n \in A
    PROVE  \A n \in 0..k : n \in A
<1> DEFINE Missing == {n \in 0..k : n \notin A}
<1>1. SUFFICES ASSUME Missing # {} PROVE FALSE
  OBVIOUS
<1>2. PICK n \in Missing : \A m \in Missing : n <= m
  <2>1. Missing \in SUBSET Nat
    OBVIOUS
  <2> HIDE DEF Missing
  <2> QED
    BY <1>1, <2>1, LeastNumber
<1>3. n \in 1..k /\ n \notin A
  OBVIOUS
<1>4. n - 1 \in 0..k /\ ~(n <= n - 1)
  BY <1>3
<1>5. n - 1 \in A
  BY <1>2, <1>4
<1> QED
  BY <1>3, <1>5

\* What starts in V and takes k steps that stay in V: such a function exists.
Walks(f, V, base, k, step) ==
    /\ f = [n \in 0..k |-> IF n = 0 THEN base ELSE step[<<n, f[n - 1]>>]]
    /\ \A n \in 0..k : f[n] \in V

\* There is such a function, by induction on the number of steps.
LEMMA StepByStep ==
    ASSUME NEW V, NEW base \in V, NEW k \in Nat, NEW step, \A n \in 1..k : \A x \in V : step[<<n, x>>] \in V
    PROVE  \E f : Walks(f, V, base, k, step)
<1> DEFINE Steps(g, m) == /\ g = [n \in 0..m |-> g[n]] /\ g[0] = base
                          /\ \A n \in 1..m : g[n] = step[<<n, g[n - 1]>>]
                          /\ \A n \in 0..m : g[n] \in V
           A == {m \in 0..k : \E g : Steps(g, m)}
<1>1. 0 \in A
  <2> DEFINE g == [n \in 0..0 |-> base]
  <2>1. \A n \in 0..0 : g[n] = base
    OBVIOUS
  <2>2. 0 \in 0..0 /\ 1..0 = {}
    OBVIOUS
  <2>3. g = [n \in 0..0 |-> g[n]]
    OBVIOUS
  <2> HIDE DEF g
  <2>4. Steps(g, 0)
    BY <2>1, <2>2, <2>3
  <2> QED
    BY <2>4
<1>2. ASSUME NEW m \in 1..k, m - 1 \in A PROVE m \in A
  <2>1. PICK g : Steps(g, m - 1)
    BY <1>2
  <2> DEFINE h == [n \in 0..m |-> IF n = m THEN step[<<m, g[m - 1]>>] ELSE g[n]]
  <2>2. /\ h = [n \in 0..m |-> h[n]] /\ m \in Nat /\ m - 1 \in 0..(m - 1)
        /\ h[m] = step[<<m, g[m - 1]>>] /\ \A n \in 0..(m - 1) : h[n] = g[n]
    OBVIOUS
  <2> HIDE DEF h
  <2>3. h[0] = base
    <3>1. 0 \in 0..(m - 1)
      OBVIOUS
    <3>2. h[0] = g[0]
      BY <2>2, <3>1
    <3>3. g[0] = base
      BY <2>1
    <3> QED
      BY <3>2, <3>3
  <2>4. ASSUME NEW n \in 1..m PROVE h[n] = step[<<n, h[n - 1]>>]
    <3>1. n - 1 \in 0..(m - 1)
      BY <2>2
    <3>2. CASE n = m
      BY <2>2, <3>1, <3>2
    <3>3. CASE n # m
      <4>1. n \in 1..(m - 1) /\ n \in 0..(m - 1)
        BY <2>2, <3>3
      <4> QED
        BY <2>1, <2>2, <3>1, <4>1
    <3> QED
      BY <3>2, <3>3
  <2>5. ASSUME NEW n \in 0..m PROVE h[n] \in V
    <3>1. CASE n = m
      BY <2>1, <2>2, <3>1
    <3>2. CASE n # m
      <4>1. n \in 0..(m - 1)
        BY <2>2, <3>2
      <4> QED
        BY <2>1, <2>2, <4>1
    <3> QED
      BY <3>1, <3>2
  <2>6. Steps(h, m)
    BY <2>2, <2>3, <2>4, <2>5
  <2>7. m \in 0..k
    OBVIOUS
  <2> QED
    BY <2>6, <2>7
<1>3. k \in A
  <2> HIDE DEF A
  <2>1. \A n \in 0..k : n \in A
    BY <1>1, <1>2, UpTo
  <2> QED
    BY <2>1
<1>4. PICK f : Steps(f, k)
  BY <1>3
<1>5. f = [n \in 0..k |-> IF n = 0 THEN base ELSE step[<<n, f[n - 1]>>]]
  <2>1. ASSUME NEW n \in 0..k PROVE f[n] = IF n = 0 THEN base ELSE step[<<n, f[n - 1]>>]
    <3>1. n = 0 \/ n \in 1..k
      OBVIOUS
    <3>2. f[0] = base /\ \A j \in 1..k : f[j] = step[<<j, f[j - 1]>>]
      BY <1>4
    <3> HIDE DEF Steps
    <3> QED
      BY <3>1, <3>2
  <2>2. f = [n \in 0..k |-> f[n]]
    BY <1>4
  <2> QED
    BY <2>1, <2>2
<1>6. Walks(f, V, base, k, step)
  BY <1>4, <1>5 DEF Walks
<1> QED
  BY <1>6
=============================================================================
