--------------------------- MODULE InventoryProofs ---------------------------
(***************************************************************************)
(* Proofs about InventoryReservation, for every set of orders, products    *)
(* and workers, every list of lines and stock, and every number of faults. *)
(*                                                                         *)
(* First what folds and sums over finite sets are, and what the loop of    *)
(* aggregateQuantities returns; then the locks, the messages, the deadlock *)
(* freedom, the balance of the stock and the refinement.                   *)
(***************************************************************************)
EXTENDS InventoryReservation, FiniteSetTheorems, WellFoundedInduction, TLAPS
-----------------------------------------------------------------------------
(* Finite sets, folds over them, and sums.  The folds of the community      *)
(* modules are functions defined by recursion over the subsets of a finite  *)
(* set; that such a function exists is proved by induction over a set of    *)
(* numbers.                                                                 *)

\* Induction over the natural numbers: a set of them with 0 and the successor of
\* each member has all; or the least number outside would have a predecessor.
LEMMA SetInduction ==
  ASSUME NEW T \in SUBSET Nat, 0 \in T, \A n \in T : n + 1 \in T
  PROVE  T = Nat
<1> DEFINE U == Nat \ T
<1> SUFFICES ASSUME U # {} PROVE FALSE
  OBVIOUS
<1>1. PICK m \in U : \A x \in U : ~(<<x, m>> \in OpToRel(<, Nat))
  <2>1. U \subseteq Nat
    OBVIOUS
  <2> HIDE DEF U
  <2> QED
    BY <2>1, WFMin, NatLessThanWellFounded
<1>2. \A x \in U : ~(x < m)
  BY <1>1 DEF OpToRel
<1>3. m \in Nat /\ m # 0 /\ m \notin T
  OBVIOUS
<1>4. m - 1 \in Nat /\ m - 1 < m
  BY <1>3
<1>5. m - 1 \in T
  BY <1>2, <1>4
<1>6. (m - 1) + 1 = m
  BY <1>3
<1> QED
  BY <1>3, <1>5, <1>6

\* Counting the subsets of a finite set.
LEMMA CardinalityFacts ==
  ASSUME NEW S, IsFiniteSet(S)
  PROVE  /\ Cardinality(S) \in Nat
         /\ Cardinality(S) = 0 <=> S = {}
         /\ \A s \in SUBSET S : /\ IsFiniteSet(s)
                                /\ Cardinality(s) \in Nat
                                /\ Cardinality(s) <= Cardinality(S)
         /\ \A x \in S : /\ IsFiniteSet(S \ {x})
                         /\ Cardinality(S \ {x}) = Cardinality(S) - 1
<1>1. Cardinality(S) \in Nat /\ (Cardinality(S) = 0 <=> S = {})
  BY FS_CardinalityType, FS_EmptySet
<1>2. ASSUME NEW s \in SUBSET S
      PROVE  /\ IsFiniteSet(s)
             /\ Cardinality(s) \in Nat
             /\ Cardinality(s) <= Cardinality(S)
  <2>1. IsFiniteSet(s) /\ Cardinality(s) <= Cardinality(S)
    BY FS_Subset
  <2> QED
    BY <2>1, FS_CardinalityType
<1>3. ASSUME NEW x \in S
      PROVE  /\ IsFiniteSet(S \ {x})
             /\ Cardinality(S \ {x}) = Cardinality(S) - 1
  BY FS_RemoveElement
<1> QED
  BY <1>1, <1>2, <1>3

\* h[s] is what is left of base when the elements of s, a subset of S, are
\* taken out one after the other, as c chooses, and o is applied for each.
IsFold(h, S, base, c, o) ==
  \A s \in SUBSET S : h[s] = IF s = {} THEN base ELSE o[c[s]][h[s \ {c[s]}]]

\* There is such a function: it is defined for the subsets of up to n elements,
\* whatever n.
LEMMA FoldExists ==
  ASSUME NEW S, IsFiniteSet(S), NEW V, NEW base \in V,
         NEW c, \A s \in SUBSET S : s # {} => c[s] \in s,
         NEW o, \A x \in S, v \in V : o[x][v] \in V
  PROVE  \E h \in [SUBSET S -> V] : IsFold(h, S, base, c, o)
<1> DEFINE Body(h, s) == IF s = {} THEN base ELSE o[c[s]][h[s \ {c[s]}]]
           Upto(h, n) == \A s \in SUBSET S : Cardinality(s) <= n => h[s] = Body(h, s)
           T == {n \in Nat : \E h \in [SUBSET S -> V] : Upto(h, n)}
<1>1. 0 \in T
  <2> DEFINE h == [s \in SUBSET S |-> base]
  <2>1. \A s \in SUBSET S : Cardinality(s) <= 0 => s = {}
    BY CardinalityFacts
  <2>2. h \in [SUBSET S -> V] /\ Upto(h, 0)
    BY <2>1
  <2> QED
    BY <2>2
<1>2. ASSUME NEW n \in T PROVE n + 1 \in T
  <2>1. PICK h \in [SUBSET S -> V] : Upto(h, n)
    OBVIOUS
  <2> DEFINE g == [s \in SUBSET S |-> Body(h, s)]
  <2>2. \A s \in SUBSET S : s # {} => c[s] \in S /\ s \ {c[s]} \in SUBSET S
    OBVIOUS
  <2>3. g \in [SUBSET S -> V]
    BY <2>2
  <2>4. \A s \in SUBSET S : Cardinality(s) <= n => g[s] = h[s]
    BY <2>1
  <2>5. ASSUME NEW s \in SUBSET S, Cardinality(s) <= n + 1
        PROVE  g[s] = Body(g, s)
    <3>1. CASE s = {}
      BY <3>1
    <3>2. CASE s # {}
      <4>1. /\ IsFiniteSet(s) /\ c[s] \in s
        BY <3>2, CardinalityFacts
      <4>2. Cardinality(s \ {c[s]}) <= n
        BY <2>5, <4>1, CardinalityFacts
      <4>3. g[s \ {c[s]}] = h[s \ {c[s]}]
        BY <2>4, <4>2
      <4> QED
        BY <3>2, <4>3
    <3> QED
      BY <3>1, <3>2
  <2>6. n + 1 \in Nat
    OBVIOUS
  <2> HIDE DEF g, Body
  <2>7. Upto(g, n + 1)
    BY <2>5
  <2> HIDE DEF Upto
  <2> QED
    BY <2>3, <2>6, <2>7
<1>3. Cardinality(S) \in T
  <2>1. T = Nat
    <3> HIDE DEF T
    <3>1. T \in SUBSET Nat
      BY DEF T
    <3> QED
      BY <1>1, <1>2, <3>1, SetInduction
  <2> QED
    BY <2>1, CardinalityFacts
<1>4. PICK h \in [SUBSET S -> V] : Upto(h, Cardinality(S))
  BY <1>3
<1>5. \A s \in SUBSET S : h[s] = Body(h, s)
  BY <1>4, CardinalityFacts
<1> QED
  BY <1>5 DEF IsFold

\* Induction over the subsets of a finite set: a set A of them has all when it
\* has each one whose proper subsets it has.
LEMMA SubsetInduction ==
  ASSUME NEW S, IsFiniteSet(S), NEW A,
         \A s \in SUBSET S : (\A t \in SUBSET s : t # s => t \in A) => s \in A
  PROVE  SUBSET S \subseteq A
<1> DEFINE T == {n \in Nat : \A s \in SUBSET S : Cardinality(s) < n => s \in A}
<1>1. \A s \in SUBSET S : Cardinality(s) \in Nat
  BY CardinalityFacts
<1>2. 0 \in T
  BY <1>1
<1>3. ASSUME NEW n \in T PROVE n + 1 \in T
  <2>1. ASSUME NEW s \in SUBSET S, Cardinality(s) < n + 1, NEW t \in SUBSET s, t # s
        PROVE  Cardinality(t) < n
    <3>1. PICK x \in s : x \notin t
      BY <2>1
    <3>2. IsFiniteSet(s) /\ Cardinality(s) \in Nat
      BY CardinalityFacts
    <3>3. IsFiniteSet(s \ {x}) /\ Cardinality(s \ {x}) = Cardinality(s) - 1
      BY <3>2, CardinalityFacts
    <3>4. t \in SUBSET (s \ {x})
      BY <3>1
    <3>5. Cardinality(t) <= Cardinality(s \ {x}) /\ Cardinality(t) \in Nat
      BY <3>3, <3>4, CardinalityFacts
    <3> QED
      BY <2>1, <3>2, <3>3, <3>5
  <2>2. \A s \in SUBSET S : Cardinality(s) < n + 1 => s \in A
    BY <2>1
  <2> QED
    BY <2>2
<1>4. T = Nat
  <2>1. T \in SUBSET Nat
    OBVIOUS
  <2> HIDE DEF T
  <2> QED
    BY <1>2, <1>3, <2>1, SetInduction
<1>5. ASSUME NEW s \in SUBSET S PROVE s \in A
  <2>1. Cardinality(s) + 1 \in T /\ Cardinality(s) < Cardinality(s) + 1
    BY <1>1, <1>4
  <2> QED
    BY <2>1
<1> QED
  BY <1>5

-----------------------------------------------------------------------------
(* Sums over finite sets.                                                   *)

\* The function SumFunctionOnSet is defined by.
SumUpTo(S, g) ==
  CHOOSE h : h = [s \in SUBSET S |->
    IF s = {} THEN 0
    ELSE g[CHOOSE x \in s : TRUE] + h[s \ {CHOOSE x \in s : TRUE}]]

LEMMA SumIsFold ==
  ASSUME NEW S, NEW g
  PROVE  SumFunctionOnSet(g, S) = SumUpTo(S, g)[S]
BY DEF SumFunctionOnSet, FoldFunctionOnSet, MapThenFoldSet, SumUpTo

\* g can be added up over S.
Summable(g, S) == IsFiniteSet(S) /\ \A x \in S : g[x] \in Nat

\* The element a sum over s adds first.
Some(s) == CHOOSE x \in s : TRUE

\* f[s] is the sum of g over s, a subset of S.
IsSum(f, S, g) ==
  /\ f \in [SUBSET S -> Nat]
  /\ f[{}] = 0
  /\ \A s \in SUBSET S : s # {} =>
       Some(s) \in s /\ f[s] = g[Some(s)] + f[s \ {Some(s)}]

\* The recursion of the sum is sound for finite sets.
LEMMA SumDefined ==
  ASSUME NEW S, NEW g, Summable(g, S)
  PROVE  IsSum(SumUpTo(S, g), S, g)
<1> USE DEF Summable
<1> DEFINE c == [s \in SUBSET S |-> CHOOSE x \in s : TRUE]
           o == [x \in S |-> [v \in Nat |-> g[x] + v]]
           F(h) == [s \in SUBSET S |->
                      IF s = {} THEN 0
                      ELSE g[CHOOSE x \in s : TRUE] + h[s \ {CHOOSE x \in s : TRUE}]]
<1>1. \A s \in SUBSET S : c[s] = (CHOOSE x \in s : TRUE) /\ (s # {} => c[s] \in s)
  OBVIOUS
<1>2. \A x \in S, v \in Nat : o[x][v] \in Nat /\ o[x][v] = g[x] + v
  OBVIOUS
<1> HIDE DEF c, o
<1>3. PICK h \in [SUBSET S -> Nat] : IsFold(h, S, 0, c, o)
  <2>1. \A s \in SUBSET S : s # {} => c[s] \in s
    BY <1>1
  <2>2. \A x \in S, v \in Nat : o[x][v] \in Nat
    BY <1>2
  <2> QED
    BY <2>1, <2>2, FoldExists
<1>4. h = F(h)
  <2>1. ASSUME NEW s \in SUBSET S
        PROVE  h[s] = IF s = {} THEN 0 ELSE g[c[s]] + h[s \ {c[s]}]
    <3>1. s # {} => c[s] \in S /\ h[s \ {c[s]}] \in Nat
      BY <1>1
    <3>2. h[s] = IF s = {} THEN 0 ELSE o[c[s]][h[s \ {c[s]}]]
      BY <1>3 DEF IsFold
    <3> QED
      BY <3>1, <3>2, <1>2
  <2>2. h = [s \in SUBSET S |-> h[s]]
    OBVIOUS
  <2> QED
    BY <1>1, <2>1, <2>2
<1> DEFINE f == SumUpTo(S, g)
<1>5. f = F(f)
  BY <1>4 DEF SumUpTo
<1> HIDE DEF f
<1>6. \A s \in SUBSET S : f[s] = IF s = {} THEN 0 ELSE g[c[s]] + f[s \ {c[s]}]
  BY <1>1, <1>5
<1>7. \A s \in SUBSET S : s # {} => c[s] \in s /\ s \ {c[s]} \in SUBSET S
  BY <1>1
<1>8. SUBSET S \subseteq {s \in SUBSET S : f[s] \in Nat}
  <2> DEFINE A == {s \in SUBSET S : f[s] \in Nat}
  <2>1. ASSUME NEW s \in SUBSET S, \A t \in SUBSET s : t # s => t \in A
        PROVE  s \in A
    <3>1. s # {} => g[c[s]] \in Nat /\ f[s \ {c[s]}] \in Nat
      BY <1>7, <2>1
    <3>2. f[s] = IF s = {} THEN 0 ELSE g[c[s]] + f[s \ {c[s]}]
      BY <1>6
    <3> QED
      BY <3>1, <3>2
  <2> HIDE DEF A
  <2>2. SUBSET S \subseteq A
    BY <2>1, SubsetInduction
  <2> QED
    BY <2>2 DEF A
<1>9. f \in [SUBSET S -> Nat]
  BY <1>5, <1>8
<1>10. \A s \in SUBSET S : c[s] = Some(s)
  BY <1>1 DEF Some
<1> QED
  BY <1>6, <1>7, <1>9, <1>10 DEF f, IsSum

\* The sum over a subset is the same computed within the set.
LEMMA SumOfSubset ==
  ASSUME NEW S, NEW g, Summable(g, S), NEW T \in SUBSET S
  PROVE  SumFunctionOnSet(g, T) = SumUpTo(S, g)[T]
<1> DEFINE a == SumUpTo(S, g)
           b == SumUpTo(T, g)
           A == {t \in SUBSET T : a[t] = b[t]}
<1>1. IsFiniteSet(T) /\ Summable(g, T)
  BY CardinalityFacts DEF Summable
<1>0. IsSum(a, S, g) /\ IsSum(b, T, g)
  BY <1>1, SumDefined
<1> HIDE DEF a, b
<1>2. ASSUME NEW s \in SUBSET T, \A t \in SUBSET s : t # s => t \in A
      PROVE  s \in A
  <2>1. CASE s = {}
    BY <1>0, <2>1 DEF IsSum
  <2>2. CASE s # {}
    <3>1. Some(s) \in s /\ a[s] = g[Some(s)] + a[s \ {Some(s)}]
      BY <1>0, <2>2 DEF IsSum
    <3>2. b[s] = g[Some(s)] + b[s \ {Some(s)}]
      BY <1>0, <2>2 DEF IsSum
    <3>3. a[s \ {Some(s)}] = b[s \ {Some(s)}]
      BY <1>2, <3>1
    <3> QED
      BY <3>1, <3>2, <3>3
  <2> QED
    BY <2>1, <2>2
<1>3. SUBSET T \subseteq A
  <2> HIDE DEF A
  <2> QED
    BY <1>1, <1>2, SubsetInduction
<1>4. a[T] = b[T]
  BY <1>3
<1> QED
  BY <1>4, SumIsFold DEF a, b

\* It does not matter which element is added last.
LEMMA SumOfLast ==
  ASSUME NEW S, NEW g, Summable(g, S), NEW y \in S
  PROVE  SumFunctionOnSet(g, S) = g[y] + SumFunctionOnSet(g, S \ {y})
<1> DEFINE a == SumUpTo(S, g)
           A == {s \in SUBSET S : \A z \in s : a[s] = g[z] + a[s \ {z}]}
<1>0. IsSum(a, S, g)
  BY SumDefined
<1> HIDE DEF a
<1>1. ASSUME NEW s \in SUBSET S, \A t \in SUBSET s : t # s => t \in A
      PROVE  s \in A
  <2>1. SUFFICES ASSUME NEW z \in s PROVE a[s] = g[z] + a[s \ {z}]
    OBVIOUS
  <2>2. PICK x \in s : a[s] = g[x] + a[s \ {x}]
    <3>1. Some(s) \in s /\ a[s] = g[Some(s)] + a[s \ {Some(s)}]
      BY <1>0 DEF IsSum
    <3> QED
      BY <3>1
  <2>3. CASE x = z
    BY <2>2, <2>3
  <2>4. CASE x # z
    <3>1. a[s \ {x}] = g[z] + a[(s \ {x}) \ {z}]
      BY <1>1, <2>4
    <3>2. a[s \ {z}] = g[x] + a[(s \ {z}) \ {x}]
      BY <1>1, <2>4
    <3>3. (s \ {x}) \ {z} = (s \ {z}) \ {x} /\ (s \ {x}) \ {z} \in SUBSET S
      OBVIOUS
    <3>4. a[s \ {z}] = g[x] + a[(s \ {x}) \ {z}]
      BY <3>2, <3>3
    <3>5. g[x] \in Nat /\ g[z] \in Nat /\ a[(s \ {x}) \ {z}] \in Nat
      BY <1>0, <3>3 DEF Summable, IsSum
    <3> QED
      BY <2>2, <3>1, <3>4, <3>5
  <2> QED
    BY <2>3, <2>4
<1>2. SUBSET S \subseteq A
  <2> HIDE DEF A
  <2> QED
    BY <1>1, SubsetInduction DEF Summable
<1>3. a[S] = g[y] + a[S \ {y}]
  BY <1>2
<1> QED
  BY <1>3, SumOfSubset DEF a

LEMMA SumType ==
  ASSUME NEW S, NEW g, Summable(g, S)
  PROVE  SumFunctionOnSet(g, S) \in Nat
<1>1. IsSum(SumUpTo(S, g), S, g)
  BY SumDefined
<1> QED
  BY <1>1, SumIsFold DEF IsSum

LEMMA SumOfNone ==
  ASSUME NEW g
  PROVE  SumFunctionOnSet(g, {}) = 0
<1>1. Summable(g, {})
  BY FS_EmptySet DEF Summable
<1>2. IsSum(SumUpTo({}, g), {}, g)
  BY <1>1, SumDefined
<1> QED
  BY <1>2, SumIsFold DEF IsSum
-----------------------------------------------------------------------------
(* The loop of aggregateQuantities.                                         *)

\* A nonempty set of numbers up to N has a largest element.
LEMMA Largest ==
  ASSUME NEW N \in Nat, NEW T \in SUBSET (0..N), T # {}
  PROVE  \E m \in T : \A t \in T : t <= m
<1> DEFINE U == {N - t : t \in T}
<1>1. U \subseteq Nat /\ U # {}
  <2>1. \A t \in T : N - t \in Nat
    OBVIOUS
  <2>2. PICK t \in T : TRUE
    OBVIOUS
  <2>3. N - t \in U
    BY <2>2
  <2> QED
    BY <2>1, <2>3
<1>2. PICK u \in U : \A x \in U : ~(<<x, u>> \in OpToRel(<, Nat))
  BY <1>1, WFMin, NatLessThanWellFounded
<1>3. \A x \in U : ~(x < u)
  BY <1>1, <1>2 DEF OpToRel
<1>4. PICK m \in T : u = N - m
  OBVIOUS
<1>5. ASSUME NEW t \in T PROVE t <= m
  <2>1. ~(N - t < N - m)
    BY <1>3, <1>4
  <2> QED
    BY <2>1
<1> QED
  BY <1>5


\* The function AggregateQuantities is defined by.
LoopUpTo(P, items) ==
  CHOOSE f : f = [s \in SUBSET DOMAIN items |->
    IF s = {} THEN [p \in P |-> 0]
    ELSE AddLine(f[s \ {Max(s)}], items[Max(s)])]

LEMMA LoopIsFold ==
  ASSUME NEW P, NEW items
  PROVE  AggregateQuantities(P, items) = LoopUpTo(P, items)[DOMAIN items]
BY DEF AggregateQuantities, FoldLeft, MapThenFoldSet, LoopUpTo

\* f[s] is what the loop has after the lines s.
IsLoop(f, P, items) ==
  /\ f \in [SUBSET DOMAIN items -> [P -> Nat]]
  /\ f[{}] = [p \in P |-> 0]
  /\ \A s \in SUBSET DOMAIN items : s # {} =>
       Max(s) \in s /\ f[s] = AddLine(f[s \ {Max(s)}], items[Max(s)])

LEMMA ElementOf ==
  ASSUME NEW R, NEW s \in Seq(R), NEW i \in DOMAIN s
  PROVE  s[i] \in R
OBVIOUS

\* The loop is sound: it takes the lines of a finite list from the last one.
LEMMA LoopDefined ==
  ASSUME NEW P, NEW items \in Seq([product : P, quantity : Nat])
  PROVE  IsLoop(LoopUpTo(P, items), P, items)
<1> DEFINE S == DOMAIN items
           V == [P -> Nat]
           base == [p \in P |-> 0]
           c == [s \in SUBSET S |-> Max(s)]
           o == [i \in S |-> [v \in V |-> AddLine(v, items[i])]]
           F(h) == [s \in SUBSET S |->
                      IF s = {} THEN base
                      ELSE AddLine(h[s \ {Max(s)}], items[Max(s)])]
<1>1. S = 1..Len(items) /\ Len(items) \in Nat /\ IsFiniteSet(S)
  BY FS_Interval
<1>2. ASSUME NEW s \in SUBSET S, s # {} PROVE Max(s) \in s
  <2>0. Len(items) \in Nat /\ s \in SUBSET (0..Len(items))
    BY <1>1
  <2>1. \E m \in s : \A t \in s : t <= m
    BY <1>2, <2>0, Largest
  <2>2. \E m \in s : \A t \in s : m >= t
    BY <1>1, <2>1
  <2> QED
    BY <2>2 DEF Max
<1>3. ASSUME NEW i \in S, NEW v \in V PROVE AddLine(v, items[i]) \in V
  <2>0. items[i] \in [product : P, quantity : Nat]
    BY ElementOf
  <2>1. items[i].product \in P /\ items[i].quantity \in Nat
    BY <2>0
  <2> QED
    BY <2>1 DEF AddLine
<1>4. \A s \in SUBSET S : s # {} => c[s] \in s
  BY <1>2
<1>5. \A i \in S, v \in V : o[i][v] \in V
  BY <1>3
<1>6. base \in V
  OBVIOUS
<1>7. \A s \in SUBSET S : c[s] = Max(s)
  OBVIOUS
<1>8. \A i \in S, v \in V : o[i][v] = AddLine(v, items[i])
  OBVIOUS
<1> HIDE DEF S, V, base, c, o
<1>9. PICK h \in [SUBSET S -> V] : IsFold(h, S, base, c, o)
  BY <1>1, <1>4, <1>5, <1>6, FoldExists
<1>10. h = F(h)
  <2>1. ASSUME NEW s \in SUBSET S
        PROVE  h[s] = IF s = {} THEN base
                      ELSE AddLine(h[s \ {Max(s)}], items[Max(s)])
    <3>1. s # {} => Max(s) \in S /\ h[s \ {Max(s)}] \in V
      BY <1>2
    <3>2. h[s] = IF s = {} THEN base ELSE o[Max(s)][h[s \ {Max(s)}]]
      BY <1>7, <1>9 DEF IsFold
    <3> QED
      BY <1>8, <3>1, <3>2
  <2>2. h = [s \in SUBSET S |-> h[s]]
    OBVIOUS
  <2> QED
    BY <2>1, <2>2
<1> DEFINE f == LoopUpTo(P, items)
<1>11. f = F(f)
  BY <1>10 DEF LoopUpTo, S, base
<1> HIDE DEF f
<1>12. \A s \in SUBSET S :
         f[s] = IF s = {} THEN base ELSE AddLine(f[s \ {Max(s)}], items[Max(s)])
  BY <1>11
<1>13. SUBSET S \subseteq {s \in SUBSET S : f[s] \in V}
  <2> DEFINE A == {s \in SUBSET S : f[s] \in V}
  <2>1. ASSUME NEW s \in SUBSET S, \A t \in SUBSET s : t # s => t \in A
        PROVE  s \in A
    <3>1. s # {} => Max(s) \in S /\ f[s \ {Max(s)}] \in V
      BY <1>2, <2>1
    <3>2. f[s] \in V
      BY <1>3, <1>6, <1>12, <3>1
    <3> QED
      BY <3>2
  <2>2. IsFiniteSet(S)
    BY <1>1
  <2> HIDE DEF A
  <2>3. SUBSET S \subseteq A
    BY <2>1, <2>2, SubsetInduction
  <2> QED
    BY <2>3 DEF A
<1>14. f \in [SUBSET S -> V]
  BY <1>11, <1>13
<1> QED
  BY <1>2, <1>12, <1>14 DEF IsLoop, S, V, base, f

\* aggregateQuantities returns, for every list of lines and every product, what
\* the lines of the product add up to.
THEOREM QuantitiesAddUp ==
  ASSUME NEW P, NEW items \in Seq([product : P, quantity : Nat])
  PROVE  /\ AggregateQuantities(P, items) \in [P -> Nat]
         /\ \A p \in P :
              AggregateQuantities(P, items)[p] = ListedQuantity(items, p)
<1> DEFINE f == LoopUpTo(P, items)
           q == [i \in DOMAIN items |-> items[i].quantity]
<1>1. DOMAIN items = 1..Len(items) /\ Len(items) \in Nat
  OBVIOUS
<1>2. IsLoop(f, P, items)
  BY LoopDefined
<1>3. \A i \in DOMAIN items :
        items[i].product \in P /\ items[i].quantity \in Nat /\ q[i] = items[i].quantity
  <2>1. \A i \in DOMAIN items : items[i] \in [product : P, quantity : Nat]
    BY ElementOf
  <2> QED
    BY <2>1
<1> HIDE DEF f, q
<1>4. AggregateQuantities(P, items) = f[DOMAIN items]
  BY LoopIsFold DEF f
<1>5. ASSUME NEW p \in P
      PROVE  f[DOMAIN items][p] = ListedQuantity(items, p)
  <2> DEFINE L == [k \in Nat |-> {i \in 1..k : items[i].product = p}]
             T == {k \in Nat : k <= Len(items) =>
                     f[1..k][p] = SumFunctionOnSet(q, L[k])}
  <2>0. \A k \in Nat : L[k] = {i \in 1..k : items[i].product = p}
    OBVIOUS
  <2> HIDE DEF L
  <2>1. 0 \in T
    <3>1. 1..0 = {} /\ L[0] = {}
      BY <2>0
    <3>2. f[{}][p] = 0
      BY <1>2 DEF IsLoop
    <3> QED
      BY <3>1, <3>2, SumOfNone
  <2>2. ASSUME NEW k \in T PROVE k + 1 \in T
    <3>1. SUFFICES ASSUME k + 1 <= Len(items)
                   PROVE  f[1..(k + 1)][p] = SumFunctionOnSet(q, L[k + 1])
      OBVIOUS
    <3>0. k \in Nat /\ k + 1 \in Nat /\ \A i : i \in 1..(k + 1) <=> i \in 1..k \/ i = k + 1
      <4>1. k \in Nat
        OBVIOUS
      <4> HIDE DEF T
      <4> QED
        BY <4>1
    <3>2. f[1..k][p] = SumFunctionOnSet(q, L[k])
      BY <1>1, <3>1
    <3>3. 1..(k + 1) \in SUBSET DOMAIN items /\ 1..k \in SUBSET DOMAIN items
      BY <1>1, <3>1
    <3>4. f[1..(k + 1)] = AddLine(f[1..k], items[k + 1])
      <4>1. Max(1..(k + 1)) = k + 1
        BY DEF Max
      <4>2. (1..(k + 1)) \ {k + 1} = 1..k /\ 1..(k + 1) # {}
        <5>1. k + 1 \notin 1..k
          BY <3>0
        <5> QED
          BY <3>0, <5>1
      <4> QED
        BY <1>2, <3>3, <4>1, <4>2 DEF IsLoop
    <3>5. f[1..k] \in [P -> Nat]
      BY <1>2, <3>3 DEF IsLoop
    <3>6. k + 1 \in DOMAIN items
      BY <1>1, <3>1
    <3>7. CASE items[k + 1].product = p
      <4>1. f[1..(k + 1)][p] = f[1..k][p] + q[k + 1]
        BY <1>3, <3>4, <3>5, <3>6, <3>7 DEF AddLine
      <4>2. k + 1 \in L[k + 1] /\ L[k + 1] \ {k + 1} = L[k]
        BY <2>0, <3>7
      <4>3. Summable(q, L[k + 1]) /\ Summable(q, L[k])
        <5>1. IsFiniteSet(1..(k + 1)) /\ IsFiniteSet(1..k)
          BY FS_Interval
        <5>2. L[k + 1] \in SUBSET (1..(k + 1)) /\ L[k] \in SUBSET (1..k)
          BY <2>0
        <5>3. IsFiniteSet(L[k + 1]) /\ IsFiniteSet(L[k])
          BY <5>1, <5>2, FS_Subset
        <5>4. \A i \in DOMAIN items : q[i] \in Nat
          BY <1>3
        <5> QED
          BY <3>3, <5>2, <5>3, <5>4 DEF Summable
      <4>4. SumFunctionOnSet(q, L[k + 1]) = q[k + 1] + SumFunctionOnSet(q, L[k])
        BY <4>2, <4>3, SumOfLast
      <4>5. SumFunctionOnSet(q, L[k]) \in Nat /\ q[k + 1] \in Nat
        BY <1>3, <3>6, <4>3, SumType
      <4> QED
        BY <3>2, <4>1, <4>4, <4>5
    <3>8. CASE items[k + 1].product # p
      <4>1. f[1..(k + 1)][p] = f[1..k][p]
        BY <1>3, <3>4, <3>5, <3>6, <3>8 DEF AddLine
      <4>2. L[k + 1] = L[k]
        BY <2>0, <3>0, <3>8
      <4> QED
        BY <3>2, <4>1, <4>2
    <3> QED
      BY <3>7, <3>8
  <2>3. T = Nat
    <3>1. T \in SUBSET Nat
      OBVIOUS
    <3> HIDE DEF T
    <3> QED
      BY <2>1, <2>2, <3>1, SetInduction
  <2>4. f[1..Len(items)][p] = SumFunctionOnSet(q, L[Len(items)])
    <3>1. Len(items) \in T /\ Len(items) <= Len(items)
      BY <1>1, <2>3
    <3> QED
      BY <3>1
  <2> QED
    BY <1>1, <2>0, <2>4 DEF ListedQuantity, q
<1>6. f[DOMAIN items] \in [P -> Nat]
  BY <1>2 DEF IsLoop
<1> QED
  BY <1>4, <1>5, <1>6
-----------------------------------------------------------------------------

\* Rows are locked, and quantities known, only while the stock is examined.
RowsInv == \A w \in Workers : pc[w] # "stock" => rows[w] = {}

\* FOR UPDATE: no row is locked by two transactions.
RowLockInv ==
  \A v, w \in Workers : v # w => rows[v] \cap rows[w] = {}

\* pg_advisory_xact_lock: one transaction at a time works on an order.
OrderLockInv ==
  \A v, w \in Workers :
    v # w /\ pc[v] = "stock" /\ pc[w] = "stock" => order[v] # order[w]

\* What a transaction has read of a row it locked is what the row holds.
SeenInv ==
  \A w \in Workers : \A p \in Products :
    seen[w][p] = IF p \in rows[w] THEN stock[p] ELSE 0

\* lockOrder found no decision, and none was made since; what is ready to be
\* acknowledged is decided.
DecidedInv ==
  \A w \in Workers :
    /\ pc[w] = "stock" => reservation[order[w]] = "none"
    /\ pc[w] = "ack" => reservation[order[w]] # "none"

\* Only events that were sent are queued or handled.
SentInv ==
  /\ \A o \in Orders : queue[o] > 0 => sent[o] > 0
  /\ \A w \in Workers : pc[w] # "idle" => sent[order[w]] > 0

\* Rows are locked from the lowest product upwards.
AscendInv ==
  \A w \in Workers : pc[w] = "stock" =>
    \A p \in rows[w], q \in Missing(w) : p < q

IInv == /\ TypeOK
        /\ RowsInv
        /\ RowLockInv
        /\ OrderLockInv
        /\ SeenInv
        /\ DecidedInv
        /\ SentInv
        /\ AscendInv
        /\ AckedIsDecided
-----------------------------------------------------------------------------
LEMMA SequenceOfMore ==
  ASSUME NEW A, NEW B, A \subseteq B, NEW s \in Seq(A)
  PROVE  s \in Seq(B)
<1>1. \A i \in 1..Len(s) : s[i] \in B
  OBVIOUS
<1> QED
  BY <1>1

\* The quantities of an order are numbers, whatever its lines.
LEMMA RequestedType ==
  /\ Requested \in [Orders -> [Products -> Nat]]
  /\ \A o \in Orders, p \in Products :
       Requested[o][p] = ListedQuantity(Items[o], p)
<1> SUFFICES ASSUME NEW o \in Orders
             PROVE  /\ Requested[o] \in [Products -> Nat]
                    /\ \A p \in Products :
                         Requested[o][p] = ListedQuantity(Items[o], p)
  BY DEF Requested
<1>1. Items[o] \in Seq([product : Products, quantity : Nat])
  <2> DEFINE A == [product : Products, quantity : Nat \ {0}]
             B == [product : Products, quantity : Nat]
  <2>1. Items[o] \in Seq(A)
    BY QuantityAssumption
  <2>2. A \subseteq B
    OBVIOUS
  <2> HIDE DEF A, B
  <2>3. Items[o] \in Seq(B)
    BY <2>1, <2>2, SequenceOfMore
  <2> QED
    BY <2>3 DEF B
<1>2. Requested[o] = AggregateQuantities(Products, Items[o])
  BY DEF Requested
<1> QED
  BY <1>1, <1>2, QuantitiesAddUp

LEMMA InitInv == Init => IInv
BY ProductAssumption, QuantityAssumption, OrderAssumption
   DEF Init, IInv, TypeOK, RowsInv, RowLockInv, OrderLockInv, SeenInv,
       DecidedInv, SentInv, AscendInv, AckedIsDecided, NothingSeen

\* A worker that is not idle has an order.
LEMMA OrderOf ==
  ASSUME TypeOK, NEW w \in Workers, pc[w] # "idle"
  PROVE  order[w] \in Orders
BY OrderAssumption DEF TypeOK

\* The locks make the backstops unnecessary.
LEMMA NoBackstop == IInv => BackstopsNeverFire
<1> SUFFICES ASSUME IInv, NEW w \in Workers, ReadyToDecide(w)
             PROVE  ~Backstop(w)
  BY DEF BackstopsNeverFire
<1> USE DEF IInv, ReadyToDecide
<1>1. order[w] \in Orders
  BY OrderOf
<1>2. reservation[order[w]] = "none"
  BY DEF DecidedInv
<1>3. SUFFICES ASSUME Decision(w) = "Reserved"
               PROVE  /\ \A p \in Stocked : stock[p] >= Requested[order[w]][p]
                      /\ Wanted(order[w]) \subseteq Stocked
  BY <1>2, <1>1, ProductAssumption, RequestedType DEF Backstop, TypeOK
<1>4. \A p \in Wanted(order[w]) :
        seen[w][p] >= Requested[order[w]][p] /\ Requested[order[w]][p] > 0
  BY <1>1, <1>3, RequestedType
     DEF Decision, Unavailable, Wanted, TypeOK
<1>5. \A p \in Wanted(order[w]) : p \in rows[w] /\ seen[w][p] = stock[p]
  BY <1>1, <1>4, RequestedType DEF SeenInv, Wanted
<1>6. rows[w] \subseteq Stocked
  BY DEF TypeOK
<1>7. ASSUME NEW p \in Stocked, p \notin Wanted(order[w])
      PROVE  stock[p] >= Requested[order[w]][p]
  BY <1>1, <1>7, ProductAssumption, RequestedType DEF Wanted, TypeOK
<1> QED
  BY <1>4, <1>5, <1>6, <1>7
-----------------------------------------------------------------------------
(* What the helpers do to the state of worker w. *)

LEMMA UnlockType ==
  ASSUME TypeOK, NEW w \in Workers, Unlock(w)
  PROVE  /\ rows' \in [Workers -> SUBSET Stocked]
         /\ seen' \in [Workers -> [Products -> Nat]]
         /\ rows'[w] = {} /\ seen'[w] = NothingSeen
         /\ \A v \in Workers \ {w} : rows'[v] = rows[v] /\ seen'[v] = seen[v]
BY DEF TypeOK, Unlock, NothingSeen

\* A delivery is tried again, or given back to the queue.
LEMMA RetryEffect ==
  ASSUME TypeOK, NEW w \in Workers, pc[w] # "idle", RetryOrRequeue(w)
  PROVE  /\ pc' \in [Workers -> {"idle", "order", "stock", "ack"}]
         /\ order' \in [Workers -> Orders \cup {NoOrder}]
         /\ queue' \in [Orders -> Nat]
         /\ \A v \in Workers : order'[v] = NoOrder <=> pc'[v] = "idle"
         /\ \/ pc'[w] = "order" /\ order'[w] = order[w] /\ queue' = queue
            \/ /\ pc'[w] = "idle" /\ order'[w] = NoOrder
               /\ queue'[order[w]] > 0
               /\ \A o \in Orders : o # order[w] => queue'[o] = queue[o]
         /\ \A v \in Workers \ {w} : pc'[v] = pc[v] /\ order'[v] = order[v]
<1>1. order[w] \in Orders
  BY OrderOf
<1>2. CASE pc' = [pc EXCEPT ![w] = "order"] /\ UNCHANGED <<order, queue>>
  BY <1>1, <1>2, OrderAssumption DEF TypeOK
<1>3. CASE /\ pc' = [pc EXCEPT ![w] = "idle"]
           /\ order' = [order EXCEPT ![w] = NoOrder]
           /\ queue' = [queue EXCEPT ![order[w]] = @ + 1]
  BY <1>1, <1>3, OrderAssumption DEF TypeOK
<1> QED
  BY <1>2, <1>3 DEF RetryOrRequeue

LEMMA DecideType ==
  ASSUME IInv, NEW w \in Workers, ReadyToDecide(w), Decide(w)
  PROVE  /\ stock' \in [Stocked -> Nat]
         /\ reservation' \in [Orders -> Statuses \cup {"none"}]
         /\ events' \in [Orders -> Seq(Statuses)]
         /\ reservation'[order[w]] \in Statuses
         /\ \A o \in Orders \ {order[w]} : reservation'[o] = reservation[o]
         /\ \A p \in Stocked \ rows[w] : stock'[p] = stock[p]
<1> USE DEF IInv
<1>1. order[w] \in Orders
  BY OrderOf DEF ReadyToDecide
<1>2. Decision(w) \in Statuses
  BY DEF Decision, Statuses
<1>3. /\ reservation' = [reservation EXCEPT ![order[w]] = Decision(w)]
      /\ events' = [events EXCEPT ![order[w]] = Append(events[order[w]], Decision(w))]
  BY DEF Decide
<1>4. /\ reservation' \in [Orders -> Statuses \cup {"none"}]
      /\ reservation'[order[w]] \in Statuses
      /\ \A o \in Orders \ {order[w]} : reservation'[o] = reservation[o]
  BY <1>1, <1>2, <1>3 DEF TypeOK
<1>5. Append(events[order[w]], Decision(w)) \in Seq(Statuses)
  BY <1>1, <1>2 DEF TypeOK
<1>6. events' \in [Orders -> Seq(Statuses)]
  BY <1>1, <1>3, <1>5 DEF TypeOK
<1>7. CASE Decision(w) = "Reserved"
  <2>1. stock' = [p \in Stocked |-> stock[p] - Requested[order[w]][p]]
    BY <1>7 DEF Decide, StockAfter
  <2>2. \A p \in Stocked : stock[p] >= Requested[order[w]][p]
    BY <1>1, <1>7, NoBackstop, ProductAssumption, RequestedType
       DEF BackstopsNeverFire, Backstop, TypeOK
  <2>3. \A p \in Stocked : stock[p] \in Nat /\ Requested[order[w]][p] \in Nat
    BY <1>1, ProductAssumption, RequestedType DEF TypeOK
  <2>4. stock' \in [Stocked -> Nat]
    <3>1. \A p \in Stocked : stock[p] - Requested[order[w]][p] \in Nat
      BY <2>2, <2>3
    <3> QED
      BY <2>1, <3>1
  <2>5. ASSUME NEW p \in Stocked \ rows[w]
        PROVE  Requested[order[w]][p] = 0
    <3>1. p \in Products /\ p \notin Wanted(order[w])
      BY ProductAssumption DEF ReadyToDecide, Missing
    <3>2. ~(Requested[order[w]][p] > 0)
      BY <3>1 DEF Wanted
    <3> QED
      BY <2>3, <3>2
  <2> QED
    BY <1>4, <1>6, <2>1, <2>3, <2>4, <2>5
<1>8. CASE Decision(w) = "Rejected"
  <2>1. stock' = stock
    BY <1>8 DEF Decide
  <2> QED
    BY <1>4, <1>6, <2>1 DEF TypeOK
<1> QED
  BY <1>7, <1>8 DEF Decision
-----------------------------------------------------------------------------
(* Each conjunct of the invariant is preserved by every step. *)

LEMMA TypeStep == IInv /\ [Next]_vars => TypeOK'
<1> SUFFICES ASSUME IInv, [Next]_vars PROVE TypeOK'
  OBVIOUS
<1> USE DEF IInv
<1>1. ASSUME NEW o \in Orders, Arrive(o) PROVE TypeOK'
  BY <1>1 DEF Arrive, TypeOK, tables
<1>2. ASSUME NEW w \in Workers, NEW o \in Orders, Deliver(w, o) PROVE TypeOK'
  BY <1>2, OrderAssumption DEF Deliver, TypeOK, tables
<1>3. ASSUME NEW w \in Workers, Ack(w) PROVE TypeOK'
  BY <1>3 DEF Ack, TypeOK, tables, messages
<1>4. ASSUME NEW w \in Workers, LockOrder(w) \/ Duplicate(w) PROVE TypeOK'
  BY <1>4 DEF LockOrder, Duplicate, TypeOK, tables, messages
<1>5. ASSUME NEW w \in Workers, NEW p \in Stocked, LockRow(w, p) PROVE TypeOK'
  <2>1. /\ rows' \in [Workers -> SUBSET Stocked]
        /\ seen' \in [Workers -> [Products -> Nat]]
    BY <1>5, ProductAssumption DEF LockRow, TypeOK
  <2> QED
    BY <1>5, <2>1 DEF LockRow, TypeOK, tables, messages
<1>6. ASSUME NEW w \in Workers, Commit(w) PROVE TypeOK'
  <2>1. /\ rows' \in [Workers -> SUBSET Stocked]
        /\ seen' \in [Workers -> [Products -> Nat]]
    BY <1>6, UnlockType DEF Commit
  <2>2. pc' = [pc EXCEPT ![w] = "ack"] /\ Decide(w) /\ pc[w] = "stock"
    BY <1>6, NoBackstop DEF Commit, BackstopsNeverFire, ReadyToDecide
  <2>3. /\ stock' \in [Stocked -> Nat]
        /\ reservation' \in [Orders -> Statuses \cup {"none"}]
        /\ events' \in [Orders -> Seq(Statuses)]
    BY <1>6, <2>2, DecideType DEF Commit
  <2> QED
    BY <1>6, <2>1, <2>2, <2>3 DEF Commit, TypeOK, messages
<1>7. ASSUME NEW w \in Workers, CommitLost(w) PROVE TypeOK'
  <2>1. /\ rows' \in [Workers -> SUBSET Stocked]
        /\ seen' \in [Workers -> [Products -> Nat]]
    BY <1>7, UnlockType DEF CommitLost
  <2>2. /\ stock' \in [Stocked -> Nat]
        /\ reservation' \in [Orders -> Statuses \cup {"none"}]
        /\ events' \in [Orders -> Seq(Statuses)]
    BY <1>7, DecideType DEF CommitLost
  <2>3. pc[w] = "stock" /\ RetryOrRequeue(w)
    BY <1>7 DEF CommitLost, ReadyToDecide
  <2> QED
    BY <1>7, <2>1, <2>2, <2>3, RetryEffect
       DEF CommitLost, TypeOK, Fault
<1>8. ASSUME NEW w \in Workers, Fail(w) PROVE TypeOK'
  <2>1. /\ rows' \in [Workers -> SUBSET Stocked]
        /\ seen' \in [Workers -> [Products -> Nat]]
    BY <1>8, UnlockType DEF Fail
  <2>2. pc[w] # "idle" /\ RetryOrRequeue(w)
    BY <1>8 DEF Fail
  <2> QED
    BY <1>8, <2>1, <2>2, RetryEffect
       DEF Fail, TypeOK, Fault, tables
<1>9. ASSUME NEW w \in Workers, AckLost(w) PROVE TypeOK'
  BY <1>9, OrderOf DEF AckLost, TypeOK, tables, Fault
<1>10. CASE UNCHANGED vars
  BY <1>10 DEF TypeOK, vars
<1> QED
  BY <1>1, <1>2, <1>3, <1>4, <1>5, <1>6, <1>7, <1>8, <1>9, <1>10
     DEF Next, WorkerStep, WorkerFault

\* A step of the transactions leaves worker w as it is, or is its own: it
\* takes the order's lock, locks a row, or ends with nothing locked.
LEMMA WorkerEffect ==
  ASSUME IInv, [Next]_vars, NEW w \in Workers
  PROVE  \/ /\ pc'[w] = pc[w] /\ order'[w] = order[w]
            /\ rows'[w] = rows[w] /\ seen'[w] = seen[w]
         \/ /\ LockOrder(w)
            /\ pc'[w] = "stock" /\ order'[w] = order[w]
            /\ rows'[w] = rows[w] /\ seen'[w] = seen[w]
         \/ /\ \E p \in Stocked :
                 /\ LockRow(w, p)
                 /\ rows'[w] = rows[w] \cup {p}
                 /\ seen'[w] = [seen[w] EXCEPT ![p] = stock[p]]
            /\ pc'[w] = pc[w] /\ order'[w] = order[w]
         \/ pc'[w] # "stock" /\ rows'[w] = {} /\ seen'[w] = NothingSeen
<1> USE DEF IInv
<1>0. pc[w] # "stock" => rows[w] = {} /\ seen[w] = NothingSeen
  BY DEF RowsInv, SeenInv, TypeOK, NothingSeen
<1>1. ASSUME NEW o \in Orders, Arrive(o)
      PROVE UNCHANGED <<pc, order, rows, seen>>
  BY <1>1 DEF Arrive
<1>2. ASSUME NEW v \in Workers, NEW o \in Orders, Deliver(v, o)
      PROVE  /\ v = w => pc'[w] # "stock" /\ pc[w] # "stock"
             /\ v # w => pc'[w] = pc[w] /\ order'[w] = order[w]
             /\ UNCHANGED <<rows, seen>>
  BY <1>2 DEF Deliver, TypeOK
<1>3. ASSUME NEW v \in Workers, Ack(v) \/ AckLost(v) \/ Duplicate(v)
      PROVE  /\ v = w => pc'[w] # "stock" /\ pc[w] # "stock"
             /\ v # w => pc'[w] = pc[w] /\ order'[w] = order[w]
             /\ UNCHANGED <<rows, seen>>
  BY <1>3 DEF Ack, AckLost, Duplicate, TypeOK
<1>4. ASSUME NEW v \in Workers, LockOrder(v)
      PROVE  /\ v = w => pc'[w] = "stock"
             /\ v # w => pc'[w] = pc[w]
             /\ UNCHANGED <<order, rows, seen>>
  BY <1>4 DEF LockOrder, TypeOK
<1>5. ASSUME NEW v \in Workers, NEW p \in Stocked, LockRow(v, p)
      PROVE  /\ v = w => /\ rows'[w] = rows[w] \cup {p}
                         /\ seen'[w] = [seen[w] EXCEPT ![p] = stock[p]]
             /\ v # w => rows'[w] = rows[w] /\ seen'[w] = seen[w]
             /\ UNCHANGED <<pc, order>>
  BY <1>5, ProductAssumption DEF LockRow, TypeOK
<1>6. ASSUME NEW v \in Workers, Commit(v) \/ CommitLost(v) \/ Fail(v)
      PROVE  /\ v = w => pc'[w] # "stock" /\ rows'[w] = {} /\ seen'[w] = NothingSeen
             /\ v # w => /\ pc'[w] = pc[w] /\ order'[w] = order[w]
                         /\ rows'[w] = rows[w] /\ seen'[w] = seen[w]
  <2>1. Unlock(v)
    BY <1>6 DEF Commit, CommitLost, Fail
  <2>2. CASE Commit(v)
    BY <2>1, <2>2, UnlockType DEF Commit, TypeOK
  <2>3. CASE CommitLost(v) \/ Fail(v)
    <3>1. RetryOrRequeue(v) /\ pc[v] # "idle"
      BY <2>3 DEF CommitLost, Fail, ReadyToDecide
    <3> QED
      BY <2>1, <3>1, UnlockType, RetryEffect
  <2> QED
    BY <1>6, <2>2, <2>3
<1>7. CASE UNCHANGED vars
  BY <1>7 DEF vars
<1> QED
  BY <1>0, <1>1, <1>2, <1>3, <1>4, <1>5, <1>6, <1>7
     DEF Next, WorkerStep, WorkerFault

LEMMA RowsStep == IInv /\ [Next]_vars => RowsInv'
<1> SUFFICES ASSUME IInv, [Next]_vars, NEW w \in Workers, pc'[w] # "stock"
             PROVE  rows'[w] = {}
  BY DEF RowsInv
<1> QED
  BY WorkerEffect DEF IInv, RowsInv, LockRow

LEMMA RowLockStep == IInv /\ [Next]_vars => RowLockInv'
<1> SUFFICES ASSUME IInv, [Next]_vars,
                    NEW v \in Workers, NEW w \in Workers, v # w
             PROVE  rows'[v] \cap rows'[w] = {}
  BY DEF RowLockInv
<1>1. rows[v] \cap rows[w] = {}
  BY DEF IInv, RowLockInv
<1>2. ASSUME NEW p \in Stocked, LockRow(v, p)
      PROVE  rows'[v] = rows[v] \cup {p} /\ rows'[w] = rows[w] /\ p \notin rows[w]
  BY <1>2 DEF LockRow, RowLocked, IInv, TypeOK
<1>3. ASSUME NEW p \in Stocked, LockRow(w, p)
      PROVE  rows'[w] = rows[w] \cup {p} /\ rows'[v] = rows[v] /\ p \notin rows[v]
  BY <1>3 DEF LockRow, RowLocked, IInv, TypeOK
<1>4. \/ rows'[v] \in {rows[v], {}} \/ \E p \in Stocked : LockRow(v, p)
  BY WorkerEffect
<1>5. \/ rows'[w] \in {rows[w], {}} \/ \E p \in Stocked : LockRow(w, p)
  BY WorkerEffect
<1> QED
  BY <1>1, <1>2, <1>3, <1>4, <1>5

LEMMA OrderLockStep == IInv /\ [Next]_vars => OrderLockInv'
<1> SUFFICES ASSUME IInv, [Next]_vars,
                    NEW v \in Workers, NEW w \in Workers, v # w,
                    pc'[v] = "stock", pc'[w] = "stock"
             PROVE  order'[v] # order'[w]
  BY DEF OrderLockInv
<1>1. ASSUME NEW x \in Workers, pc'[x] = "stock"
      PROVE  order'[x] = order[x] /\ (pc[x] = "stock" \/ LockOrder(x))
  BY <1>1, WorkerEffect DEF LockRow
<1>2. ASSUME NEW x \in Workers, NEW y \in Workers, x # y, LockOrder(x), pc'[y] = "stock"
      PROVE  order[x] # order[y]
  <2>1. pc[y] = "stock"
    BY <1>2 DEF LockOrder, IInv, TypeOK
  <2> QED
    BY <1>2, <2>1 DEF LockOrder, OrderLocked
<1> QED
  BY <1>1, <1>2 DEF IInv, OrderLockInv

\* The rows of the table that a step changes are locked by the worker that
\* changes them.
LEMMA StockEffect ==
  ASSUME IInv, [Next]_vars, NEW p \in Stocked, stock'[p] # stock[p]
  PROVE  \E w \in Workers : p \in rows[w] /\ rows'[w] = {}
<1>1. ASSUME NEW w \in Workers, ReadyToDecide(w), Decide(w), Unlock(w)
      PROVE  p \in rows[w] /\ rows'[w] = {}
  <2>1. \A q \in Stocked \ rows[w] : stock'[q] = stock[q]
    BY <1>1, DecideType
  <2> QED
    BY <1>1, <2>1, UnlockType DEF IInv
<1>2. ASSUME NEW w \in Workers, Commit(w) \/ CommitLost(w)
      PROVE  p \in rows[w] /\ rows'[w] = {}
  BY <1>1, <1>2 DEF Commit, CommitLost, tables
<1>3. ASSUME NEW w \in Workers,
             \/ Ack(w) \/ AckLost(w) \/ LockOrder(w) \/ Duplicate(w) \/ Fail(w)
             \/ \E q \in Stocked : LockRow(w, q)
             \/ \E o \in Orders : Deliver(w, o)
      PROVE  FALSE
  BY <1>3 DEF Ack, AckLost, LockOrder, Duplicate, Fail, LockRow, Deliver, tables
<1>4. ASSUME NEW o \in Orders, Arrive(o) PROVE FALSE
  BY <1>4 DEF Arrive, tables
<1> QED
  BY <1>2, <1>3, <1>4 DEF Next, WorkerStep, WorkerFault, vars

LEMMA SeenStep == IInv /\ [Next]_vars => SeenInv'
<1> SUFFICES ASSUME IInv, [Next]_vars,
                    NEW w \in Workers, NEW p \in Products
             PROVE  seen'[w][p] = IF p \in rows'[w] THEN stock'[p] ELSE 0
  BY DEF SeenInv
<1>1. seen[w][p] = IF p \in rows[w] THEN stock[p] ELSE 0
  BY DEF IInv, SeenInv
<1>2. rows[w] \subseteq Stocked /\ seen[w] \in [Products -> Nat]
  BY DEF IInv, TypeOK
<1>3. ASSUME p \in rows[w], stock'[p] # stock[p] PROVE rows'[w] = {}
  BY <1>2, <1>3, StockEffect DEF IInv, RowLockInv
<1>4. CASE rows'[w] = rows[w] /\ seen'[w] = seen[w]
  BY <1>1, <1>3, <1>4
<1>5. ASSUME NEW q \in Stocked, LockRow(w, q),
             rows'[w] = rows[w] \cup {q},
             seen'[w] = [seen[w] EXCEPT ![q] = stock[q]]
      PROVE  seen'[w][p] = IF p \in rows'[w] THEN stock'[p] ELSE 0
  BY <1>1, <1>2, <1>5 DEF LockRow, tables
<1>6. CASE rows'[w] = {} /\ seen'[w] = NothingSeen
  BY <1>6 DEF NothingSeen
<1> QED
  BY <1>4, <1>5, <1>6, WorkerEffect

\* A decision is made once, by the worker that holds the order's lock.
LEMMA DecisionEffect ==
  ASSUME IInv, [Next]_vars, NEW o \in Orders
  PROVE  \/ reservation'[o] = reservation[o]
         \/ /\ reservation[o] = "none" /\ reservation'[o] # "none"
            /\ \E w \in Workers : /\ pc[w] = "stock" /\ order[w] = o
                                 /\ pc'[w] # "stock"
<1>1. ASSUME NEW w \in Workers, ReadyToDecide(w), Decide(w), pc'[w] # "stock"
      PROVE  \/ reservation'[o] = reservation[o]
             \/ /\ reservation[o] = "none" /\ reservation'[o] # "none"
                /\ pc[w] = "stock" /\ order[w] = o /\ pc'[w] # "stock"
  <2>1. pc[w] = "stock" /\ reservation[order[w]] = "none"
    BY <1>1 DEF ReadyToDecide, IInv, DecidedInv
  <2>2. /\ reservation'[order[w]] \in Statuses
        /\ \A q \in Orders \ {order[w]} : reservation'[q] = reservation[q]
    BY <1>1, DecideType
  <2> QED
    BY <1>1, <2>1, <2>2 DEF Statuses
<1>2. ASSUME NEW w \in Workers, Commit(w) PROVE Decide(w) /\ pc'[w] # "stock"
  BY <1>2, NoBackstop DEF Commit, BackstopsNeverFire, IInv, TypeOK
<1>3. ASSUME NEW w \in Workers, CommitLost(w) PROVE Decide(w) /\ pc'[w] # "stock"
  <2>1. RetryOrRequeue(w) /\ Decide(w) /\ pc[w] = "stock" /\ TypeOK
    BY <1>3 DEF CommitLost, ReadyToDecide, IInv
  <2> QED
    BY <2>1, RetryEffect
<1>4. ASSUME NEW w \in Workers, Commit(w) \/ CommitLost(w)
      PROVE  ReadyToDecide(w) /\ Decide(w) /\ pc'[w] # "stock"
  BY <1>2, <1>3, <1>4 DEF Commit, CommitLost
<1>5. ASSUME NEW w \in Workers,
             \/ Ack(w) \/ AckLost(w) \/ LockOrder(w) \/ Duplicate(w) \/ Fail(w)
             \/ \E q \in Stocked : LockRow(w, q)
             \/ \E q \in Orders : Deliver(w, q)
      PROVE  reservation' = reservation
  BY <1>5 DEF Ack, AckLost, LockOrder, Duplicate, Fail, LockRow, Deliver, tables
<1>6. ASSUME NEW q \in Orders, Arrive(q) PROVE reservation' = reservation
  BY <1>6 DEF Arrive, tables
<1> QED
  BY <1>1, <1>4, <1>5, <1>6 DEF Next, WorkerStep, WorkerFault, vars

LEMMA DecidedStep == IInv /\ [Next]_vars => DecidedInv'
<1> SUFFICES ASSUME IInv, [Next]_vars, NEW w \in Workers
             PROVE  /\ pc'[w] = "stock" => reservation'[order'[w]] = "none"
                    /\ pc'[w] = "ack" => reservation'[order'[w]] # "none"
  BY DEF DecidedInv
<1>1. ASSUME pc'[w] = "stock" PROVE reservation'[order'[w]] = "none"
  <2>1. order'[w] = order[w] /\ (pc[w] = "stock" \/ LockOrder(w))
    BY <1>1, WorkerEffect DEF LockRow
  <2>2. order[w] \in Orders /\ reservation[order[w]] = "none"
    BY <2>1, OrderOf DEF LockOrder, IInv, DecidedInv
  <2>3. ASSUME NEW v \in Workers, pc[v] = "stock", order[v] = order[w],
               pc'[v] # "stock"
        PROVE  FALSE
    <3>1. v # w
      BY <1>1, <2>3
    <3>2. pc[w] # "stock" /\ LockOrder(w)
      BY <2>1, <2>3, <3>1 DEF IInv, OrderLockInv
    <3> QED
      BY <2>3, <3>1, <3>2 DEF LockOrder, OrderLocked
  <2> QED
    BY <2>1, <2>2, <2>3, DecisionEffect
<1>2. ASSUME pc'[w] = "ack" PROVE reservation'[order'[w]] # "none"
  <2>1. CASE pc[w] = "ack" /\ order'[w] = order[w]
    BY <2>1, OrderOf, DecisionEffect DEF IInv, DecidedInv
  <2>2. CASE Duplicate(w)
    BY <2>2 DEF Duplicate, tables
  <2>3. CASE Commit(w)
    <3>1. Decide(w) /\ ReadyToDecide(w) /\ order' = order
      BY <2>3, NoBackstop DEF Commit, BackstopsNeverFire
    <3> QED
      BY <3>1, DecideType DEF Statuses
  <2>4. Duplicate(w) \/ Commit(w) \/ (pc[w] = "ack" /\ order'[w] = order[w])
    <3>1. ASSUME NEW v \in Workers, NEW o \in Orders,
                 Deliver(v, o)
          PROVE  pc[w] = "ack" /\ order'[w] = order[w]
      BY <1>2, <3>1 DEF Deliver, IInv, TypeOK
    <3>2. ASSUME NEW v \in Workers, CommitLost(v) \/ Fail(v)
          PROVE  pc[w] = "ack" /\ order'[w] = order[w]
      <4>1. RetryOrRequeue(v) /\ pc[v] # "idle" /\ TypeOK
        BY <3>2 DEF CommitLost, Fail, ReadyToDecide, IInv
      <4> QED
        BY <1>2, <4>1, RetryEffect
    <3>3. ASSUME NEW v \in Workers, v # w, Duplicate(v) \/ Commit(v)
          PROVE  pc[w] = "ack" /\ order'[w] = order[w]
      BY <1>2, <3>3 DEF Duplicate, Commit, IInv, TypeOK
    <3>4. ASSUME NEW v \in Workers, NEW p \in Stocked, LockRow(v, p)
          PROVE  pc[w] = "ack" /\ order'[w] = order[w]
      BY <1>2, <3>4 DEF LockRow
    <3>5. ASSUME NEW o \in Orders, Arrive(o)
          PROVE  pc[w] = "ack" /\ order'[w] = order[w]
      BY <1>2, <3>5 DEF Arrive
    <3>6. CASE UNCHANGED vars
      BY <1>2, <3>6 DEF vars
    <3>7. ASSUME NEW v \in Workers, Ack(v) \/ AckLost(v) \/ LockOrder(v)
          PROVE  pc[w] = "ack" /\ order'[w] = order[w]
      BY <1>2, <3>7 DEF Ack, AckLost, LockOrder, IInv, TypeOK
    <3> QED
      BY <3>1, <3>2, <3>3, <3>4, <3>5, <3>6, <3>7
         DEF Next, WorkerStep, WorkerFault
  <2> QED
    BY <2>1, <2>2, <2>3, <2>4
<1> QED
  BY <1>1, <1>2

\* Where an order's messages go: each step keeps the account of what was sent,
\* is queued and is in hand.
LEMMA MessageStep == IInv /\ [Next]_vars => SentInv' /\ AckedIsDecided'
<1> SUFFICES ASSUME IInv, [Next]_vars PROVE SentInv' /\ AckedIsDecided'
  OBVIOUS
<1> USE DEF IInv
<1>0. \A o \in Orders : reservation'[o] # reservation[o] => reservation'[o] # "none"
  BY DecisionEffect
<1>1. ASSUME NEW o \in Orders, Arrive(o) PROVE SentInv' /\ AckedIsDecided'
  BY <1>1, OrderOf DEF Arrive, SentInv, AckedIsDecided, TypeOK, tables
<1>2. ASSUME NEW w \in Workers, NEW o \in Orders, Deliver(w, o)
      PROVE  SentInv' /\ AckedIsDecided'
  <2>1. /\ order'[w] = o /\ sent[o] > 0
        /\ \A v \in Workers \ {w} : order'[v] = order[v] /\ pc'[v] = pc[v]
        /\ \A q \in Orders \ {o} : queue'[q] = queue[q]
        /\ queue'[o] = queue[o] - 1
        /\ pc[w] = "idle" /\ order[w] = NoOrder
        /\ UNCHANGED <<sent, reservation>>
    BY <1>2 DEF Deliver, TypeOK, SentInv, tables
  <2>2. SentInv'
    BY <2>1 DEF SentInv, TypeOK
  <2>3. AckedIsDecided'
    BY <2>1, OrderAssumption DEF AckedIsDecided
  <2> QED
    BY <2>2, <2>3
<1>3. ASSUME NEW w \in Workers, Ack(w) PROVE SentInv' /\ AckedIsDecided'
  <2>1. order[w] \in Orders /\ reservation[order[w]] # "none"
    BY <1>3, OrderOf DEF Ack, DecidedInv
  <2>2. /\ \A v \in Workers \ {w} : order'[v] = order[v] /\ pc'[v] = pc[v]
        /\ pc'[w] = "idle"
        /\ UNCHANGED <<sent, queue, reservation>>
    BY <1>3 DEF Ack, TypeOK, tables, messages
  <2> QED
    BY <2>1, <2>2 DEF SentInv, AckedIsDecided
<1>4. ASSUME NEW w \in Workers, sent' = sent, order[w] \in Orders, pc[w] # "idle",
             \/ pc'[w] # "idle" /\ order'[w] = order[w] /\ queue' = queue
             \/ /\ pc'[w] = "idle" /\ queue'[order[w]] > 0
                /\ \A o \in Orders : o # order[w] => queue'[o] = queue[o],
             \A v \in Workers \ {w} : pc'[v] = pc[v] /\ order'[v] = order[v]
      PROVE  SentInv' /\ AckedIsDecided'
  <2>1. CASE pc'[w] # "idle" /\ order'[w] = order[w] /\ queue' = queue
    BY <1>0, <1>4, <2>1 DEF SentInv, AckedIsDecided
  <2>2. CASE /\ pc'[w] = "idle" /\ queue'[order[w]] > 0
             /\ \A o \in Orders : o # order[w] => queue'[o] = queue[o]
    BY <1>0, <1>4, <2>2 DEF SentInv, AckedIsDecided
  <2> QED
    BY <1>4, <2>1, <2>2
<1>5. ASSUME NEW w \in Workers, LockOrder(w) \/ Duplicate(w)
      PROVE  SentInv' /\ AckedIsDecided'
  <2>1. order[w] \in Orders
    BY <1>5, OrderOf DEF LockOrder, Duplicate
  <2> QED
    BY <1>4, <1>5, <2>1 DEF LockOrder, Duplicate, messages, TypeOK
<1>6. ASSUME NEW w \in Workers, Commit(w) PROVE SentInv' /\ AckedIsDecided'
  <2>1. order[w] \in Orders
    BY <1>6, OrderOf DEF Commit, ReadyToDecide
  <2> QED
    BY <1>4, <1>6, <2>1 DEF Commit, ReadyToDecide, messages, TypeOK
<1>7. ASSUME NEW w \in Workers, CommitLost(w) \/ Fail(w)
      PROVE  SentInv' /\ AckedIsDecided'
  <2>1. pc[w] # "idle" /\ RetryOrRequeue(w) /\ sent' = sent
    BY <1>7 DEF CommitLost, Fail, ReadyToDecide
  <2>2. order[w] \in Orders
    BY <2>1, OrderOf
  <2>3. \/ pc'[w] # "idle" /\ order'[w] = order[w] /\ queue' = queue
        \/ /\ pc'[w] = "idle" /\ queue'[order[w]] > 0
           /\ \A o \in Orders : o # order[w] => queue'[o] = queue[o]
    BY <2>1, RetryEffect
  <2>4. \A v \in Workers \ {w} : pc'[v] = pc[v] /\ order'[v] = order[v]
    BY <2>1, RetryEffect
  <2> QED
    BY <1>4, <2>1, <2>2, <2>3, <2>4
<1>8. ASSUME NEW w \in Workers, AckLost(w) PROVE SentInv' /\ AckedIsDecided'
  <2>1. order[w] \in Orders
    BY <1>8, OrderOf DEF AckLost
  <2>2. /\ pc[w] # "idle" /\ pc'[w] = "idle" /\ sent' = sent
        /\ \A v \in Workers \ {w} : pc'[v] = pc[v] /\ order'[v] = order[v]
    BY <1>8 DEF AckLost, TypeOK
  <2>3. queue' = [queue EXCEPT ![order[w]] = queue[order[w]] + 1]
    BY <1>8 DEF AckLost
  <2>4. /\ queue'[order[w]] > 0
        /\ \A o \in Orders : o # order[w] => queue'[o] = queue[o]
    BY <2>1, <2>3 DEF TypeOK
  <2> QED
    BY <1>4, <2>1, <2>2, <2>4
<1>9. ASSUME NEW w \in Workers, NEW p \in Stocked, LockRow(w, p)
      PROVE  SentInv' /\ AckedIsDecided'
  BY <1>9 DEF LockRow, SentInv, AckedIsDecided, tables, messages
<1>10. CASE UNCHANGED vars
  BY <1>10 DEF SentInv, AckedIsDecided, vars
<1> QED
  BY <1>1, <1>2, <1>3, <1>5, <1>6, <1>7, <1>8, <1>9, <1>10
     DEF Next, WorkerStep, WorkerFault

LEMMA AscendStep == IInv /\ [Next]_vars => AscendInv'
<1> SUFFICES ASSUME IInv, [Next]_vars, NEW w \in Workers, pc'[w] = "stock",
                    NEW p \in rows'[w], NEW q \in Missing(w)'
             PROVE  p < q
  BY DEF AscendInv
<1> USE DEF IInv
<1>1. order'[w] = order[w] /\ q \in (Wanted(order[w]) \cap Stocked) \ rows'[w]
  BY WorkerEffect DEF Missing, Wanted
<1>2. CASE rows'[w] = rows[w] /\ pc[w] = "stock"
  BY <1>1, <1>2 DEF AscendInv, Missing
<1>3. CASE LockOrder(w) /\ rows'[w] = rows[w]
  BY <1>3 DEF LockOrder, RowsInv
<1>4. ASSUME NEW r \in Stocked, LockRow(w, r), rows'[w] = rows[w] \cup {r}
      PROVE  p < q
  <2>1. q \in Missing(w) /\ q # r /\ r \in Missing(w)
    BY <1>1, <1>4 DEF Missing, LockRow, NextRow
  <2>2. r < q
    BY <1>4, <2>1, ProductAssumption DEF LockRow, NextRow, Missing
  <2>3. \A x \in rows[w] : x < q
    BY <1>4, <2>1 DEF AscendInv, LockRow
  <2> QED
    BY <1>4, <2>2, <2>3
<1> QED
  BY <1>2, <1>3, <1>4, WorkerEffect
-----------------------------------------------------------------------------
THEOREM Invariance == Spec => []IInv
<1>1. IInv /\ [Next]_vars => IInv'
  BY TypeStep, RowsStep, RowLockStep, OrderLockStep, SeenStep, DecidedStep,
     MessageStep, AscendStep DEF IInv
<1> QED
  BY InitInv, <1>1, PTL DEF Spec

\* Every variable keeps its type; in particular no quantity falls below zero.
THEOREM TypeCorrect == Spec => []TypeOK
<1>1. IInv => TypeOK
  BY DEF IInv
<1> QED
  BY Invariance, <1>1, PTL

\* The advisory lock and the row locks alone keep the constraints, and the row
\* count of decrementStock, from ever refusing a transaction.
THEOREM LocksSuffice == Spec => []BackstopsNeverFire
BY Invariance, NoBackstop, PTL

\* A PaymentAuthorized that left the queue for good was decided.
THEOREM NoPaymentForgotten == Spec => []AckedIsDecided
<1>1. IInv => AckedIsDecided
  BY DEF IInv
<1> QED
  BY Invariance, <1>1, PTL
-----------------------------------------------------------------------------
(* The stock table and the reservations.                                    *)

Reserved == {o \in Orders : reservation[o] = "Reserved"}
Listed(p) == [o \in Orders |-> ListedQuantity(Items[o], p)]

\* Finitely many orders are reserved, and the stock misses what they list.
StockInv ==
  /\ IsFiniteSet(Reserved)
  /\ \A p \in Stocked :
       InitialStock[p] = stock[p] + SumFunctionOnSet(Listed(p), Reserved)

\* What the orders list can be added up.
LEMMA ListedSummable ==
  ASSUME NEW p \in Stocked, NEW S \in SUBSET Orders, IsFiniteSet(S)
  PROVE  Summable(Listed(p), S)
BY RequestedType, ProductAssumption DEF Summable, Listed

LEMMA DecideKeepsStock ==
  ASSUME IInv, StockInv, NEW w \in Workers, ReadyToDecide(w), Decide(w)
  PROVE  StockInv'
<1> DEFINE o == order[w]
<1>1. o \in Orders /\ reservation[o] = "none"
  BY OrderOf DEF IInv, ReadyToDecide, DecidedInv
<1>2. reservation' = [reservation EXCEPT ![o] = Decision(w)]
  BY DEF Decide
<1>3. CASE Decision(w) = "Rejected"
  <2>1. Reserved' = Reserved
    BY <1>1, <1>2, <1>3 DEF Reserved, IInv, TypeOK
  <2>2. stock' = stock
    BY <1>3 DEF Decide
  <2>3. \A p \in Stocked : Listed(p)' = Listed(p)
    BY DEF Listed
  <2> QED
    BY <2>1, <2>2, <2>3 DEF StockInv
<1>4. CASE Decision(w) = "Reserved"
  <2>1. Reserved' = Reserved \cup {o} /\ o \notin Reserved /\ Reserved \in SUBSET Orders
    BY <1>1, <1>2, <1>4 DEF Reserved, IInv, TypeOK
  <2>2. IsFiniteSet(Reserved) /\ IsFiniteSet(Reserved')
    BY <2>1, FS_AddElement DEF StockInv
  <2>3. ASSUME NEW p \in Stocked
        PROVE  InitialStock[p] = stock'[p] + SumFunctionOnSet(Listed(p), Reserved')
    <3>1. stock'[p] = stock[p] - Requested[o][p]
      BY <1>4 DEF Decide, StockAfter
    <3>2. Requested[o][p] = Listed(p)[o] /\ Requested[o][p] \in Nat
      BY <1>1, RequestedType, ProductAssumption DEF Listed
    <3>3. Summable(Listed(p), Reserved) /\ Summable(Listed(p), Reserved')
      BY <1>1, <2>1, <2>2, ListedSummable
    <3>4. SumFunctionOnSet(Listed(p), Reserved')
            = Listed(p)[o] + SumFunctionOnSet(Listed(p), Reserved)
      <4>1. o \in Reserved' /\ Reserved' \ {o} = Reserved
        BY <2>1
      <4> QED
        BY <3>3, <4>1, SumOfLast
    <3>5. SumFunctionOnSet(Listed(p), Reserved) \in Nat /\ stock[p] \in Nat
      BY <3>3, SumType DEF IInv, TypeOK
    <3>6. InitialStock[p] = stock[p] + SumFunctionOnSet(Listed(p), Reserved)
      BY DEF StockInv
    <3> QED
      BY <3>1, <3>2, <3>4, <3>5, <3>6
  <2> QED
    BY <2>2, <2>3 DEF StockInv, Listed
<1> QED
  BY <1>3, <1>4 DEF Decision

LEMMA StockInvStep == IInv /\ StockInv /\ [Next]_vars => StockInv'
<1> SUFFICES ASSUME IInv, StockInv, [Next]_vars PROVE StockInv'
  OBVIOUS
<1>1. CASE UNCHANGED <<stock, reservation>>
  BY <1>1 DEF StockInv, Reserved, Listed
<1>2. ASSUME NEW w \in Workers, ReadyToDecide(w), Decide(w) PROVE StockInv'
  BY <1>2, DecideKeepsStock
<1>3. \/ UNCHANGED <<stock, reservation>>
      \/ \E w \in Workers : ReadyToDecide(w) /\ Decide(w)
  BY DEF Next, WorkerStep, WorkerFault, Arrive, Deliver, Ack, AckLost, LockOrder,
         Duplicate, LockRow, Commit, CommitLost, Fail, tables, vars
<1> QED
  BY <1>1, <1>2, <1>3

\* Nothing is sold that no reserved order lists, and nothing that is listed is
\* forgotten: the stock table stays the seeded stock without the lines of the
\* reserved orders, however many there are and however they repeat a product.
THEOREM StockBalances == Spec => []StockMatchesReservations
<1>1. Init => StockInv
  <2> SUFFICES ASSUME Init PROVE StockInv
    OBVIOUS
  <2>1. Reserved = {}
    BY DEF Init, Reserved
  <2>2. \A p \in Stocked : SumFunctionOnSet(Listed(p), Reserved) = 0
    BY <2>1, SumOfNone
  <2>3. \A p \in Stocked : stock[p] = InitialStock[p] /\ InitialStock[p] \in Nat
    BY QuantityAssumption DEF Init
  <2> QED
    BY <2>1, <2>2, <2>3, FS_EmptySet DEF StockInv
<1>2. StockInv => StockMatchesReservations
  BY DEF StockInv, StockMatchesReservations, Reserved, Listed
<1> QED
  BY <1>1, <1>2, StockInvStep, Invariance, PTL DEF Spec
-----------------------------------------------------------------------------
(* Deadlock freedom.  Every row a waiting transaction has locked is below   *)
(* the row it waits for, so along a chain of waiting transactions the rows  *)
(* go up; who waits for the highest row of a group waits for an outsider.   *)

\* A worker waits for an order or for a row; rows are waited for upwards.
LEMMA WaitAscends ==
  ASSUME IInv, NEW w \in Workers, NEW v \in Workers, WaitsFor(w, v)
  PROVE  /\ pc[v] = "stock"
         /\ pc[w] = "stock" => \A p \in Missing(w), q \in Missing(v) :
              NextRow(w, p) => p < q
<1>1. pc[v] = "stock"
  BY DEF WaitsFor, IInv, RowsInv
<1>2. ASSUME pc[w] = "stock", NEW p \in Missing(w), NEW q \in Missing(v),
             NextRow(w, p)
      PROVE  p < q
  <2>1. PICK r \in rows[v] : NextRow(w, r)
    BY <1>2 DEF WaitsFor
  <2>2. p <= r /\ r <= p /\ p \in Nat /\ r \in Nat
    BY <1>2, <2>1, ProductAssumption DEF NextRow, Missing
  <2>3. r = p
    BY <2>2
  <2> QED
    BY <1>1, <1>2, <2>1, <2>3 DEF IInv, AscendInv
<1> QED
  BY <1>1, <1>2

LEMMA WaitsEnd ==
  ASSUME NEW N \in Nat, Products \subseteq 0..N
  PROVE  IInv => NoWaitCycle
<1> SUFFICES ASSUME IInv, NEW G \in SUBSET Workers, G # {},
                    \A w \in G : \E v \in G : WaitsFor(w, v)
             PROVE  FALSE
  BY DEF NoWaitCycle
<1> DEFINE Waited(w) == {p \in Missing(w) : NextRow(w, p)}
           T == UNION {Waited(w) : w \in {x \in G : pc[x] = "stock"}}
<1>1. ASSUME NEW w \in G, pc[w] = "stock"
      PROVE  \E v \in G, p \in Waited(w) :
               WaitsFor(w, v) /\ pc[v] = "stock" /\ NextRow(w, p)
  BY <1>1, WaitAscends DEF WaitsFor, NextRow
<1>2. PICK w \in G : pc[w] = "stock"
  BY WaitAscends
<1>3. T # {}
  BY <1>1, <1>2
<1>4. T \subseteq 0..N
  BY DEF Missing, Wanted
<1>5. PICK m \in T : \A t \in T : t <= m
  BY <1>3, <1>4, Largest
<1>6. PICK x \in G : pc[x] = "stock" /\ m \in Waited(x)
  OBVIOUS
<1>7. PICK v \in G : WaitsFor(x, v) /\ pc[v] = "stock"
  BY <1>1, <1>6
<1>8. PICK q \in Waited(v) : NextRow(v, q)
  BY <1>1, <1>7
<1>9. q \in T /\ m < q
  BY <1>6, <1>7, <1>8, WaitAscends
<1> QED
  BY <1>4, <1>5, <1>9

\* Reservations never deadlock on advisory and row locks, with any number of
\* deliveries in progress and products.
THEOREM DeadlockFree ==
  ASSUME NEW N \in Nat, Products \subseteq 0..N
  PROVE  Spec => []NoWaitCycle
<1>1. IInv => NoWaitCycle
  BY WaitsEnd
<1> QED
  BY Invariance, <1>1, PTL
-----------------------------------------------------------------------------
(* Refinement. *)

\* A commit decides as the promise would, against the stock at that moment.
LEMMA DecideRefines ==
  ASSUME IInv, NEW w \in Workers, ReadyToDecide(w), Decide(w), sent' = sent
  PROVE  Promise!Next
<1> USE DEF IInv, ReadyToDecide
<1>1. order[w] \in Orders /\ sent[order[w]] > 0 /\ reservation[order[w]] = "none"
  BY OrderOf DEF SentInv, DecidedInv
<1>2. \A p \in Products : Requested[order[w]][p] \in Nat
  BY <1>1, RequestedType
<1>3. \A p \in Wanted(order[w]) : seen[w][p] = Promise!Left(p)
  BY ProductAssumption DEF SeenInv, Missing, Wanted, TypeOK, Promise!Left
<1>4. \A p \in Products : Promise!Left(p) \in Nat
  BY DEF TypeOK, Promise!Left
<1>5. Unavailable(w) = {} <=> Promise!Fits(order[w])
  <2>1. Promise!Fits(order[w]) <=>
          \A p \in Wanted(order[w]) : Requested[order[w]][p] <= Promise!Left(p)
    BY <1>2, <1>4 DEF Promise!Fits, Wanted
  <2>2. Wanted(order[w]) \subseteq Products
    BY DEF Wanted
  <2>3. Unavailable(w) = {} <=>
          \A p \in Wanted(order[w]) : Requested[order[w]][p] <= Promise!Left(p)
    BY <1>2, <1>3, <1>4, <2>2 DEF Unavailable
  <2> QED
    BY <2>1, <2>3
<1>6. Promise!Conclude(order[w], Decision(w))
  BY <1>1 DEF Promise!Conclude, Decide
<1>7. CASE Unavailable(w) = {}
  <2>1. Promise!Reserve(order[w])
    BY <1>5, <1>6, <1>7 DEF Promise!Reserve, Decide, Decision, StockAfter
  <2> QED
    BY <1>1, <2>1 DEF Promise!Next
<1>8. CASE Unavailable(w) # {}
  <2>1. Promise!Reject(order[w])
    BY <1>5, <1>6, <1>8 DEF Promise!Reject, Decide, Decision
  <2> QED
    BY <1>1, <2>1 DEF Promise!Next
<1> QED
  BY <1>7, <1>8

LEMMA PromiseStep == IInv /\ [Next]_vars => [Promise!Next]_(Promise!vars)
<1> SUFFICES ASSUME IInv, [Next]_vars PROVE [Promise!Next]_(Promise!vars)
  OBVIOUS
<1>1. ASSUME NEW o \in Orders, Arrive(o) PROVE Promise!Next
  <2>1. {q \in Orders : sent'[q] > 0} = {q \in Orders : sent[q] > 0} \cup {o}
    BY <1>1 DEF Arrive, IInv, TypeOK
  <2>2. Promise!Ask(o)
    BY <1>1, <2>1 DEF Promise!Ask, Arrive, tables
  <2> QED
    BY <2>2 DEF Promise!Next
<1>2. ASSUME NEW w \in Workers, Commit(w) \/ CommitLost(w) PROVE Promise!Next
  <2>1. ReadyToDecide(w) /\ Decide(w) /\ sent' = sent
    BY <1>2, NoBackstop DEF Commit, CommitLost, BackstopsNeverFire, messages
  <2> QED
    BY <2>1, DecideRefines
<1>3. ASSUME NEW w \in Workers,
             \/ Ack(w) \/ AckLost(w) \/ LockOrder(w) \/ Duplicate(w) \/ Fail(w)
             \/ \E p \in Stocked : LockRow(w, p)
             \/ \E o \in Orders : Deliver(w, o)
      PROVE  UNCHANGED Promise!vars
  BY <1>3 DEF Ack, AckLost, LockOrder, Duplicate, Fail, LockRow, Deliver,
              tables, messages, Promise!vars
<1>4. CASE UNCHANGED vars
  BY <1>4 DEF vars, Promise!vars
<1> QED
  BY <1>1, <1>2, <1>3, <1>4 DEF Next, WorkerStep, WorkerFault

\* Concurrent, repeated and failing deliveries amount to reservations that are
\* made one at a time, once per order, against the stock of that moment.
THEOREM Implementation == Spec => PromiseSafe
<1>1. Init => Promise!Init
  BY DEF Init, Promise!Init
<1> QED
  BY <1>1, PromiseStep, Invariance, PTL DEF Spec, PromiseSafe, Promise!Safe
=============================================================================
