---------------------------- MODULE PageMapProofs ----------------------------
(***************************************************************************)
(* What is proved of the page map, the pruned chunks, the filtered tree and the  *)
(* text of a page, for lists and documents of any length.                      *)
(*                                                                         *)
(* MapAssembly: RefsNameTheirElements, BarrierButtonInMap.                    *)
(* AssemblyInv says of each stage which places of the detected list the map    *)
(* holds, in rising order, and that the refs collected so far fit: those found  *)
(* before the budget filter speak of places it may drop or renumber, and only   *)
(* the rematch after it makes them true of the map.                          *)
(*                                                                         *)
(* ChunkPruning: BudgetDropsLeast.  PruneInv types the chunks and decisions of  *)
(* the stages before; the rest is the loop of apply_budget_selection, which     *)
(* drops the first m of an order and stops as soon as it may.                 *)
(*                                                                         *)
(* AomFilter: NoiseOnlyIsGone, RescueKeepsOrder.  AomInv says, while elements   *)
(* are taken out and put back, what is cut off from the tree and why: only      *)
(* noise is; the place kept for an element is the number of its siblings       *)
(* before it, so that putting it back restores document order; a recorded path  *)
(* belongs to a chain of parents that ends at a cut-off element.  Two chains    *)
(* with one path are one chain only while no sibling has gone, which is why     *)
(* the invariant keeps the tree each path was read from.                     *)
(*                                                                         *)
(* PrunedContext: ContextWithinBudget, MinimumContent.  ContextInv says that    *)
(* every compressor writes a list of lines, and a budget is a number, whatever  *)
(* the page; with that, what is left of the budget when a line is cut is what   *)
(* it may take.  The minimum content has either every line of the page that is  *)
(* worth it or as many characters as half of the budget, which are ten tokens.   *)
(*                                                                         *)
(* The operators are folds over sequences, which the provers do not do          *)
(* induction on.  Instead: a non-empty set of numbers has a least member, so    *)
(* what fails after some step fails after a first one (LeastExists); a fold is   *)
(* a function of the beginnings 1..k that takes one step from each to the next  *)
(* (FoldExists, FoldSteps); members of a finite set listed by their rank in a    *)
(* strict total order stand in that order, each once (SortedLists).           *)
(***************************************************************************)
EXTENDS MapAssembly, ChunkPruning, AomFilter, PrunedContext, FiniteSetTheorems, WellFoundedInduction, SequenceTheorems, TLAPS

-----------------------------------------------------------------------------
(***************************************************************************)
(* Numbers: a set of them has a least one, which also serves as induction:     *)
(* what fails for some number fails for a least one.                        *)
(***************************************************************************)
LEMMA LeastExists ==
  ASSUME NEW S \in SUBSET Nat, S # {} PROVE \E i \in S : \A j \in S : i <= j
  <1>1. PICK x \in S : \A y \in S : ~(<<y, x>> \in OpToRel(<, Nat))
    BY NatLessThanWellFounded, WFMin, Zenon
  <1>2. ASSUME NEW y \in S PROVE x <= y
    <2>1. <<y, x>> \notin OpToRel(<, Nat)
      BY <1>1, Zenon
    <2>2. ~(y < x)
      BY <2>1 DEF OpToRel
    <2> QED BY <2>2
  <1> QED BY <1>2

LEMMA MinIsLeast ==
  ASSUME NEW S \in SUBSET Nat, S # {} PROVE Min(S) \in S /\ \A j \in S : Min(S) <= j
  BY LeastExists DEF Min

LEMMA MaxIsGreatest ==
  ASSUME NEW n \in Nat, NEW S \in SUBSET (1..n), S # {}
  PROVE  Max(S) \in S /\ \A j \in S : j <= Max(S)
  <1> DEFINE T == {n - j : j \in S}
  <1>1. T \in SUBSET Nat /\ T # {}
    <2>1. \A j \in S : n - j \in Nat
      OBVIOUS
    <2>2. PICK j \in S : TRUE
      OBVIOUS
    <2>3. n - j \in T
      OBVIOUS
    <2> QED BY <2>1, <2>3
  <1>2. PICK i \in T : \A j \in T : i <= j
    BY <1>1, LeastExists
  <1>3. PICK m \in S : i = n - m
    OBVIOUS
  <1>4. ASSUME NEW j \in S PROVE m >= j
    <2>1. n - j \in T /\ i <= n - j
      BY <1>2
    <2> QED BY <1>3, <2>1
  <1>5. Max(S) \in S /\ \A j \in S : Max(S) >= j
    BY <1>4 DEF Max
  <1> QED BY <1>5

-----------------------------------------------------------------------------
(***************************************************************************)
(* Listing: the members of a finite set of numbers in order.                 *)
(***************************************************************************)
LEMMA RankType ==
  ASSUME NEW S \in SUBSET Nat, IsFiniteSet(S), NEW i
  PROVE  /\ IsFiniteSet({j \in S : j <= i}) /\ Rank(S, i) \in 0..Cardinality(S)
         /\ i \in S => Rank(S, i) > 0
  <1> DEFINE T == {j \in S : j <= i}
  <1>1. T \in SUBSET S
    OBVIOUS
  <1>2. IsFiniteSet(T) /\ Cardinality(T) <= Cardinality(S) /\ Cardinality(T) \in Nat /\ Cardinality(S) \in Nat
    BY <1>1, FS_Subset, FS_CardinalityType
  <1>3. i \in S => Cardinality(T) # 0
    <2> SUFFICES ASSUME i \in S, Cardinality(T) = 0 PROVE FALSE
      OBVIOUS
    <2>1. T = {}
      BY <1>2, FS_EmptySet
    <2> QED BY <2>1
  <1> QED BY <1>2, <1>3 DEF Rank

LEMMA RankGrows ==
  ASSUME NEW S \in SUBSET Nat, IsFiniteSet(S), NEW i \in S, NEW j \in S, i < j
  PROVE  Rank(S, i) < Rank(S, j)
  <1> DEFINE A == {x \in S : x <= i}
             B == {x \in S : x <= j}
  <1>1. IsFiniteSet(B) /\ A \in SUBSET B /\ A # B
    <2>1. i \in Nat /\ j \in Nat /\ j \in B /\ j \notin A
      OBVIOUS
    <2>2. \A x \in Nat : x <= i => x <= j
      BY <2>1
    <2>3. A \subseteq B
      BY <2>2
    <2>4. IsFiniteSet(B)
      BY RankType
    <2> QED BY <2>1, <2>3, <2>4
  <1>2. Cardinality(A) < Cardinality(B)
    BY <1>1, FS_Subset, FS_CardinalityType
  <1> QED BY <1>2 DEF Rank

\* Every rank up to the size of the set is some member's.
LEMMA RankTaken ==
  ASSUME NEW S \in SUBSET Nat, IsFiniteSet(S), NEW k \in 1..Cardinality(S)
  PROVE  \E i \in S : Rank(S, i) = k
  <1>1. Cardinality(S) \in Nat
    BY FS_CardinalityType
  <1> DEFINE T == {n \in 1..Cardinality(S) : ~\E i \in S : Rank(S, i) = n}
  <1> SUFFICES ASSUME T # {} PROVE FALSE
    OBVIOUS
  <1>2. PICK n \in T : \A m \in T : n <= m
    <2>1. T \in SUBSET Nat
      BY <1>1
    <2> QED BY <2>1, LeastExists
  <1>3. n \in 1..Cardinality(S) /\ ~\E i \in S : Rank(S, i) = n
    OBVIOUS
  <1>4. \E L \in SUBSET S : /\ IsFiniteSet(L) /\ Cardinality(L) = n - 1
                            /\ \A x \in L, y \in S \ L : x < y
    <2>1. CASE n = 1
      <3>1. IsFiniteSet({}) /\ Cardinality({}) = 0
        BY FS_EmptySet
      <3> QED BY <2>1, <3>1
    <2>2. CASE n # 1
      <3>1. n - 1 \in 1..Cardinality(S) /\ n - 1 \notin T
        BY <1>1, <1>2, <1>3, <2>2
      <3>2. PICK p \in S : Rank(S, p) = n - 1
        BY <3>1
      <3> DEFINE L == {j \in S : j <= p}
      <3>3. IsFiniteSet(L) /\ Cardinality(L) = n - 1
        BY <3>2, RankType DEF Rank
      <3>4. \A x \in L, y \in S \ L : x < y
        OBVIOUS
      <3>5. L \in SUBSET S
        OBVIOUS
      <3> QED BY <3>3, <3>4, <3>5
    <2> QED BY <2>1, <2>2
  <1>5. PICK L \in SUBSET S : /\ IsFiniteSet(L) /\ Cardinality(L) = n - 1
                              /\ \A x \in L, y \in S \ L : x < y
    BY <1>4
  <1>6. S \ L # {}
    <2> SUFFICES ASSUME S = L PROVE FALSE
      OBVIOUS
    <2> QED BY <1>1, <1>3, <1>5
  <1>7. PICK i \in S \ L : \A j \in S \ L : i <= j
    <2>1. S \ L \in SUBSET Nat
      OBVIOUS
    <2> QED BY <1>6, <2>1, LeastExists
  <1>8. {j \in S : j <= i} = L \cup {i}
    <2>1. \A x \in L : x < i
      BY <1>5, <1>7
    <2>2. i \in Nat /\ \A x \in S : x \in Nat
      BY <1>7
    <2>3. \A x \in S \ L : x <= i => x = i
      BY <1>7, <2>2
    <2>4. \A x \in L : x <= i
      BY <2>1, <2>2
    <2>5. i <= i /\ i \in S
      BY <1>7, <2>2
    <2> QED BY <2>3, <2>4, <2>5
  <1>9. Cardinality(L \cup {i}) = n
    <2>1. Cardinality(L \cup {i}) = Cardinality(L) + 1
      BY <1>5, <1>7, FS_AddElement
    <2> QED BY <1>1, <1>3, <1>5, <2>1
  <1> QED BY <1>3, <1>7, <1>8, <1>9 DEF Rank

LEMMA InOrderLists ==
  ASSUME NEW S \in SUBSET Nat, IsFiniteSet(S)
  PROVE  /\ InOrder(S) \in Seq(S) /\ Len(InOrder(S)) = Cardinality(S)
         /\ DOMAIN InOrder(S) = 1..Cardinality(S)
         /\ \A i, j \in DOMAIN InOrder(S) : i < j => InOrder(S)[i] < InOrder(S)[j]
         /\ \A x \in S : \E i \in DOMAIN InOrder(S) : InOrder(S)[i] = x
  <1> DEFINE s == InOrder(S)
             n == Cardinality(S)
  <1>1. n \in Nat
    BY FS_CardinalityType
  <1>2. ASSUME NEW k \in 1..n PROVE s[k] \in S /\ Rank(S, s[k]) = k
    <2>1. s[k] = CHOOSE i \in S : Rank(S, i) = k
      BY DEF InOrder
    <2> QED BY <2>1, RankTaken
  <1>3. s \in [1..n -> S]
    BY <1>2 DEF InOrder
  <1> HIDE DEF s, n
  <1>4. s \in Seq(S) /\ Len(s) = n /\ DOMAIN s = 1..n
    BY <1>1, <1>3
  <1>5. ASSUME NEW i \in 1..n, NEW j \in 1..n, i < j PROVE s[i] < s[j]
    <2>1. /\ s[i] \in Nat /\ s[j] \in Nat /\ s[i] \in S /\ s[j] \in S
          /\ Rank(S, s[i]) = i /\ Rank(S, s[j]) = j
      BY <1>2
    <2>2. ~(s[j] < s[i])
      <3> SUFFICES ASSUME s[j] < s[i] PROVE FALSE
        OBVIOUS
      <3>1. Rank(S, s[j]) < Rank(S, s[i])
        BY <2>1, RankGrows
      <3> QED BY <1>1, <1>5, <2>1, <3>1
    <2>3. s[i] # s[j]
      BY <1>1, <1>5, <2>1
    <2> QED BY <2>1, <2>2, <2>3
  <1>6. ASSUME NEW x \in S PROVE \E i \in 1..n : s[i] = x
    <2>1. Rank(S, x) \in 1..n
      <3>1. Rank(S, x) \in 0..n /\ Rank(S, x) > 0
        BY RankType DEF n
      <3> QED BY <1>1, <3>1
    <2>2. s[Rank(S, x)] \in S /\ Rank(S, s[Rank(S, x)]) = Rank(S, x)
      BY <1>2, <2>1
    <2>3. s[Rank(S, x)] = x
      <3> DEFINE y == s[Rank(S, x)]
      <3> HIDE DEF y
      <3>1. y \in S /\ Rank(S, y) = Rank(S, x)
        BY <2>2 DEF y
      <3>2. y \in Nat /\ x \in Nat /\ Rank(S, x) \in Nat
        BY <1>1, <2>1, <3>1
      <3>3. ~(x < y) /\ ~(y < x)
        BY <3>1, <3>2, RankGrows
      <3>4. x = y
        BY <3>2, <3>3
      <3> QED BY <3>4 DEF y
    <2> QED BY <2>1, <2>3
  <1> QED BY <1>4, <1>5, <1>6 DEF s, n

-----------------------------------------------------------------------------
(***************************************************************************)
(* Folds.  FoldLeft goes by a function on the sets of places that takes the    *)
(* largest place out of a set.  H stands for the operator folded with, which   *)
(* a theorem cannot have as a parameter: H[<<k, t>>] is what the k-th member    *)
(* makes of t.                                                              *)
(***************************************************************************)
Folds(it, a, N, H) ==
  it = [S \in SUBSET (1..N) |-> IF S = {} THEN a ELSE H[<<Max(S), it[S \ {Max(S)}]>>]]

\* f goes through the members in order.
Goes(f, a, N, H) == f[0] = a /\ \A k \in 1..N : f[k] = H[<<k, f[k - 1]>>]

Takes(it, T, N, H) == \A k \in 1..N : it[1..(k - 1)] \in T => it[1..k] = H[<<k, it[1..(k - 1)]>>]

\* What a fold has come to, member by member.
Runs(it, N) == [m \in 0..N |-> it[1..m]]

LEMMA FoldExists ==
  ASSUME NEW T, NEW a \in T, NEW N \in Nat, NEW H \in [(1..N) \X T -> T]
  PROVE  \E it \in [SUBSET (1..N) -> T] : Folds(it, a, N, H)
  <1> USE DEF Folds
  <1> DEFINE Is(it, m) ==
               it = [S \in SUBSET (1..m) |-> IF S = {} THEN a ELSE H[<<Max(S), it[S \ {Max(S)}]>>]]
             Bad == {m \in 0..N : ~\E it \in [SUBSET (1..m) -> T] : Is(it, m)}
  <1> SUFFICES ASSUME ~\E it \in [SUBSET (1..N) -> T] : Is(it, N) PROVE FALSE
    BY Zenon
  <1>1. PICK m \in Bad : \A n \in Bad : m <= n
    <2>1. Bad \in SUBSET Nat
      OBVIOUS
    <2>2. N \in 0..N
      OBVIOUS
    <2>3. N \in Bad
      BY <2>2, Zenon
    <2> QED BY <2>1, <2>3, LeastExists
  <1>2. m \in 0..N /\ ~\E it \in [SUBSET (1..m) -> T] : Is(it, m)
    OBVIOUS
  <1>3. CASE m = 0
    <2> DEFINE it == [S \in SUBSET (1..m) |-> a]
    <2>1. \A S \in SUBSET (1..m) : S = {}
      BY <1>3
    <2>2. it \in [SUBSET (1..m) -> T]
      OBVIOUS
    <2>3. Is(it, m)
      BY <2>1
    <2> QED BY <1>2, <2>2, <2>3
  <1>4. CASE m # 0
    <2>0. m - 1 \in 0..N /\ m \in 1..N /\ m \in Nat /\ ~(m <= m - 1)
      BY <1>2, <1>4
    <2>1. m - 1 \in 0..N /\ m - 1 \notin Bad /\ m \in 1..N /\ m \in Nat
      BY <1>1, <2>0, Zenon
    <2>2. PICK f \in [SUBSET (1..(m - 1)) -> T] : Is(f, m - 1)
      BY <2>1, Zenon
    <2> DEFINE it == [S \in SUBSET (1..m) |-> IF m \in S THEN H[<<m, f[S \ {m}]>>] ELSE f[S]]
    <2>3. \A S \in SUBSET (1..m) : /\ S \ {m} \in SUBSET (1..(m - 1))
                                   /\ m \notin S => S \in SUBSET (1..(m - 1))
      BY <2>1
    <2>4. it \in [SUBSET (1..m) -> T]
      <3>1. ASSUME NEW S \in SUBSET (1..m) PROVE it[S] \in T
        <4>1. CASE m \in S
          <5>1. f[S \ {m}] \in T
            BY <2>3
          <5>2. <<m, f[S \ {m}]>> \in (1..N) \X T
            BY <2>1, <5>1
          <5> QED BY <4>1, <5>2
        <4>2. CASE m \notin S
          BY <2>3, <4>2
        <4> QED BY <4>1, <4>2
      <3> QED BY <3>1
    <2>5. ASSUME NEW S \in SUBSET (1..m), S # {} PROVE it[S] = H[<<Max(S), it[S \ {Max(S)}]>>]
      <3>1. Max(S) \in S /\ \A j \in S : j <= Max(S)
        BY <2>1, <2>5, MaxIsGreatest
      <3>2. CASE m \in S
        <4>1. Max(S) = m
          <5>1. m <= Max(S) /\ Max(S) \in 1..m
            BY <3>1, <3>2
          <5> QED BY <2>1, <5>1
        <4>2. it[S] = H[<<m, f[S \ {m}]>>]
          BY <3>2
        <4>3. S \ {m} \in SUBSET (1..m) /\ m \notin S \ {m}
          OBVIOUS
        <4>4. it[S \ {m}] = f[S \ {m}]
          BY <4>3
        <4> QED BY <4>1, <4>2, <4>4
      <3>3. CASE m \notin S
        <4>1. S \in SUBSET (1..(m - 1)) /\ S \ {Max(S)} \in SUBSET (1..(m - 1))
          BY <2>3, <3>3
        <4>2. f[S] = H[<<Max(S), f[S \ {Max(S)}]>>]
          BY <2>2, <2>5, <4>1
        <4>3. it[S] = f[S]
          BY <3>3
        <4>4. S \ {Max(S)} \in SUBSET (1..m) /\ m \notin S \ {Max(S)}
          BY <3>3
        <4>5. it[S \ {Max(S)}] = f[S \ {Max(S)}]
          BY <4>4
        <4> QED BY <4>2, <4>3, <4>5
      <3> QED BY <3>2, <3>3
    <2>6. it[{}] = a
      <3>1. {} \in SUBSET (1..m) /\ {} \in SUBSET (1..(m - 1)) /\ m \notin {}
        OBVIOUS
      <3>2. f[{}] = a
        BY <2>2, <3>1
      <3> QED BY <3>1, <3>2
    <2> HIDE DEF it
    <2>7. Is(it, m)
      BY <2>4, <2>5, <2>6
    <2> QED BY <1>2, <2>4, <2>7
  <1> QED BY <1>3, <1>4

\* Such a function goes through the members in order.
LEMMA FoldSteps ==
  ASSUME NEW T, NEW a \in T, NEW N \in Nat, NEW H \in [(1..N) \X T -> T], NEW it,
         it[{}] = a, Takes(it, T, N, H)
  PROVE  Runs(it, N) \in [0..N -> T] /\ Goes(Runs(it, N), a, N, H) /\ Runs(it, N)[N] = it[1..N]
  <1> DEFINE Bad == {m \in 0..N : it[1..m] \notin T}
  <1>1. Bad = {}
    <2> SUFFICES ASSUME Bad # {} PROVE FALSE
      OBVIOUS
    <2>1. PICK m \in Bad : \A n \in Bad : m <= n
      <3>1. Bad \in SUBSET Nat
        OBVIOUS
      <3> QED BY <3>1, LeastExists
    <2>2. m \in 0..N /\ it[1..m] \notin T
      OBVIOUS
    <2>3. m # 0
      <3>1. 1..0 = {}
        OBVIOUS
      <3> QED BY <2>2, <3>1
    <2>4. m \in 1..N /\ m - 1 \in 0..N /\ m - 1 \notin Bad
      BY <2>1, <2>2, <2>3
    <2>5. it[1..(m - 1)] \in T
      BY <2>4
    <2>6. it[1..m] = H[<<m, it[1..(m - 1)]>>]
      BY <2>4, <2>5 DEF Takes
    <2>7. <<m, it[1..(m - 1)]>> \in (1..N) \X T
      BY <2>4, <2>5
    <2> QED BY <2>2, <2>6, <2>7
  <1>2. \A m \in 0..N : it[1..m] \in T
    BY <1>1
  <1> DEFINE f == [m \in 0..N |-> it[1..m]]
  <1>3. f \in [0..N -> T]
    BY <1>2
  <1>4. f[0] = a
    <2>1. 1..0 = {}
      OBVIOUS
    <2> QED BY <2>1
  <1>5. ASSUME NEW k \in 1..N PROVE f[k] = H[<<k, f[k - 1]>>]
    <2>1. k \in 0..N /\ k - 1 \in 0..N
      OBVIOUS
    <2> QED BY <1>2, <2>1 DEF Takes
  <1>6. f[N] = it[1..N]
    OBVIOUS
  <1> HIDE DEF f
  <1>7. Goes(f, a, N, H)
    BY <1>4, <1>5 DEF Goes
  <1> QED BY <1>3, <1>6, <1>7 DEF Runs, f

LEMMA Beginnings ==
  ASSUME NEW N \in Nat, NEW k \in 1..N
  PROVE  /\ 1..k \in SUBSET (1..N) /\ 1..k # {} /\ Max(1..k) = k /\ (1..k) \ {Max(1..k)} = 1..(k - 1)
  <1>1. 1..k \in SUBSET (1..k) /\ k \in 1..k /\ k \in Nat
    OBVIOUS
  <1>2. Max(1..k) \in 1..k /\ k <= Max(1..k)
    BY <1>1, MaxIsGreatest
  <1> QED BY <1>1, <1>2

\* A sum, member by member.
LEMMA SumSteps ==
  ASSUME NEW s \in Seq(Nat)
  PROVE  \E f \in [0..Len(s) -> Nat] :
           f[0] = 0 /\ f[Len(s)] = SumOf(s) /\ \A k \in 1..Len(s) : f[k] = f[k - 1] + s[k]
  <1> DEFINE N == Len(s)
             H == [p \in (1..N) \X Nat |-> p[2] + s[p[1]]]
             Is(it) == it = [S \in SUBSET (1..N) |-> IF S = {} THEN 0 ELSE it[S \ {Max(S)}] + s[Max(S)]]
             c == CHOOSE it : Is(it)
  <1>1. N \in Nat /\ DOMAIN s = 1..N /\ 0 \in Nat /\ \A k \in 1..N : s[k] \in Nat
    OBVIOUS
  <1>2. H \in [(1..N) \X Nat -> Nat]
    BY <1>1
  <1>3. SumOf(s) = c[1..N]
    BY <1>1, Zenon DEF SumOf, FoldLeft, MapThenFoldSet
  <1>4. \A k \in 1..N, t \in Nat : H[<<k, t>>] = t + s[k]
    OBVIOUS
  <1> HIDE DEF N, H
  <1>5. PICK it \in [SUBSET (1..N) -> Nat] : Folds(it, 0, N, H)
    BY <1>1, <1>2, FoldExists
  <1>6. Is(it)
    <2>1. ASSUME NEW S \in SUBSET (1..N), S # {}
          PROVE  H[<<Max(S), it[S \ {Max(S)}]>>] = it[S \ {Max(S)}] + s[Max(S)]
      <3>1. Max(S) \in 1..N /\ S \ {Max(S)} \in SUBSET (1..N)
        BY <1>1, <2>1, MaxIsGreatest
      <3>2. it[S \ {Max(S)}] \in Nat
        BY <3>1
      <3> QED BY <1>4, <3>1, <3>2
    <2> QED BY <1>5, <2>1 DEF Folds
  <1>7. Is(c)
    BY <1>6
  <1> HIDE DEF c
  <1>8. c[{}] = 0
    BY <1>7
  <1>9. ASSUME NEW k \in 1..N, c[1..(k - 1)] \in Nat PROVE c[1..k] = H[<<k, c[1..(k - 1)]>>]
    <2>1. 1..k \in SUBSET (1..N) /\ 1..k # {} /\ Max(1..k) = k /\ (1..k) \ {Max(1..k)} = 1..(k - 1)
      BY <1>1, Beginnings
    <2>2. c[1..k] = c[1..(k - 1)] + s[k]
      BY <1>7, <2>1
    <2> QED BY <1>4, <1>9, <2>2
  <1> DEFINE f == Runs(c, N)
  <1>10. f \in [0..N -> Nat] /\ Goes(f, 0, N, H) /\ f[N] = c[1..N]
    <2>1. Takes(c, Nat, N, H)
      BY <1>9 DEF Takes
    <2>2. Goes(f, 0, N, H)
      BY <1>1, <1>2, <1>8, <2>1, FoldSteps
    <2>3. f \in [0..N -> Nat]
      BY <1>1, <1>2, <1>8, <2>1, FoldSteps
    <2>4. f[N] = c[1..N]
      BY <1>1 DEF Runs
    <2> QED BY <2>2, <2>3, <2>4
  <1> HIDE DEF f
  <1>11. ASSUME NEW k \in 1..N PROVE f[k] = f[k - 1] + s[k]
    <2>1. k - 1 \in 0..N
      BY <1>1
    <2> QED BY <1>4, <1>10, <2>1 DEF Goes
  <1> QED BY <1>3, <1>10, <1>11 DEF N, Goes

LEMMA SumType ==
  ASSUME NEW s \in Seq(Nat) PROVE SumOf(s) \in Nat
  BY SumSteps

-----------------------------------------------------------------------------
(***************************************************************************)
(* The budget filter: which places it keeps.                                 *)
(***************************************************************************)
LEMMA FittingType ==
  ASSUME NEW S, NEW bucket \in Seq(S), NEW list, NEW room
  PROVE  Fitting(list, bucket, room) \in Seq(S)
  <1> DEFINE B == {n \in DOMAIN bucket : Guess(list, SubSeq(bucket, 1, n)) <= room}
  <1>1. DOMAIN bucket = 1..Len(bucket) /\ Len(bucket) \in Nat
    OBVIOUS
  <1>2. IsFiniteSet(1..Len(bucket)) /\ Cardinality(1..Len(bucket)) = Len(bucket)
    <2> DEFINE n == Len(bucket)
    <2>1. n \in Nat /\ 1 \in Int /\ n \in Int
      BY <1>1
    <2> HIDE DEF n
    <2>2. IsFiniteSet(1..n)
      BY <2>1, FS_Interval
    <2>3. Cardinality(1..n) = n
      <3>1. Cardinality(1..n) = IF 1 > n THEN 0 ELSE n - 1 + 1
        BY <2>1, FS_Interval
      <3> QED BY <2>1, <3>1
    <2> QED BY <2>2, <2>3 DEF n
  <1>3. Cardinality(B) \in 0..Len(bucket)
    <2>1. B \in SUBSET (1..Len(bucket))
      BY <1>1
    <2> HIDE DEF B
    <2>2. Cardinality(B) <= Cardinality(1..Len(bucket)) /\ Cardinality(B) \in Nat
      BY <1>2, <2>1, FS_Subset, FS_CardinalityType
    <2> QED BY <1>1, <1>2, <2>2
  <1>4. Fitting(list, bucket, room) = SubSeq(bucket, 1, Cardinality(B))
    BY DEF Fitting
  <1> HIDE DEF B
  <1> QED BY <1>1, <1>3, <1>4

LEMMA ChosenType ==
  ASSUME NEW E, NEW list \in Seq(E), NEW room, NEW gone
  PROVE  Chosen(list, room, gone) \in Seq(DOMAIN list)
  <1> DEFINE T == Seq(DOMAIN list)
             q == <<1, 2, 3, 4, 5>>
             More(got, n) ==
               got \o Fitting(list, InOrder({i \in DOMAIN list : Bucket(list[i], gone) = n}), room - Guess(list, got))
             H == [p \in (1..5) \X T |-> More(p[2], q[p[1]])]
             Is(it) == it = [S \in SUBSET (1..5) |-> IF S = {} THEN <<>> ELSE More(it[S \ {Max(S)}], q[Max(S)])]
             c == CHOOSE it : Is(it)
  <1>1. DOMAIN q = 1..5 /\ 5 \in Nat /\ <<>> \in T
    OBVIOUS
  <1>2. Chosen(list, room, gone) = c[1..5]
    BY <1>1, Zenon DEF Chosen, FoldLeft, MapThenFoldSet
  <1>3. ASSUME NEW got \in T, NEW n PROVE More(got, n) \in T
    <2> DEFINE S == {i \in DOMAIN list : Bucket(list[i], gone) = n}
    <2>1. S \in SUBSET (1..Len(list)) /\ Len(list) \in Nat /\ DOMAIN list = 1..Len(list)
      OBVIOUS
    <2>2. IsFiniteSet(S) /\ S \in SUBSET Nat
      <3>1. IsFiniteSet(1..Len(list))
        BY <2>1, FS_Interval
      <3>2. IsFiniteSet(S)
        <4> HIDE DEF S
        <4> QED BY <2>1, <3>1, FS_Subset
      <3>3. 1..Len(list) \in SUBSET Nat
        BY <2>1
      <3> QED BY <2>1, <3>2, <3>3
    <2> HIDE DEF S
    <2>3. InOrder(S) \in Seq(DOMAIN list)
      <3>1. InOrder(S) \in Seq(S)
        BY <2>2, InOrderLists
      <3>2. S \in SUBSET (DOMAIN list)
        BY <2>1
      <3> QED BY <3>1, <3>2
    <2>4. Fitting(list, InOrder(S), room - Guess(list, got)) \in Seq(DOMAIN list)
      BY <2>3, FittingType
    <2>5. got \o Fitting(list, InOrder(S), room - Guess(list, got)) \in Seq(DOMAIN list)
      BY <2>4
    <2> QED BY <2>5 DEF S
  <1> HIDE DEF More
  <1>4. H \in [(1..5) \X T -> T] /\ \A k \in 1..5, t \in T : H[<<k, t>>] = More(t, q[k])
    BY <1>3
  <1> HIDE DEF H, q, T
  <1>5. PICK it \in [SUBSET (1..5) -> T] : Folds(it, <<>>, 5, H)
    BY <1>1, <1>4, FoldExists
  <1>6. Is(it)
    <2>1. ASSUME NEW S \in SUBSET (1..5), S # {}
          PROVE  H[<<Max(S), it[S \ {Max(S)}]>>] = More(it[S \ {Max(S)}], q[Max(S)])
      <3>1. Max(S) \in 1..5 /\ S \ {Max(S)} \in SUBSET (1..5)
        BY <1>1, <2>1, MaxIsGreatest
      <3>2. it[S \ {Max(S)}] \in T
        BY <3>1
      <3> QED BY <1>4, <3>1, <3>2
    <2> QED BY <1>5, <2>1 DEF Folds
  <1>7. Is(c)
    BY <1>6
  <1> HIDE DEF c
  <1>8. c[{}] = <<>>
    BY <1>7
  <1>9. ASSUME NEW k \in 1..5, c[1..(k - 1)] \in T PROVE c[1..k] = H[<<k, c[1..(k - 1)]>>]
    <2>1. 1..k \in SUBSET (1..5) /\ 1..k # {} /\ Max(1..k) = k /\ (1..k) \ {Max(1..k)} = 1..(k - 1)
      BY <1>1, Beginnings
    <2>2. c[1..k] = More(c[1..(k - 1)], q[k])
      BY <1>7, <2>1
    <2> QED BY <1>4, <1>9, <2>2
  <1>10. Takes(c, T, 5, H)
    BY <1>9 DEF Takes
  <1>11. Runs(c, 5) \in [0..5 -> T]
    BY <1>1, <1>4, <1>8, <1>10, FoldSteps
  <1>12. Runs(c, 5)[5] = c[1..5]
    BY DEF Runs
  <1> QED BY <1>2, <1>11, <1>12 DEF T

\* A number of things taken in a proportion below one is not above it.
LEMMA Proportion ==
  ASSUME NEW n \in Nat, NEW a \in Nat, NEW b \in Nat, a < b
  PROVE  (n * a * 95) \div (b * 100) \in 0..n
  <1> DEFINE x == n * a * 95
             y == b * 100
  <1>1. x \in Nat /\ y \in Nat /\ y > 0
    <2>1. n * a \in Nat
      OBVIOUS
    <2> QED BY <2>1
  <1>2. x <= n * y
    <2>1. n * a <= n * b
      <3>1. \E d \in Nat : b = a + d
        <4>1. b - a \in Nat /\ b = a + (b - a)
          OBVIOUS
        <4> QED BY <4>1
      <3>2. PICK d \in Nat : b = a + d
        BY <3>1
      <3>3. n * b = n * a + n * d /\ n * d \in Nat /\ n * a \in Nat
        BY <3>2
      <3> QED BY <3>3
    <2>2. n * y = (n * b) * 100 /\ x = (n * a) * 95 /\ n * a \in Nat /\ n * b \in Nat
      OBVIOUS
    <2> QED BY <2>1, <2>2
  <1> HIDE DEF x, y
  <1>3. x \div y \in Nat /\ y * (x \div y) <= x
    BY <1>1
  <1>4. x \div y <= n
    <2> SUFFICES ASSUME x \div y > n PROVE FALSE
      BY <1>3
    <2>1. PICK e \in Nat : x \div y = n + 1 + e
      <3>1. (x \div y) - n - 1 \in Nat /\ x \div y = n + 1 + ((x \div y) - n - 1)
        BY <1>3
      <3> QED BY <3>1
    <2>2. y * (x \div y) = n * y + y + y * e /\ y * e \in Nat /\ n * y \in Nat
      BY <1>1, <2>1
    <2> QED BY <1>1, <1>2, <1>3, <2>2
  <1> QED BY <1>3, <1>4 DEF x, y

LEMMA TrimmedType ==
  ASSUME NEW list \in Seq(Element), NEW got \in Seq(DOMAIN list), NEW room \in Nat
  PROVE  Trimmed(list, got, room) \in Seq(DOMAIN list)
  <1> DEFINE sizes == [k \in DOMAIN got |-> list[got[k]].size]
             actual == Size(list, got)
             keep == (Len(got) * room * 95) \div (actual * 100)
  <1>1. actual \in Nat
    <2>1. \A k \in DOMAIN got : got[k] \in DOMAIN list /\ list[got[k]] \in Element
      OBVIOUS
    <2>2. \A k \in DOMAIN got : list[got[k]].size \in Nat
      BY <2>1 DEF Element
    <2>3. DOMAIN got = 1..Len(got) /\ Len(got) \in Nat
      OBVIOUS
    <2>4. sizes \in Seq(Nat)
      BY <2>2, <2>3
    <2> QED BY <2>4, SumType DEF Size
  <1> HIDE DEF actual
  <1>2. CASE Len(got) > 1 /\ actual > room
    <2>1. Len(got) \in Nat /\ keep \in 0..Len(got)
      BY <1>1, <1>2, Proportion
    <2>2. (IF keep < 1 THEN 1 ELSE keep) \in 0..Len(got)
      BY <1>2, <2>1
    <2>3. SubSeq(got, 1, IF keep < 1 THEN 1 ELSE keep) \in Seq(DOMAIN list)
      <3> DEFINE to == IF keep < 1 THEN 1 ELSE keep
      <3>1. to \in 0..Len(got)
        BY <2>2
      <3> HIDE DEF to
      <3>2. SubSeq(got, 1, to) \in Seq(DOMAIN list)
        BY <3>1
      <3> QED BY <3>2 DEF to
    <2> QED BY <1>2, <2>3 DEF Trimmed, actual
  <1>3. CASE ~(Len(got) > 1 /\ actual > room)
    BY <1>3 DEF Trimmed, actual
  <1> QED BY <1>2, <1>3

LEMMA FilterKeepsOrder ==
  ASSUME NEW list \in Seq(Element), NEW room \in Nat, NEW gone
  PROVE  /\ BudgetFilter(list, room, gone) \in Seq(DOMAIN list)
         /\ \A i, j \in DOMAIN BudgetFilter(list, room, gone) :
              i < j => BudgetFilter(list, room, gone)[i] < BudgetFilter(list, room, gone)[j]
  <1> DEFINE S == ToSet(Trimmed(list, Chosen(list, room, gone), room))
  <1>1. Trimmed(list, Chosen(list, room, gone), room) \in Seq(DOMAIN list)
    BY ChosenType, TrimmedType
  <1>2. S \in SUBSET (DOMAIN list)
    BY <1>1 DEF ToSet
  <1>3. DOMAIN list = 1..Len(list) /\ Len(list) \in Nat
    OBVIOUS
  <1>4. IsFiniteSet(S) /\ S \in SUBSET Nat
    <2>1. IsFiniteSet(1..Len(list))
      BY <1>3, FS_Interval
    <2> HIDE DEF S
    <2> QED BY <1>2, <1>3, <2>1, FS_Subset
  <1>5. BudgetFilter(list, room, gone) = InOrder(S)
    BY DEF BudgetFilter
  <1> HIDE DEF S
  <1>6. InOrder(S) \in Seq(S) /\ \A i, j \in DOMAIN InOrder(S) : i < j => InOrder(S)[i] < InOrder(S)[j]
    BY <1>4, InOrderLists
  <1>7. InOrder(S) \in Seq(DOMAIN list)
    BY <1>2, <1>6
  <1> QED BY <1>5, <1>6, <1>7

-----------------------------------------------------------------------------
(***************************************************************************)
(* Refs: what a pair of a name and a ref says of the list it was taken from.  *)
(***************************************************************************)
Right(list, refs) == \A p \in refs : p[2] \in DOMAIN list /\ Fits(p[1], list[p[2]])

LEMMA FirstPlace ==
  ASSUME NEW S \in SUBSET Nat, NEW r, r = (IF S = {} THEN 0 ELSE Min(S)), r # 0 PROVE r \in S
  BY MinIsLeast

LEMMA WordNames ==
  ASSUME NEW list, DOMAIN list \in SUBSET Nat, NEW name, NEW w, NEW p \in Word(name, list, w)
  PROVE  p[1] = name /\ p[2] \in DOMAIN list /\ Says(list[p[2]], w)
  <1> DEFINE S == {i \in DOMAIN list : Says(list[i], w)}
  <1>1. PICK r \in {IF S = {} THEN 0 ELSE Min(S)} \ {0} : p = <<name, r>>
    BY Zenon DEF Word, One, Ref
  <1>2. S \in SUBSET Nat
    OBVIOUS
  <1>3. r \in S
    BY <1>1, <1>2, FirstPlace
  <1> QED BY <1>1, <1>3

LEMMA ClickedNames ==
  ASSUME NEW list, DOMAIN list \in SUBSET Nat, NEW name, NEW w, NEW p \in Clicked(name, list, w)
  PROVE  p[1] = name /\ p[2] \in DOMAIN list /\ Says(list[p[2]], w)
  <1> DEFINE S == {i \in DOMAIN list : Clicks(list[i]) /\ Says(list[i], w)}
  <1>1. PICK r \in {IF S = {} THEN 0 ELSE Min(S)} \ {0} : p = <<name, r>>
    BY Zenon DEF Clicked, One, Ref
  <1>2. S \in SUBSET Nat
    OBVIOUS
  <1>3. r \in S
    BY <1>1, <1>2, FirstPlace
  <1> QED BY <1>1, <1>3

LEMMA FitsMeans ==
  ASSUME NEW el
  PROVE  /\ \A w \in {"next", "prev", "more", "submit", "cancel", "home", "verify", "cart", "buy", "wish", "quantity",
                      "sort"} : Says(el, w) => Fits(w, el)
         /\ Says(el, "step") => Fits("steps", el)
         /\ el.region = "complementary" \/ Says(el, "filter") => Fits("filters", el)
         /\ el.region \in {"navigation", "complementary"} => Fits("nav", el)
         /\ el.role = "tab" => Fits("tabs", el)
         /\ el.role = "searchbox" \/ Says(el, "search") => Fits("search", el)
         /\ el.role = "button" => Fits("questions", el)
         /\ IsOption(el) => Fits("options", el)
  BY DEF Fits

LEMMA ManyFit ==
  ASSUME NEW list, NEW name, NEW R \in SUBSET (DOMAIN list), \A r \in R : Fits(name, list[r])
  PROVE  Right(list, {<<name, r>> : r \in R})
  BY DEF Right

LEMMA HintsFit ==
  ASSUME NEW list, DOMAIN list \in SUBSET Nat, NEW type
  PROVE  Right(list, NavigationHints(list, type))
  <1>1. ASSUME NEW w \in {"next", "prev", "more", "submit", "cancel", "home", "verify"}
        PROVE  Right(list, Word(w, list, w))
    <2> SUFFICES ASSUME NEW p \in Word(w, list, w) PROVE p[2] \in DOMAIN list /\ Fits(p[1], list[p[2]])
      BY DEF Right
    <2>1. p[1] = w /\ p[2] \in DOMAIN list /\ Says(list[p[2]], w)
      BY WordNames
    <2> QED BY <1>1, <2>1, FitsMeans
  <1>2. Right(list, Many("filters", list, LAMBDA el : el.region = "complementary", 10))
    <2> DEFINE R == Refs(list, LAMBDA el : el.region = "complementary", 10)
    <2>1. R \in SUBSET (DOMAIN list) /\ \A r \in R : list[r].region = "complementary"
      BY DEF Refs
    <2>2. \A r \in R : Fits("filters", list[r])
      BY <2>1, FitsMeans
    <2> HIDE DEF R
    <2>3. Right(list, {<<"filters", r>> : r \in R})
      BY <2>1, <2>2, ManyFit
    <2> QED BY <2>3 DEF Many, R
  <1>3. Right(list, Many("steps", list, LAMBDA el : Says(el, "step"), 5))
    <2> DEFINE R == Refs(list, LAMBDA el : Says(el, "step"), 5)
    <2>1. R \in SUBSET (DOMAIN list) /\ \A r \in R : Says(list[r], "step")
      BY DEF Refs
    <2>2. \A r \in R : Fits("steps", list[r])
      BY <2>1, FitsMeans
    <2> HIDE DEF R
    <2>3. Right(list, {<<"steps", r>> : r \in R})
      BY <2>1, <2>2, ManyFit
    <2> QED BY <2>3 DEF Many, R
  <1>4. Right(list, Many("nav", list, LAMBDA el : el.region \in {"navigation", "complementary"}, 10))
    <2> DEFINE R == Refs(list, LAMBDA el : el.region \in {"navigation", "complementary"}, 10)
    <2>1. R \in SUBSET (DOMAIN list) /\ \A r \in R : list[r].region \in {"navigation", "complementary"}
      BY DEF Refs
    <2>2. \A r \in R : Fits("nav", list[r])
      BY <2>1, FitsMeans
    <2> HIDE DEF R
    <2>3. Right(list, {<<"nav", r>> : r \in R})
      BY <2>1, <2>2, ManyFit
    <2> QED BY <2>3 DEF Many, R
  <1>5. Right(list, Many("tabs", list, LAMBDA el : el.role = "tab", 10))
    <2> DEFINE R == Refs(list, LAMBDA el : el.role = "tab", 10)
    <2>1. R \in SUBSET (DOMAIN list) /\ \A r \in R : list[r].role = "tab"
      BY DEF Refs
    <2>2. \A r \in R : Fits("tabs", list[r])
      BY <2>1, FitsMeans
    <2> HIDE DEF R
    <2>3. Right(list, {<<"tabs", r>> : r \in R})
      BY <2>1, <2>2, ManyFit
    <2> QED BY <2>3 DEF Many, R
  <1>6. Right(list, Many("questions", list, LAMBDA el : el.role = "button" /\ el.region = "main", 20))
    <2> DEFINE R == Refs(list, LAMBDA el : el.role = "button" /\ el.region = "main", 20)
    <2>1. R \in SUBSET (DOMAIN list) /\ \A r \in R : list[r].role = "button" /\ list[r].region = "main"
      BY DEF Refs
    <2>2. \A r \in R : Fits("questions", list[r])
      BY <2>1, FitsMeans
    <2> HIDE DEF R
    <2>3. Right(list, {<<"questions", r>> : r \in R})
      BY <2>1, <2>2, ManyFit
    <2> QED BY <2>3 DEF Many, R
  <1>7. Right(list, One("search", list, LAMBDA el : el.role = "searchbox"))
    <2> DEFINE S == {i \in DOMAIN list : list[i].role = "searchbox"}
               R == {IF S = {} THEN 0 ELSE Min(S)} \ {0}
    <2>1. R \in SUBSET S /\ S \in SUBSET (DOMAIN list)
      BY FirstPlace
    <2>2. \A r \in R : Fits("search", list[r])
      BY <2>1, FitsMeans
    <2>3. R = {Ref(list, LAMBDA el : el.role = "searchbox")} \ {0}
      BY Zenon DEF Ref
    <2> HIDE DEF R
    <2>4. Right(list, {<<"search", r>> : r \in R})
      BY <2>1, <2>2, ManyFit
    <2> QED BY <2>3, <2>4 DEF One
  <1>8. Right(list, One("search", list, LAMBDA el : el.role = "searchbox" \/ Says(el, "search")))
    <2> DEFINE S == {i \in DOMAIN list : list[i].role = "searchbox" \/ Says(list[i], "search")}
               R == {IF S = {} THEN 0 ELSE Min(S)} \ {0}
    <2>1. R \in SUBSET S /\ S \in SUBSET (DOMAIN list)
      BY FirstPlace
    <2>2. \A r \in R : Fits("search", list[r])
      BY <2>1, FitsMeans
    <2>3. R = {Ref(list, LAMBDA el : el.role = "searchbox" \/ Says(el, "search"))} \ {0}
      BY Zenon DEF Ref
    <2> HIDE DEF R
    <2>4. Right(list, {<<"search", r>> : r \in R})
      BY <2>1, <2>2, ManyFit
    <2> QED BY <2>3, <2>4 DEF One
  <1>9. Right(list, {})
    BY DEF Right
  <1>10. \A A, B : Right(list, A) /\ Right(list, B) => Right(list, A \cup B)
    BY DEF Right
  <1>11. CASE type \in {"search_results", "listing"}
    <2>1. Right(list, Word("next", list, "next") \cup Word("prev", list, "prev") \cup Word("more", list, "more")
                        \cup Many("filters", list, LAMBDA el : el.region = "complementary", 10))
      BY <1>1, <1>2, <1>10
    <2> QED BY <1>11, <2>1 DEF NavigationHints
  <1>12. CASE type \in {"checkout", "form"}
    <2>1. Right(list, Word("submit", list, "submit") \cup Word("cancel", list, "cancel") \cup {})
      BY <1>1, <1>9, <1>10
    <2>2. Right(list, Word("submit", list, "submit") \cup Word("cancel", list, "cancel")
                        \cup Many("steps", list, LAMBDA el : Says(el, "step"), 5))
      BY <1>1, <1>3, <1>10
    <2> QED BY <1>12, <2>1, <2>2 DEF NavigationHints
  <1>13. CASE type \in {"dashboard", "documentation"}
    <2>1. Right(list, Many("nav", list, LAMBDA el : el.region \in {"navigation", "complementary"}, 10)
                        \cup Many("tabs", list, LAMBDA el : el.role = "tab", 10))
      BY <1>4, <1>5, <1>10
    <2> QED BY <1>13, <2>1 DEF NavigationHints
  <1>14. CASE type = "help_faq"
    <2>1. Right(list, One("search", list, LAMBDA el : el.role = "searchbox")
                        \cup Many("questions", list, LAMBDA el : el.role = "button" /\ el.region = "main", 20))
      BY <1>6, <1>7, <1>10
    <2> QED BY <1>14, <2>1 DEF NavigationHints
  <1>15. CASE type = "error"
    <2>1. Right(list, Word("home", list, "home")
                        \cup One("search", list, LAMBDA el : el.role = "searchbox" \/ Says(el, "search")))
      BY <1>1, <1>8, <1>10
    <2> QED BY <1>15, <2>1 DEF NavigationHints
  <1>16. CASE type = "blocked"
    BY <1>1, <1>16 DEF NavigationHints
  <1>17. CASE type \notin {"search_results", "listing", "checkout", "form", "dashboard", "documentation", "help_faq",
                           "error", "blocked"}
    BY <1>9, <1>17 DEF NavigationHints
  <1> QED BY <1>11, <1>12, <1>13, <1>14, <1>15, <1>16, <1>17

LEMMA ClickedFits ==
  ASSUME NEW list, DOMAIN list \in SUBSET Nat, NEW w \in {"next", "prev", "more", "wish"}
  PROVE  Right(list, Clicked(w, list, w))
  <1> SUFFICES ASSUME NEW p \in Clicked(w, list, w) PROVE p[2] \in DOMAIN list /\ Fits(p[1], list[p[2]])
    BY DEF Right
  <1>1. p[1] = w /\ p[2] \in DOMAIN list /\ Says(list[p[2]], w)
    BY ClickedNames
  <1> QED BY <1>1, FitsMeans

LEMMA ListActionsFit ==
  ASSUME NEW list, DOMAIN list \in SUBSET Nat, NEW type PROVE Right(list, ListActions(list, type))
  <1>1. Right(list, Many("filters", list, LAMBDA el : Says(el, "filter"), 10))
    <2> DEFINE R == Refs(list, LAMBDA el : Says(el, "filter"), 10)
    <2>1. R \in SUBSET (DOMAIN list) /\ \A r \in R : Says(list[r], "filter")
      BY DEF Refs
    <2>2. \A r \in R : Fits("filters", list[r])
      BY <2>1, FitsMeans
    <2> HIDE DEF R
    <2>3. Right(list, {<<"filters", r>> : r \in R})
      BY <2>1, <2>2, ManyFit
    <2> QED BY <2>3 DEF Many, R
  <1>2. Right(list, One("sort", list, LAMBDA el : el.role \in {"combobox", "select"} /\ Says(el, "sort")))
    <2> DEFINE S == {i \in DOMAIN list : list[i].role \in {"combobox", "select"} /\ Says(list[i], "sort")}
               R == {IF S = {} THEN 0 ELSE Min(S)} \ {0}
    <2>1. R \in SUBSET S /\ S \in SUBSET (DOMAIN list)
      BY FirstPlace
    <2>2. \A r \in R : Fits("sort", list[r])
      BY <2>1, FitsMeans
    <2>3. R = {Ref(list, LAMBDA el : el.role \in {"combobox", "select"} /\ Says(el, "sort"))} \ {0}
      BY Zenon DEF Ref
    <2> HIDE DEF R
    <2>4. Right(list, {<<"sort", r>> : r \in R})
      BY <2>1, <2>2, ManyFit
    <2> QED BY <2>3, <2>4 DEF One
  <1>3. Right(list, {}) /\ \A A, B : Right(list, A) /\ Right(list, B) => Right(list, A \cup B)
    BY DEF Right
  <1>4. Right(list, Clicked("next", list, "next") \cup Clicked("prev", list, "prev") \cup Clicked("more", list, "more")
                      \cup Many("filters", list, LAMBDA el : Says(el, "filter"), 10))
    BY <1>1, <1>3, ClickedFits
  <1> QED BY <1>2, <1>3, <1>4 DEF ListActions

LEMMA ProductActionsFit ==
  ASSUME NEW list, DOMAIN list \in SUBSET Nat
  PROVE  /\ Right(list, ProductActions(list))
         /\ \A p \in ProductActions(list) :
              p[1] = "options" => p[2] \in DOMAIN list /\ IsOption(list[p[2]])
  <1> DEFINE Named(refs, name) == \A p \in refs : p[1] = name
  <1>1. /\ Right(list, One("cart", list, LAMBDA el : el.acts = "click" /\ Says(el, "cart")))
        /\ Named(One("cart", list, LAMBDA el : el.acts = "click" /\ Says(el, "cart")), "cart")
    <2> DEFINE S == {i \in DOMAIN list : list[i].acts = "click" /\ Says(list[i], "cart")}
               R == {IF S = {} THEN 0 ELSE Min(S)} \ {0}
    <2>1. R \in SUBSET S /\ S \in SUBSET (DOMAIN list)
      BY FirstPlace
    <2>2. \A r \in R : Fits("cart", list[r])
      BY <2>1, FitsMeans
    <2>3. R = {Ref(list, LAMBDA el : el.acts = "click" /\ Says(el, "cart"))} \ {0}
      BY Zenon DEF Ref
    <2> HIDE DEF R
    <2>4. Right(list, {<<"cart", r>> : r \in R})
      BY <2>1, <2>2, ManyFit
    <2>5. Named({<<"cart", r>> : r \in R}, "cart")
      OBVIOUS
    <2> QED BY <2>3, <2>4, <2>5 DEF One
  <1>2. /\ Right(list, One("buy", list, LAMBDA el : el.acts = "click" /\ Says(el, "buy")))
        /\ Named(One("buy", list, LAMBDA el : el.acts = "click" /\ Says(el, "buy")), "buy")
    <2> DEFINE S == {i \in DOMAIN list : list[i].acts = "click" /\ Says(list[i], "buy")}
               R == {IF S = {} THEN 0 ELSE Min(S)} \ {0}
    <2>1. R \in SUBSET S /\ S \in SUBSET (DOMAIN list)
      BY FirstPlace
    <2>2. \A r \in R : Fits("buy", list[r])
      BY <2>1, FitsMeans
    <2>3. R = {Ref(list, LAMBDA el : el.acts = "click" /\ Says(el, "buy"))} \ {0}
      BY Zenon DEF Ref
    <2> HIDE DEF R
    <2>4. Right(list, {<<"buy", r>> : r \in R})
      BY <2>1, <2>2, ManyFit
    <2>5. Named({<<"buy", r>> : r \in R}, "buy")
      OBVIOUS
    <2> QED BY <2>3, <2>4, <2>5 DEF One
  <1>3. /\ Right(list, One("quantity", list, LAMBDA el : el.acts \in {"type", "select"} /\ Says(el, "quantity")))
        /\ Named(One("quantity", list, LAMBDA el : el.acts \in {"type", "select"} /\ Says(el, "quantity")), "quantity")
    <2> DEFINE S == {i \in DOMAIN list : list[i].acts \in {"type", "select"} /\ Says(list[i], "quantity")}
               R == {IF S = {} THEN 0 ELSE Min(S)} \ {0}
    <2>1. R \in SUBSET S /\ S \in SUBSET (DOMAIN list)
      BY FirstPlace
    <2>2. \A r \in R : Fits("quantity", list[r])
      BY <2>1, FitsMeans
    <2>3. R = {Ref(list, LAMBDA el : el.acts \in {"type", "select"} /\ Says(el, "quantity"))} \ {0}
      BY Zenon DEF Ref
    <2> HIDE DEF R
    <2>4. Right(list, {<<"quantity", r>> : r \in R})
      BY <2>1, <2>2, ManyFit
    <2>5. Named({<<"quantity", r>> : r \in R}, "quantity")
      OBVIOUS
    <2> QED BY <2>3, <2>4, <2>5 DEF One
  <1>4. Right(list, Clicked("wish", list, "wish")) /\ Named(Clicked("wish", list, "wish"), "wish")
    BY ClickedFits, ClickedNames
  <1> DEFINE R == Refs(list, IsOption, Len(list))
  <1>5. R \in SUBSET (DOMAIN list) /\ \A r \in R : IsOption(list[r])
    BY DEF Refs
  <1>6. Right(list, Many("options", list, IsOption, Len(list)))
    <2>1. \A r \in R : Fits("options", list[r])
      BY <1>5, FitsMeans
    <2> HIDE DEF R
    <2>2. Right(list, {<<"options", r>> : r \in R})
      BY <1>5, <2>1, ManyFit
    <2> QED BY <2>2 DEF Many, R
  <1>7. \A p \in Many("options", list, IsOption, Len(list)) : p[2] \in DOMAIN list /\ IsOption(list[p[2]])
    <2> HIDE DEF R
    <2>1. \A p \in {<<"options", r>> : r \in R} : p[2] \in DOMAIN list /\ IsOption(list[p[2]])
      BY <1>5
    <2> QED BY <2>1 DEF Many, R
  <1>8. \A A, B : Right(list, A) /\ Right(list, B) => Right(list, A \cup B)
    BY DEF Right
  <1>9. ProductActions(list) =
          One("cart", list, LAMBDA el : el.acts = "click" /\ Says(el, "cart"))
            \cup One("buy", list, LAMBDA el : el.acts = "click" /\ Says(el, "buy"))
            \cup Clicked("wish", list, "wish")
            \cup One("quantity", list, LAMBDA el : el.acts \in {"type", "select"} /\ Says(el, "quantity"))
            \cup Many("options", list, IsOption, Len(list))
    BY Zenon DEF ProductActions
  <1>10. Right(list, ProductActions(list))
    BY <1>1, <1>2, <1>3, <1>4, <1>6, <1>8, <1>9
  <1>11. ASSUME NEW p \in ProductActions(list), p[1] = "options"
         PROVE  p[2] \in DOMAIN list /\ IsOption(list[p[2]])
    <2>1. p \notin One("cart", list, LAMBDA el : el.acts = "click" /\ Says(el, "cart"))
      BY <1>1, <1>11
    <2>2. p \notin One("buy", list, LAMBDA el : el.acts = "click" /\ Says(el, "buy"))
      BY <1>2, <1>11
    <2>3. p \notin One("quantity", list, LAMBDA el : el.acts \in {"type", "select"} /\ Says(el, "quantity"))
      BY <1>3, <1>11
    <2>4. p \notin Clicked("wish", list, "wish")
      BY <1>4, <1>11
    <2> QED BY <1>7, <1>9, <2>1, <2>2, <2>3, <2>4
  <1> QED BY <1>10, <1>11

LEMMA ActionsFit ==
  ASSUME NEW list, DOMAIN list \in SUBSET Nat, NEW type PROVE Right(list, Actions(list, type))
  <1>1. Right(list, {})
    BY DEF Right
  <1> QED BY <1>1, ListActionsFit, ProductActionsFit DEF Actions

-----------------------------------------------------------------------------
(***************************************************************************)
(* Barriers: what the button of one says.                                    *)
(***************************************************************************)
Answers == {"accept", "reject", "dismiss"}

LEMMA DismissalSays ==
  ASSUME NEW list, DOMAIN list \in SUBSET Nat, NEW w, Dismissal(list, w) # 0
  PROVE  /\ Dismissal(list, w) \in DOMAIN list
         /\ list[Dismissal(list, w)].role = "button" /\ w \in list[Dismissal(list, w)].says
  <1> DEFINE S == {i \in DOMAIN list : Clicks(list[i]) /\ list[i].role = "button" /\ Says(list[i], w)}
             r == Dismissal(list, w)
  <1>1. r = (IF S = {} THEN 0 ELSE Min(S))
    BY Zenon DEF Dismissal, Ref
  <1>2. r \in S
    BY <1>1, FirstPlace
  <1> QED BY <1>2 DEF Says

LEMMA FoundSays ==
  ASSUME NEW list, DOMAIN list \in SUBSET Nat, NEW terms \in Seq(Answers), NEW r, r # 0,
         r = FindDismiss(list, terms, TRUE).ref
  PROVE  /\ r \in DOMAIN list /\ list[r].role = "button"
         /\ list[r].says \cap {"accept", "reject", "dismiss", "close"} # {}
  <1> DEFINE asked == Append(terms, "close")
             hits == {i \in DOMAIN asked : Dismissal(list, asked[i]) # 0}
  <1>1. asked \in Seq({"accept", "reject", "dismiss", "close"})
    BY DEF Answers
  <1> HIDE DEF asked
  <1> DEFINE nothing == [ref |-> 0, tier |-> ""]
             w == asked[Min(hits)]
             ref == Dismissal(list, w)
             given == FindDismiss(list, terms, TRUE)
  <1>2. given = (IF hits = {} THEN nothing ELSE [ref |-> ref, tier |-> w])
    BY Zenon DEF FindDismiss, asked
  <1>3. nothing.ref = 0 /\ r = given.ref
    BY Zenon
  <1> HIDE DEF nothing, w, ref, given
  <1>4. hits # {} /\ r = ref
    <2>1. CASE hits = {}
      BY <1>2, <1>3, <2>1
    <2>2. CASE hits # {}
      BY <1>2, <1>3, <2>2
    <2> QED BY <2>1, <2>2
  <1>5. Min(hits) \in hits
    <2>1. hits \in SUBSET Nat
      BY <1>1
    <2> QED BY <1>4, <2>1, MinIsLeast
  <1>6. w \in {"accept", "reject", "dismiss", "close"}
    BY <1>1, <1>5 DEF w
  <1>7. r \in DOMAIN list /\ list[r].role = "button" /\ w \in list[r].says
    BY <1>4, DismissalSays DEF ref
  <1> QED BY <1>6, <1>7

\* A barrier found is none, or asks for the answers it knows.
KnownTerms(b) == b = None \/ \E kind, auto, d, terms : b = BarrierOf(kind, auto, d, terms) /\ terms \in Seq(Answers)

LEMMA BarrierAsks ==
  ASSUME NEW list, NEW h, NEW policy PROVE KnownTerms(Barrier(list, h, policy))
  <1>1. <<>> \in Seq(Answers) /\ <<"dismiss">> \in Seq(Answers) /\ <<"accept">> \in Seq(Answers)
        /\ <<"reject", "accept", "dismiss">> \in Seq(Answers)
    BY DEF Answers
  <1>2. \A kind, auto, d : /\ KnownTerms(BarrierOf(kind, auto, d, <<>>))
                           /\ KnownTerms(BarrierOf(kind, auto, d, <<"dismiss">>))
                           /\ KnownTerms(BarrierOf(kind, auto, d, <<"accept">>))
                           /\ KnownTerms(BarrierOf(kind, auto, d, <<"reject", "accept", "dismiss">>))
    BY <1>1, Zenon DEF KnownTerms
  <1>3. KnownTerms(None)
    BY DEF KnownTerms
  <1>4. KnownTerms(CookieBarrier(list, h, policy)) /\ KnownTerms(PopupBarrier(list)) /\ KnownTerms(AgeBarrier(list, h))
    BY <1>2, Zenon DEF CookieBarrier, PopupBarrier, AgeBarrier
  <1> DEFINE nothing == [ref |-> 0, tier |-> ""]
             last == IF h.blocked THEN BarrierOf("region", FALSE, nothing, <<>>)
                     ELSE IF LoginWall(list, h) THEN BarrierOf("login", FALSE, nothing, <<>>) ELSE None
  <1>5. KnownTerms(last)
    BY <1>2, <1>3, Zenon
  <1> DEFINE cookie == h.cookie # "none"
             popup == h.cookie = "none" /\ HasPopup(list, h)
             age == h.cookie = "none" /\ ~HasPopup(list, h) /\ h.age # "none"
  <1>6. Barrier(list, h, policy) =
          CASE cookie -> CookieBarrier(list, h, policy) [] popup -> PopupBarrier(list) [] age -> AgeBarrier(list, h)
            [] OTHER -> last
    BY Zenon DEF Barrier
  <1>7. ~(cookie /\ popup) /\ ~(cookie /\ age) /\ ~(popup /\ age)
    OBVIOUS
  <1> HIDE DEF last, cookie, popup, age
  <1> QED BY <1>4, <1>5, <1>6, <1>7

LEMMA RematchedButton ==
  ASSUME NEW list, DOMAIN list \in SUBSET Nat, NEW b, KnownTerms(b),
         Rematched(b, list) # None, Rematched(b, list).ref # 0, list # <<>>
  PROVE  LET r == Rematched(b, list).ref IN
         /\ r \in DOMAIN list /\ list[r].role = "button"
         /\ list[r].says \cap {"accept", "reject", "dismiss", "close"} # {}
  <1> DEFINE found2 == FindDismiss(list, b.terms, TRUE)
  <1>1. b # None /\ Rematched(b, list) = [b EXCEPT !.ref = found2.ref, !.tier = found2.tier]
    BY DEF Rematched
  <1>2. PICK kind, auto, d, terms : b = BarrierOf(kind, auto, d, terms) /\ terms \in Seq(Answers)
    BY <1>1 DEF KnownTerms
  <1>3. Rematched(b, list).ref = found2.ref /\ b.terms = terms
    BY <1>1, <1>2 DEF BarrierOf
  <1> DEFINE r == Rematched(b, list).ref
  <1>4. r = FindDismiss(list, terms, TRUE).ref
    BY <1>3
  <1> HIDE DEF r
  <1>5. r # 0
    BY DEF r
  <1>6. /\ r \in DOMAIN list /\ list[r].role = "button"
        /\ list[r].says \cap {"accept", "reject", "dismiss", "close"} # {}
    BY <1>2, <1>4, <1>5, FoundSays
  <1> QED BY <1>6 DEF r

-----------------------------------------------------------------------------
(***************************************************************************)
(* The build.                                                               *)
(***************************************************************************)
LEMMA KeptList ==
  ASSUME NEW from \in Seq(Element), NEW room \in Nat, NEW gone, NEW kept, NEW list,
         kept = BudgetFilter(from, room, gone), list = [i \in DOMAIN kept |-> from[kept[i]]]
  PROVE  /\ list \in Seq(Element) /\ Len(kept) = Len(list) /\ DOMAIN list \in SUBSET Nat
         /\ \A i, j \in DOMAIN kept : i < j => kept[i] < kept[j]
  <1>1. /\ kept \in Seq(DOMAIN from)
        /\ \A i, j \in DOMAIN kept : i < j => kept[i] < kept[j]
    BY FilterKeepsOrder
  <1>2. DOMAIN kept = 1..Len(kept) /\ Len(kept) \in Nat /\ \A i \in DOMAIN kept : kept[i] \in DOMAIN from
    BY <1>1
  <1>3. list \in [1..Len(kept) -> Element]
    BY <1>2
  <1> QED BY <1>1, <1>2, <1>3

LEMMA FromHtmlType ==
  ASSUME NEW list \in Seq(Element) PROVE FromHtml(list) \in Seq(Element)
  <1> DEFINE Readable == {i \in DOMAIN list : list[i].role \in DOMAIN Act}
             ofKind(k) == {i \in DOMAIN list : /\ list[i].role \in Kinds[k]
                                               /\ list[i].role = "link" => list[i].says \cap {"cart", "buy", "wish"} # {}}
             new(i, k) == \A j \in ofKind(k) : j < i => <<list[j].role, list[j].says>> # <<list[i].role, list[i].says>>
             once(k) == InOrder({i \in ofKind(k) : new(i, k)})
             all == once(1) \o once(2) \o once(3) \o once(4)
  <1>1. DOMAIN Act = {"button", "link", "textbox", "searchbox", "combobox"}
        /\ \A role \in DOMAIN Act : Act[role] \in {"click", "type", "select"}
    BY DEF Act
  <1>2. ASSUME NEW k \in 1..4 PROVE once(k) \in Seq(Readable)
    <2> DEFINE S == {i \in ofKind(k) : new(i, k)}
    <2>1. S \in SUBSET ofKind(k)
      OBVIOUS
    <2>2. Kinds[k] \in SUBSET (DOMAIN Act)
      BY <1>1 DEF Kinds
    <2>3. ofKind(k) \in SUBSET Readable
      BY <2>2
    <2>4. DOMAIN list = 1..Len(list) /\ Len(list) \in Nat /\ Readable \in SUBSET (DOMAIN list)
      OBVIOUS
    <2>5. IsFiniteSet(1..Len(list))
      BY <2>4, FS_Interval
    <2> HIDE DEF S
    <2>6. S \in SUBSET Readable
      BY <2>1, <2>3
    <2>7. S \in SUBSET (1..Len(list)) /\ S \in SUBSET Nat
      BY <2>4, <2>6
    <2>8. IsFiniteSet(S)
      BY <2>5, <2>7, FS_Subset
    <2>9. InOrder(S) \in Seq(S)
      BY <2>7, <2>8, InOrderLists
    <2>10. InOrder(S) \in Seq(Readable)
      BY <2>6, <2>9
    <2> QED BY <2>10 DEF S
  <1> HIDE DEF once
  <1>3. all \in Seq(Readable)
    BY <1>2
  <1>4. FromHtml(list) = [i \in DOMAIN all |-> AsRead(list[all[i]])]
    BY Zenon DEF FromHtml, once
  <1> HIDE DEF all
  <1>5. ASSUME NEW el \in Element, el.role \in DOMAIN Act PROVE AsRead(el) \in Element
    <2>1. Act[el.role] \in {"click", "toggle", "type", "select", "none"}
      BY <1>1, <1>5
    <2> DEFINE act == Act[el.role]
    <2> HIDE DEF act
    <2> DEFINE one == [el EXCEPT !.region = "main"]
               two == [one EXCEPT !.tier1 = FALSE]
               three == [two EXCEPT !.acts = act]
    <2>2. one \in Element
      BY DEF Element, Regions
    <2> HIDE DEF one
    <2>3. two \in Element
      BY <2>2 DEF Element
    <2> HIDE DEF two
    <2>4. act \in {"click", "toggle", "type", "select", "none"}
      BY <2>1 DEF act
    <2>5. three \in Element
      BY <2>3, <2>4 DEF Element
    <2>6. AsRead(el) = three
      BY Zenon DEF AsRead, three, two, one, act
    <2> QED BY <2>5, <2>6
  <1>6. \A i \in DOMAIN all : list[all[i]] \in Element /\ list[all[i]].role \in DOMAIN Act
    BY <1>3
  <1>7. DOMAIN all = 1..Len(all) /\ Len(all) \in Nat
    BY <1>3
  <1>8. FromHtml(list) \in [1..Len(all) -> Element]
    BY <1>4, <1>5, <1>6, <1>7
  <1> QED BY <1>7, <1>8

\* What the properties of a map rest on: the elements detected are elements, the barrier found
\* on them asks for answers it knows, and the room was a number.
SoundSource == found.list \in Seq(Element) /\ KnownTerms(found.barrier) /\ pagemap.room \in Nat
AssemblyInv == SoundSource /\ AssemblyTypeOK /\ RefsNameTheirElements /\ BarrierButtonInMap

\* The parts of the invariant for a map with a list kept by the filter.
LEMMA MapIsSound ==
  ASSUME NEW from \in Seq(Element), NEW room \in Nat, NEW gone, NEW kept, NEW list, NEW h,
         kept = BudgetFilter(from, room, gone), list = [i \in DOMAIN kept |-> from[kept[i]]]
  PROVE  /\ list \in Seq(Element) /\ Len(kept) = Len(list) /\ DOMAIN list \in SUBSET Nat
         /\ \A i, j \in DOMAIN kept : i < j => kept[i] < kept[j]
         /\ Right(list, NavigationHints(list, h.type)) /\ Right(list, Actions(list, h.type)) /\ Right(list, {})
  <1>1. /\ list \in Seq(Element) /\ Len(kept) = Len(list) /\ DOMAIN list \in SUBSET Nat
        /\ \A i, j \in DOMAIN kept : i < j => kept[i] < kept[j]
    BY KeptList
  <1>2. Right(list, {})
    BY DEF Right
  <1> QED BY <1>1, <1>2, HintsFit, ActionsFit

LEMMA AssemblyInvInit == AssemblyInit => AssemblyInv
  <1> SUFFICES ASSUME AssemblyInit PROVE AssemblyInv
    OBVIOUS
  <1>1. /\ found.list = <<>> /\ found.barrier = None /\ pagemap.room = 0 /\ pagemap.list = <<>> /\ pagemap.kept = <<>>
        /\ pagemap.hints = {} /\ pagemap.ecom = {} /\ pagemap.flow = "none" /\ pagemap.barrier = None /\ stage = "idle"
    BY DEF AssemblyInit, NoMap
  <1>2. SoundSource
    BY <1>1 DEF SoundSource, KnownTerms
  <1>3. AssemblyTypeOK
    BY <1>1 DEF AssemblyTypeOK
  <1>4. RefsNameTheirElements
    BY <1>1 DEF RefsNameTheirElements
  <1>5. BarrierButtonInMap
    BY <1>1 DEF BarrierButtonInMap
  <1> QED BY <1>2, <1>3, <1>4, <1>5 DEF AssemblyInv

LEMMA DetectKeeps == AssemblyInv /\ Detect => AssemblyInv'
  <1> SUFFICES ASSUME AssemblyInv, Detect PROVE AssemblyInv'
    OBVIOUS
  <1>1. pagemap' = pagemap /\ stage = "idle" /\ stage' = "pruning"
    BY DEF Detect
  <1>2. PICK n \in 0..MaxElements : \E list \in [1..n -> Elements], h \in Pages, policy \in Policies :
          found' = [list |-> list, html |-> h, barrier |-> Barrier(list, h, policy)]
    BY DEF Detect
  <1>3. PICK list \in [1..n -> Elements], h \in Pages, policy \in Policies :
          found' = [list |-> list, html |-> h, barrier |-> Barrier(list, h, policy)]
    BY <1>2
  <1>4. list \in Seq(Element)
    BY AssemblyAssumption DEF AssemblyAssumption
  <1>5. SoundSource'
    <2>1. found'.list = list /\ found'.barrier = Barrier(list, h, policy)
      BY <1>3
    <2> QED BY <1>1, <1>4, <2>1, BarrierAsks DEF AssemblyInv, SoundSource
  <1>6. AssemblyTypeOK'
    BY <1>1 DEF AssemblyInv, AssemblyTypeOK
  <1>7. RefsNameTheirElements'
    BY <1>1 DEF AssemblyInv, RefsNameTheirElements
  <1>8. BarrierButtonInMap'
    BY <1>1 DEF AssemblyInv, BarrierButtonInMap
  <1> QED BY <1>5, <1>6, <1>7, <1>8 DEF AssemblyInv

LEMMA AssembleKeeps ==
  ASSUME NEW room \in Nat, NEW gone PROVE AssemblyInv /\ Assemble(room, gone) => AssemblyInv'
  <1> SUFFICES ASSUME AssemblyInv, Assemble(room, gone) PROVE AssemblyInv'
    OBVIOUS
  <1> DEFINE kept == BudgetFilter(found.list, room, gone)
             list == [i \in DOMAIN kept |-> found.list[kept[i]]]
             type == found.html.type
             flow == IF type = "product_detail" THEN CartFlow(list, found.html.stock) ELSE "none"
  <1>1. found' = found /\ stage' = "built" /\ found.list \in Seq(Element) /\ KnownTerms(found.barrier)
    BY DEF Assemble, AssemblyInv, SoundSource
  <1>2. /\ pagemap'.room = room /\ pagemap'.kept = kept /\ pagemap'.list = list
        /\ pagemap'.hints = NavigationHints(list, type) /\ pagemap'.ecom = Actions(list, type)
        /\ pagemap'.flow = flow /\ pagemap'.barrier = Rematched(found.barrier, list)
    <2>1. pagemap' = MapOf(room, gone, kept, list, found.html, Rematched(found.barrier, list))
      BY DEF Assemble, Assembled
    <2> QED BY <2>1 DEF MapOf
  <1>3. /\ list \in Seq(Element) /\ Len(kept) = Len(list) /\ DOMAIN list \in SUBSET Nat
        /\ \A i, j \in DOMAIN kept : i < j => kept[i] < kept[j]
        /\ Right(list, NavigationHints(list, type)) /\ Right(list, Actions(list, type))
    BY <1>1, MapIsSound
  <1> HIDE DEF kept, list
  <1>4. SoundSource'
    BY <1>1, <1>2 DEF SoundSource
  <1>5. AssemblyTypeOK'
    <2>1. flow \in {"none", "unknown", "select_options", "ready_to_add", "sold_out"}
      BY DEF CartFlow
    <2> QED BY <1>1, <1>2, <1>3, <2>1 DEF AssemblyTypeOK
  <1>6. RefsNameTheirElements'
    BY <1>1, <1>2, <1>3 DEF RefsNameTheirElements, Right
  <1>7. BarrierButtonInMap'
    BY <1>1, <1>2, <1>3, RematchedButton DEF BarrierButtonInMap
  <1> QED BY <1>4, <1>5, <1>6, <1>7 DEF AssemblyInv

LEMMA RebuildContentKeeps ==
  ASSUME NEW h PROVE AssemblyInv /\ RebuildContent(h) => AssemblyInv'
  <1> SUFFICES ASSUME AssemblyInv, RebuildContent(h) PROVE AssemblyInv'
    OBVIOUS
  <1>1. found' = found /\ stage' = "rebuilt"
    BY DEF RebuildContent
  <1>2. /\ pagemap'.room = pagemap.room /\ pagemap'.kept = pagemap.kept /\ pagemap'.list = pagemap.list
        /\ pagemap'.hints = NavigationHints(pagemap.list, h.type) /\ pagemap'.ecom = {}
        /\ pagemap'.flow = "none" /\ pagemap'.barrier = None
    BY DEF RebuildContent, MapOf
  <1>3. pagemap.list \in Seq(Element) /\ DOMAIN pagemap.list \in SUBSET Nat
    <2>1. pagemap.list \in Seq(Element)
      BY DEF AssemblyInv, AssemblyTypeOK
    <2> QED BY <2>1
  <1>4. Right(pagemap.list, NavigationHints(pagemap.list, h.type))
    BY <1>3, HintsFit
  <1>5. SoundSource'
    BY <1>1, <1>2 DEF AssemblyInv, SoundSource
  <1>6. AssemblyTypeOK'
    BY <1>1, <1>2 DEF AssemblyInv, AssemblyTypeOK
  <1>7. RefsNameTheirElements'
    BY <1>1, <1>2, <1>4 DEF AssemblyInv, RefsNameTheirElements, Right
  <1>8. BarrierButtonInMap'
    BY <1>2 DEF BarrierButtonInMap
  <1> QED BY <1>5, <1>6, <1>7, <1>8 DEF AssemblyInv

LEMMA BuildOfflineKeeps ==
  ASSUME NEW room \in Nat, NEW gone PROVE AssemblyInv /\ BuildOffline(room, gone) => AssemblyInv'
  <1> SUFFICES ASSUME AssemblyInv, BuildOffline(room, gone) PROVE AssemblyInv'
    OBVIOUS
  <1> DEFINE read == FromHtml(found.list)
             kept == BudgetFilter(read, room, gone)
             list == [i \in DOMAIN kept |-> read[kept[i]]]
             h == found.html
  <1>1. found' = found /\ stage' = "offline" /\ read \in Seq(Element)
    BY FromHtmlType DEF BuildOffline, AssemblyInv, SoundSource
  <1>2. /\ pagemap'.room = room /\ pagemap'.kept = kept /\ pagemap'.list = list
        /\ pagemap'.hints = NavigationHints(list, h.type) /\ pagemap'.ecom = {}
        /\ pagemap'.flow = "none" /\ pagemap'.barrier = None
    <2>1. pagemap' = [MapOf(room, gone, kept, list, h, None) EXCEPT !.ecom = {}, !.flow = "none"]
      BY Zenon DEF BuildOffline
    <2> QED BY <2>1 DEF MapOf
  <1>3. /\ list \in Seq(Element) /\ Len(kept) = Len(list)
        /\ \A i, j \in DOMAIN kept : i < j => kept[i] < kept[j]
        /\ Right(list, NavigationHints(list, h.type))
    <2> HIDE DEF read
    <2> QED BY <1>1, MapIsSound
  <1> HIDE DEF kept, list
  <1>4. SoundSource'
    BY <1>1, <1>2 DEF AssemblyInv, SoundSource
  <1>5. AssemblyTypeOK'
    BY <1>1, <1>2, <1>3 DEF AssemblyTypeOK
  <1>6. RefsNameTheirElements'
    BY <1>1, <1>2, <1>3 DEF RefsNameTheirElements, Right
  <1>7. BarrierButtonInMap'
    BY <1>2 DEF BarrierButtonInMap
  <1> QED BY <1>4, <1>5, <1>6, <1>7 DEF AssemblyInv

LEMMA RebuildElementsKeeps ==
  ASSUME NEW from \in Seq(Element), NEW h PROVE AssemblyInv /\ RebuildElements(from, h) => AssemblyInv'
  <1> SUFFICES ASSUME AssemblyInv, RebuildElements(from, h) PROVE AssemblyInv'
    OBVIOUS
  <1> DEFINE kept == BudgetFilter(from, pagemap.room, pagemap.gone)
             list == [i \in DOMAIN kept |-> from[kept[i]]]
  <1>1. found' = found /\ stage' = "relisted" /\ pagemap.room \in Nat
    BY DEF RebuildElements, AssemblyInv, SoundSource
  <1>2. /\ pagemap'.room = pagemap.room /\ pagemap'.kept = kept /\ pagemap'.list = list
        /\ pagemap'.hints = NavigationHints(list, h.type)
        /\ pagemap'.flow = pagemap.flow /\ pagemap'.barrier = None
    <2>1. pagemap' = [MapOf(pagemap.room, pagemap.gone, kept, list, h, None)
                        EXCEPT !.ecom = pagemap.ecom, !.flow = pagemap.flow]
      BY Zenon DEF RebuildElements
    <2> QED BY <2>1 DEF MapOf
  <1>3. /\ list \in Seq(Element) /\ Len(kept) = Len(list)
        /\ \A i, j \in DOMAIN kept : i < j => kept[i] < kept[j]
        /\ Right(list, NavigationHints(list, h.type))
    BY <1>1, MapIsSound
  <1> HIDE DEF kept, list
  <1>4. SoundSource'
    BY <1>1, <1>2 DEF AssemblyInv, SoundSource
  <1>5. AssemblyTypeOK'
    BY <1>1, <1>2, <1>3 DEF AssemblyInv, AssemblyTypeOK
  <1>6. RefsNameTheirElements'
    BY <1>1, <1>2, <1>3 DEF RefsNameTheirElements, Right
  <1>7. BarrierButtonInMap'
    BY <1>1, <1>2 DEF BarrierButtonInMap
  <1> QED BY <1>4, <1>5, <1>6, <1>7 DEF AssemblyInv

LEMMA AssemblyInvStep == AssemblyInv /\ [AssemblyNext]_avars => AssemblyInv'
  <1> SUFFICES ASSUME AssemblyInv, [AssemblyNext]_avars PROVE AssemblyInv'
    OBVIOUS
  <1>1. CASE Detect
    BY <1>1, DetectKeeps
  <1>2. ASSUME NEW room \in Rooms, NEW gone \in {{}, {"footer"}}, Assemble(room, gone) \/ BuildOffline(room, gone)
        PROVE  AssemblyInv'
    <2>1. room \in Nat
      BY AssemblyAssumption DEF AssemblyAssumption
    <2> QED BY <1>2, <2>1, AssembleKeeps, BuildOfflineKeeps
  <1>3. ASSUME NEW h \in Later, RebuildContent(h) PROVE AssemblyInv'
    BY <1>3, RebuildContentKeeps
  <1>4. ASSUME NEW list \in MinorChanges(found.list), NEW h \in Later, RebuildElements(list, h) PROVE AssemblyInv'
    <2>1. found.list \in Seq(Element)
      BY DEF AssemblyInv, SoundSource
    <2>2. PICK i \in DOMAIN found.list : list = RemoveAt(found.list, i)
      BY DEF MinorChanges
    <2> DEFINE s == found.list
    <2> HIDE DEF s
    <2>3. s \in Seq(Element) /\ i \in 1..Len(s) /\ Len(s) \in Nat
      BY <2>1, <2>2 DEF s
    <2>4. SubSeq(s, 1, i - 1) \in Seq(Element) /\ SubSeq(s, i + 1, Len(s)) \in Seq(Element)
      BY <2>3
    <2>5. SubSeq(s, 1, i - 1) \o SubSeq(s, i + 1, Len(s)) \in Seq(Element)
      BY <2>4
    <2>6. list \in Seq(Element)
      BY <2>2, <2>5 DEF RemoveAt, s
    <2> QED BY <1>4, <2>6, RebuildElementsKeeps
  <1>5. CASE UNCHANGED avars
    BY <1>5 DEF avars, AssemblyInv, SoundSource, AssemblyTypeOK, RefsNameTheirElements, BarrierButtonInMap
  <1> QED BY <1>1, <1>2, <1>3, <1>4, <1>5 DEF AssemblyNext

LEMMA AssemblyInvariant == AssemblySpec => []AssemblyInv
  BY AssemblyInvInit, AssemblyInvStep, PTL DEF AssemblySpec

\* A page map is a list of elements, one place among those detected for each of them
\* (core/page_map_builder.py).
THEOREM AssemblyTypeCorrect == AssemblySpec => []AssemblyTypeOK
  <1>1. AssemblyInv => AssemblyTypeOK
    BY DEF AssemblyInv
  <1> QED BY <1>1, AssemblyInvariant, PTL

\* Whatever the page, the room and the order of rebuilds, each ref of a map names an element of
\* that map which is what the name says, and the refs follow the order of the page.
THEOREM RefsAlwaysFit == AssemblySpec => []RefsNameTheirElements
  <1>1. AssemblyInv => RefsNameTheirElements
    BY DEF AssemblyInv
  <1> QED BY <1>1, AssemblyInvariant, PTL

\* The button of a barrier is a button of the map that answers the barrier: with_matched_ref
\* runs after the filter has renumbered the elements.
THEOREM BarrierButtonIsThere == AssemblySpec => []BarrierButtonInMap
  <1>1. AssemblyInv => BarrierButtonInMap
    BY DEF AssemblyInv
  <1> QED BY <1>1, AssemblyInvariant, PTL

-----------------------------------------------------------------------------
(***************************************************************************)
(* Sorting by a strict total order R of S.                                  *)
(***************************************************************************)
Orders(R, S) == /\ \A x \in S : <<x, x>> \notin R
                /\ \A x, y, z \in S : <<x, y>> \in R /\ <<y, z>> \in R => <<x, z>> \in R
                /\ \A x, y \in S : x = y \/ <<x, y>> \in R \/ <<y, x>> \in R
Below(R, S, i) == Cardinality({j \in S : <<j, i>> \in R})
SortedBy(S, R) == [k \in 1..Cardinality(S) |-> CHOOSE i \in S : Below(R, S, i) = k - 1]

LEMMA BelowGrows ==
  ASSUME NEW S, IsFiniteSet(S), NEW R, Orders(R, S), NEW i \in S, NEW j \in S, <<i, j>> \in R
  PROVE  Below(R, S, i) < Below(R, S, j)
  <1> DEFINE A == {x \in S : <<x, i>> \in R}
             B == {x \in S : <<x, j>> \in R}
  <1>1. A \in SUBSET B /\ i \in B /\ i \notin A /\ B \in SUBSET S
    BY DEF Orders
  <1> HIDE DEF A, B
  <1>2. IsFiniteSet(B)
    BY <1>1, FS_Subset
  <1>3. Cardinality(A) < Cardinality(B)
    BY <1>1, <1>2, FS_Subset, FS_CardinalityType
  <1> QED BY <1>3 DEF Below, A, B

LEMMA SortedLists ==
  ASSUME NEW S, IsFiniteSet(S), NEW R, Orders(R, S)
  PROVE  LET q == SortedBy(S, R)
             n == Cardinality(S)
         IN /\ n \in Nat /\ q \in [1..n -> S]
            /\ \A a, b \in 1..n : a < b => <<q[a], q[b]>> \in R
            /\ \A x \in S : \E a \in 1..n : q[a] = x
  <1> DEFINE q == SortedBy(S, R)
             n == Cardinality(S)
             r == [i \in S |-> Below(R, S, i) + 1]
  <1>1. n \in Nat
    BY FS_CardinalityType
  <1>2. ASSUME NEW i \in S PROVE Below(R, S, i) \in 0..(n - 1)
    <2> DEFINE A == {x \in S : <<x, i>> \in R}
    <2>1. A \in SUBSET S /\ i \notin A
      BY DEF Orders
    <2> HIDE DEF A
    <2>2. Cardinality(A) \in Nat /\ Cardinality(A) < Cardinality(S)
      BY <2>1, FS_Subset, FS_CardinalityType
    <2> QED BY <1>1, <2>2 DEF Below, A
  <1>3. \A i, j \in S : Below(R, S, i) = Below(R, S, j) => i = j
    <2> SUFFICES ASSUME NEW i \in S, NEW j \in S, Below(R, S, i) = Below(R, S, j), i # j PROVE FALSE
      OBVIOUS
    <2>1. <<i, j>> \in R \/ <<j, i>> \in R
      BY DEF Orders
    <2>2. Below(R, S, i) < Below(R, S, j) \/ Below(R, S, j) < Below(R, S, i)
      BY <2>1, BelowGrows
    <2>3. Below(R, S, i) \in Int /\ Below(R, S, j) \in Int
      BY <1>1, <1>2
    <2> QED BY <2>2, <2>3
  <1>4. r \in [S -> 1..n]
    BY <1>1, <1>2
  <1>5. IsFiniteSet(1..n) /\ Cardinality(1..n) = n
    <2> HIDE DEF n
    <2>1. 1 \in Int /\ n \in Int
      BY <1>1
    <2>2. IsFiniteSet(1..n) /\ Cardinality(1..n) = IF 1 > n THEN 0 ELSE n - 1 + 1
      BY <2>1, FS_Interval
    <2> QED BY <1>1, <2>2
  <1>6. r \in Injection(S, 1..n)
    <2>1. ASSUME NEW i \in S, NEW j \in S, r[i] = r[j] PROVE i = j
      BY <1>1, <1>2, <1>3, <2>1
    <2> QED BY <1>4, <2>1 DEF Injection, IsInjective
  <1>7. r \in Surjection(S, 1..n)
    <2> HIDE DEF r
    <2> QED BY <1>5, <1>6, FS_Injection
  <1>8. ASSUME NEW k \in 1..n PROVE \E i \in S : Below(R, S, i) = k - 1
    <2>1. PICK i \in S : r[i] = k
      BY <1>7 DEF Surjection
    <2> QED BY <1>1, <1>2, <2>1
  <1>9. \A k \in 1..n : q[k] \in S /\ Below(R, S, q[k]) = k - 1
    BY <1>8 DEF SortedBy
  <1>10. q \in [1..n -> S]
    BY <1>9 DEF SortedBy
  <1> HIDE DEF q, n
  <1>11. ASSUME NEW a \in 1..n, NEW b \in 1..n, a < b PROVE <<q[a], q[b]>> \in R
    <2>1. q[a] \in S /\ q[b] \in S /\ Below(R, S, q[a]) = a - 1 /\ Below(R, S, q[b]) = b - 1
      BY <1>9
    <2>2. q[a] # q[b]
      BY <1>1, <1>11, <2>1
    <2>3. <<q[b], q[a]>> \notin R
      <3> SUFFICES ASSUME <<q[b], q[a]>> \in R PROVE FALSE
        OBVIOUS
      <3>1. Below(R, S, q[b]) < Below(R, S, q[a])
        BY <2>1, BelowGrows
      <3> QED BY <1>1, <1>11, <2>1, <3>1
    <2> QED BY <2>1, <2>2, <2>3 DEF Orders
  <1>12. ASSUME NEW x \in S PROVE \E a \in 1..n : q[a] = x
    <2>1. Below(R, S, x) + 1 \in 1..n /\ Below(R, S, x) \in Nat
      BY <1>1, <1>2 DEF n
    <2>2. q[Below(R, S, x) + 1] \in S /\ Below(R, S, q[Below(R, S, x) + 1]) = Below(R, S, x)
      BY <1>9, <2>1
    <2>3. q[Below(R, S, x) + 1] = x
      BY <1>3, <2>2
    <2> QED BY <2>1, <2>3
  <1> QED BY <1>1, <1>10, <1>11, <1>12 DEF q, n

Sums(f, s, n) == f \in [0..n -> Nat] /\ f[0] = 0 /\ \A k \in 1..n : f[k] = f[k - 1] + s[k]
ButAt(s, t, n, p) == t[p] = 0 /\ \A k \in 1..n : k # p => t[k] = s[k]

\* One member of a sum is taken out: the partial sums agree up to it and differ by it from there.
LEMMA SumsDiffer ==
  ASSUME NEW n \in Nat, NEW s \in [1..n -> Nat], NEW t \in [1..n -> Nat], NEW p \in 1..n,
         ButAt(s, t, n, p), NEW f, Sums(f, s, n), NEW g, Sums(g, t, n)
  PROVE  f[n] = g[n] + s[p]
  <1> USE DEF Sums, ButAt
  <1> DEFINE Good(k) == f[k] = g[k] + (IF k < p THEN 0 ELSE s[p])
             Bad == {k \in 0..n : ~Good(k)}
  <1>1. Good(0)
    OBVIOUS
  <1>2. ASSUME NEW k \in 1..n, Good(k - 1) PROVE Good(k)
    <2>1. f[k] = f[k - 1] + s[k] /\ g[k] = g[k - 1] + t[k]
      OBVIOUS
    <2>2. f[k - 1] \in Nat /\ g[k - 1] \in Nat /\ s[k] \in Nat /\ t[k] \in Nat /\ s[p] \in Nat
      OBVIOUS
    <2>3. CASE k < p
      <3>1. t[k] = s[k] /\ k - 1 < p
        BY <2>3
      <3> QED BY <1>2, <2>1, <2>2, <2>3, <3>1
    <2>4. CASE k = p
      <3>1. t[k] = 0 /\ k - 1 < p /\ ~(k < p)
        BY <2>4
      <3> QED BY <1>2, <2>1, <2>2, <2>4, <3>1
    <2>5. CASE k > p
      <3>1. t[k] = s[k] /\ ~(k - 1 < p) /\ ~(k < p)
        BY <2>5
      <3> QED BY <1>2, <2>1, <2>2, <3>1
    <2> QED BY <2>3, <2>4, <2>5
  <1> HIDE DEF Good
  <1>3. Bad = {}
    <2> SUFFICES ASSUME Bad # {} PROVE FALSE
      OBVIOUS
    <2>1. PICK k \in Bad : \A m \in Bad : k <= m
      <3>1. Bad \in SUBSET Nat
        OBVIOUS
      <3> HIDE DEF Bad
      <3> QED BY <3>1, LeastExists
    <2>2. k \in 0..n /\ ~Good(k)
      OBVIOUS
    <2>3. k # 0
      BY <1>1, <2>2
    <2>4. k \in 1..n /\ k - 1 \in 0..n /\ ~(k <= k - 1)
      BY <2>2, <2>3
    <2>5. Good(k - 1)
      BY <2>1, <2>4
    <2> QED BY <1>2, <2>2, <2>4, <2>5
  <1>4. Good(n)
    <2>1. n \in 0..n
      OBVIOUS
    <2> QED BY <1>3, <2>1
  <1> QED BY <1>4 DEF Good

LEMMA SumWithout ==
  ASSUME NEW s \in Seq(Nat), NEW t \in Seq(Nat), NEW p \in DOMAIN s, Len(s) = Len(t),
         t[p] = 0, \A k \in DOMAIN s : k # p => t[k] = s[k]
  PROVE  SumOf(s) = SumOf(t) + s[p]
  <1> DEFINE n == Len(s)
  <1>1. n \in Nat /\ s \in [1..n -> Nat] /\ t \in [1..n -> Nat] /\ DOMAIN s = 1..n /\ Len(t) = n
    BY LenProperties
  <1>2. PICK f : Sums(f, s, n) /\ f[n] = SumOf(s)
    BY SumSteps DEF Sums
  <1>3. PICK g : Sums(g, t, Len(t)) /\ g[Len(t)] = SumOf(t)
    BY SumSteps DEF Sums
  <1> HIDE DEF n
  <1>4. p \in 1..n /\ ButAt(s, t, n, p)
    BY <1>1 DEF ButAt
  <1>5. Sums(g, t, n) /\ g[n] = SumOf(t)
    BY <1>1, <1>3
  <1>6. f[n] = g[n] + s[p]
    BY <1>1, <1>2, <1>4, <1>5, SumsDiffer
  <1> QED BY <1>2, <1>5, <1>6

-----------------------------------------------------------------------------
(***************************************************************************)
(* apply_budget_selection: what a budget drops.                             *)
(***************************************************************************)
\* What the properties need of a decision and of the chunk it is about.
Reasons == DOMAIN _REASON_SCORES
Decision == [keep : BOOLEAN, reason : Reasons, score : Nat, fit : Int, tier : {"none"}, dropped : BOOLEAN]
Decides(cs, ds) == /\ cs \in Seq(Chunk) /\ ds \in Seq(Decision) /\ Len(cs) = Len(ds)
                   /\ \A i \in DOMAIN ds : ~ds[i].dropped

LEMMA EffectiveType ==
  ASSUME NEW d \in Decision PROVE Effective(d) \in Int
  <1>1. d.score \in Nat /\ d.fit \in Int
    BY DEF Decision
  <1>2. (30 * d.fit) \div 100 \in Int
    BY <1>1
  <1>3. d.score * (70 + (30 * d.fit) \div 100) \in Int
    <2> DEFINE a == d.score
               b == (30 * d.fit) \div 100
    <2>1. a \in Int /\ b \in Int
      BY <1>1, <1>2
    <2> HIDE DEF a, b
    <2>2. a * (70 + b) \in Int
      BY <2>1
    <2> QED BY <2>2 DEF a, b
  <1> QED BY <1>1, <1>3 DEF Effective

LEMMA WorseOrders ==
  ASSUME NEW cs, NEW ds, Decides(cs, ds), NEW R,
         R = {p \in Droppable(ds) \X Droppable(ds) : Worse(cs, ds, p[1], p[2])}
  PROVE  Orders(R, Droppable(ds))
  <1> DEFINE D == Droppable(ds)
  <1>1. \A i \in D : i \in Int /\ Effective(ds[i]) \in Int /\ cs[i].depth \in Int
    <2> SUFFICES ASSUME NEW i \in D PROVE i \in Int /\ Effective(ds[i]) \in Int /\ cs[i].depth \in Int
      OBVIOUS
    <2>1. i \in DOMAIN ds /\ i \in DOMAIN cs /\ i \in Int
      BY DEF Droppable, Decides
    <2>2. ds[i] \in Decision /\ cs[i] \in Chunk
      BY <2>1 DEF Decides
    <2>3. cs[i].depth \in Int
      BY <2>2 DEF Chunk
    <2> QED BY <2>1, <2>2, <2>3, EffectiveType
  <1> DEFINE Ws(i, j) == Worse(cs, ds, i, j)
  <1>2. \A i \in D : ~Ws(i, i)
    BY <1>1 DEF Worse
  <1>3. ASSUME NEW i \in D, NEW j \in D, NEW k \in D, Ws(i, j), Ws(j, k) PROVE Ws(i, k)
    BY <1>1, <1>3 DEF Worse
  <1>4. ASSUME NEW i \in D, NEW j \in D PROVE i = j \/ Ws(i, j) \/ Ws(j, i)
    BY <1>1 DEF Worse
  <1> HIDE DEF D, Ws
  <1>5. \A i, j \in D : <<i, j>> \in R <=> Ws(i, j)
    BY DEF D, Ws
  <1>6. Orders(R, D)
    BY <1>2, <1>3, <1>4, <1>5 DEF Orders
  <1> QED BY <1>6 DEF D

DropOrder(cs, ds) == Sorted(Droppable(ds), LAMBDA i, j : Worse(cs, ds, i, j))

LEMMA DropOrderLists ==
  ASSUME NEW cs, NEW ds, Decides(cs, ds)
  PROVE  LET q == DropOrder(cs, ds)
             n == Cardinality(Droppable(ds))
         IN /\ n \in Nat /\ q \in [1..n -> Droppable(ds)]
            /\ \A a, b \in 1..n : a < b => Worse(cs, ds, q[a], q[b]) /\ q[a] # q[b]
            /\ \A i \in Droppable(ds) : \E a \in 1..n : q[a] = i
  <1> DEFINE D == Droppable(ds)
             R == {p \in D \X D : Worse(cs, ds, p[1], p[2])}
             q == SortedBy(D, R)
             n == Cardinality(D)
  <1>1. IsFiniteSet(D)
    <2>1. DOMAIN ds = 1..Len(ds) /\ Len(ds) \in Nat /\ D \in SUBSET (DOMAIN ds)
      BY DEF Decides, Droppable
    <2>2. IsFiniteSet(1..Len(ds))
      BY <2>1, FS_Interval
    <2> QED BY <2>1, <2>2, FS_Subset
  <1>2. Orders(R, D)
    BY WorseOrders
  <1>3. DropOrder(cs, ds) = q
    <2>1. \A i \in D : {j \in D : Worse(cs, ds, j, i)} = {j \in D : <<j, i>> \in R}
      <3> HIDE DEF D
      <3> QED OBVIOUS
    <2> HIDE DEF R
    <2>2. \A i \in D : Cardinality({j \in D : Worse(cs, ds, j, i)}) = Below(R, D, i)
      BY <2>1 DEF Below
    <2> HIDE DEF D
    <2>3. \A k : (CHOOSE i \in D : Cardinality({j \in D : Worse(cs, ds, j, i)}) = k - 1)
                   = (CHOOSE i \in D : Below(R, D, i) = k - 1)
      BY <2>2
    <2>4. Sorted(D, LAMBDA i, j : Worse(cs, ds, i, j))
            = [k \in 1..Cardinality(D) |-> CHOOSE i \in D : Cardinality({j \in D : Worse(cs, ds, j, i)}) = k - 1]
      BY Zenon DEF Sorted
    <2>5. q = [k \in 1..Cardinality(D) |-> CHOOSE i \in D : Below(R, D, i) = k - 1]
      BY Zenon DEF SortedBy
    <2>6. Sorted(D, LAMBDA i, j : Worse(cs, ds, i, j)) = q
      BY <2>3, <2>4, <2>5
    <2> QED BY <2>6, Zenon DEF DropOrder, D
  <1>4. \A i, j : <<i, j>> \in R => Worse(cs, ds, i, j)
    <2> HIDE DEF D
    <2> QED OBVIOUS
  <1> HIDE DEF R
  <1>5. /\ n \in Nat /\ q \in [1..n -> D]
        /\ \A a, b \in 1..n : a < b => <<q[a], q[b]>> \in R
        /\ \A i \in D : \E a \in 1..n : q[a] = i
    BY <1>1, <1>2, SortedLists
  <1>6. \A i \in D : <<i, i>> \notin R
    BY <1>2 DEF Orders
  <1> HIDE DEF q, D
  <1>7. \A a, b \in 1..n : a < b => q[a] # q[b]
    BY <1>5, <1>6
  <1> QED BY <1>3, <1>4, <1>5, <1>7 DEF D

\* The decisions once the first m of the order are dropped.
Dropped(ds, q, m) ==
  [i \in DOMAIN ds |-> IF \E a \in 1..m : q[a] = i THEN [ds[i] EXCEPT !.keep = FALSE, !.dropped = TRUE] ELSE ds[i]]

LEMMA DroppedType ==
  ASSUME NEW ds \in Seq(Decision), NEW q, NEW m
  PROVE  /\ Dropped(ds, q, m) \in [DOMAIN ds -> Decision] /\ DOMAIN Dropped(ds, q, m) = DOMAIN ds
         /\ \A i \in DOMAIN ds :
              LET d == Dropped(ds, q, m)[i] IN
              IF \E a \in 1..m : q[a] = i
              THEN ~d.keep /\ d.dropped /\ d.reason = ds[i].reason /\ d.score = ds[i].score /\ d.fit = ds[i].fit
              ELSE d = ds[i]
  <1>1. ASSUME NEW d \in Decision
        PROVE  LET e == [d EXCEPT !.keep = FALSE, !.dropped = TRUE] IN
               e \in Decision /\ ~e.keep /\ e.dropped /\ e.reason = d.reason /\ e.score = d.score /\ e.fit = d.fit
    BY DEF Decision
  <1>2. \A i \in DOMAIN ds : ds[i] \in Decision
    OBVIOUS
  <1> QED BY <1>1, <1>2 DEF Dropped

Lists(q, n, D) == q \in [1..n -> D] /\ \A a, b \in 1..n : a < b => q[a] # q[b]

LEMMA DropsInOrder ==
  ASSUME NEW cs, NEW ds \in Seq(Decision), NEW budget, NEW q, NEW n \in Nat, NEW m \in 1..n,
         Lists(q, n, DOMAIN ds), ~(KeptTokens(cs, Dropped(ds, q, m - 1)) <= budget)
  PROVE  DropNext(cs, budget, Dropped(ds, q, m - 1), q[m]) = Dropped(ds, q, m)
  <1> DEFINE t == Dropped(ds, q, m - 1)
             i == q[m]
             u == [t EXCEPT ![i].keep = FALSE, ![i].dropped = TRUE]
  <1>1. i \in DOMAIN ds /\ ~\E a \in 1..(m - 1) : q[a] = i
    <2>1. \A a \in 1..(m - 1) : a \in 1..n /\ a < m
      OBVIOUS
    <2> QED BY <2>1 DEF Lists
  <1>2. DOMAIN t = DOMAIN ds /\ t[i] = ds[i]
    BY <1>1, DroppedType
  <1>3. DropNext(cs, budget, t, i) = u
    BY Zenon DEF DropNext
  <1>4. \A j \in DOMAIN ds : (\E a \in 1..m : q[a] = j) <=> (j = i \/ \E a \in 1..(m - 1) : q[a] = j)
    <2>1. 1..m = (1..(m - 1)) \cup {m}
      OBVIOUS
    <2> QED BY <2>1
  <1>5. \A j \in DOMAIN ds : j # i => Dropped(ds, q, m)[j] = t[j]
    BY <1>4 DEF Dropped
  <1>6. Dropped(ds, q, m)[i] = [ds[i] EXCEPT !.keep = FALSE, !.dropped = TRUE]
    BY <1>1, <1>4 DEF Dropped
  <1> HIDE DEF t
  <1> DEFINE e == [ds[i] EXCEPT !.keep = FALSE, !.dropped = TRUE]
  <1>7. u = [t EXCEPT ![i] = e]
    BY <1>2, Zenon
  <1> HIDE DEF u, e, i
  <1>8. DOMAIN Dropped(ds, q, m) = DOMAIN ds
    BY DEF Dropped
  <1>9. Dropped(ds, q, m) = [j \in DOMAIN ds |-> Dropped(ds, q, m)[j]]
    BY DEF Dropped
  <1>10. \A j \in DOMAIN ds : u[j] = Dropped(ds, q, m)[j]
    BY <1>1, <1>2, <1>5, <1>6, <1>7 DEF e
  <1>11. u = [j \in DOMAIN ds |-> u[j]]
    BY <1>2, <1>7
  <1>12. u = Dropped(ds, q, m)
    BY <1>9, <1>10, <1>11
  <1> QED BY <1>3, <1>12 DEF t, i

\* The first m are dropped, no more than needed; after k steps of the loop.
Stopped(cs, ds, budget, q, k, t) ==
  \E m \in 0..k : /\ t = Dropped(ds, q, m)
                  /\ m = k \/ KeptTokens(cs, t) <= budget
                  /\ m = 0 \/ ~(KeptTokens(cs, Dropped(ds, q, m - 1)) <= budget)

LEMMA NothingDropped ==
  ASSUME NEW ds \in Seq(Decision), NEW q PROVE Dropped(ds, q, 0) = ds
  <1>1. 1..0 = {} /\ ds = [i \in DOMAIN ds |-> ds[i]]
    OBVIOUS
  <1> QED BY <1>1 DEF Dropped

LEMMA StoppedStep ==
  ASSUME NEW cs, NEW ds \in Seq(Decision), NEW budget, NEW q, NEW n \in Nat, NEW k \in 1..n, NEW t,
         Lists(q, n, DOMAIN ds), Stopped(cs, ds, budget, q, k - 1, t)
  PROVE  Stopped(cs, ds, budget, q, k, DropNext(cs, budget, t, q[k]))
  <1>1. PICK m \in 0..(k - 1) :
          /\ t = Dropped(ds, q, m)
          /\ m = k - 1 \/ KeptTokens(cs, t) <= budget
          /\ m = 0 \/ ~(KeptTokens(cs, Dropped(ds, q, m - 1)) <= budget)
    BY DEF Stopped
  <1>2. CASE KeptTokens(cs, t) <= budget
    <2>1. DropNext(cs, budget, t, q[k]) = t
      BY <1>2 DEF DropNext
    <2>2. m \in 0..k
      OBVIOUS
    <2> QED BY <1>1, <1>2, <2>1, <2>2 DEF Stopped
  <1>3. CASE ~(KeptTokens(cs, t) <= budget)
    <2>1. m = k - 1
      BY <1>1, <1>3
    <2>2. DropNext(cs, budget, t, q[k]) = Dropped(ds, q, k)
      <3>1. t = Dropped(ds, q, k - 1) /\ ~(KeptTokens(cs, Dropped(ds, q, k - 1)) <= budget)
        BY <1>1, <1>3, <2>1
      <3>2. DropNext(cs, budget, Dropped(ds, q, k - 1), q[k]) = Dropped(ds, q, k)
        BY <3>1, DropsInOrder
      <3> QED BY <3>1, <3>2
    <2>3. k \in 0..k /\ ~(KeptTokens(cs, Dropped(ds, q, k - 1)) <= budget)
      BY <1>1, <1>3, <2>1
    <2> QED BY <2>2, <2>3 DEF Stopped
  <1> QED BY <1>2, <1>3

LEMMA DropNextType ==
  ASSUME NEW cs, NEW budget, NEW D, NEW t \in [D -> Decision], NEW i \in D
  PROVE  DropNext(cs, budget, t, i) \in [D -> Decision]
  <1> DEFINE u == [t EXCEPT ![i].keep = FALSE, ![i].dropped = TRUE]
             e == [t[i] EXCEPT !.keep = FALSE, !.dropped = TRUE]
  <1>1. e \in Decision
    BY DEF Decision
  <1>2. u = [t EXCEPT ![i] = e]
    BY Zenon
  <1> HIDE DEF e
  <1>3. u \in [D -> Decision]
    BY <1>1, <1>2
  <1>4. DropNext(cs, budget, t, i) = t \/ DropNext(cs, budget, t, i) = u
    BY Zenon DEF DropNext
  <1> QED BY <1>3, <1>4

LEMMA AffordableStops ==
  ASSUME NEW cs, NEW ds, Decides(cs, ds), NEW budget
  PROVE  Stopped(cs, ds, budget, DropOrder(cs, ds), Cardinality(Droppable(ds)), Affordable(cs, ds, budget))
  <1> DEFINE q == DropOrder(cs, ds)
             n == Cardinality(Droppable(ds))
             T == [DOMAIN ds -> Decision]
             H == [p \in (1..n) \X T |-> DropNext(cs, budget, p[2], q[p[1]])]
             Is(it) == it = [S \in SUBSET (1..n) |->
                               IF S = {} THEN ds ELSE DropNext(cs, budget, it[S \ {Max(S)}], q[Max(S)])]
             c == CHOOSE it : Is(it)
             A == Affordable(cs, ds, budget)
  <1>1. /\ n \in Nat /\ q \in [1..n -> Droppable(ds)]
        /\ \A a, b \in 1..n : a < b => q[a] # q[b]
    BY DropOrderLists
  <1>2. q \in [1..n -> DOMAIN ds] /\ DOMAIN q = 1..n /\ ds \in T /\ ds \in Seq(Decision)
    BY <1>1 DEF Droppable, Decides
  <1>3. A = c[1..n]
    <2>1. A = LET it == CHOOSE it : it = [S \in SUBSET (DOMAIN q) |->
                               IF S = {} THEN ds ELSE DropNext(cs, budget, it[S \ {Max(S)}], q[Max(S)])]
              IN it[DOMAIN q]
      BY Zenon DEF Affordable, FoldLeft, MapThenFoldSet, DropOrder
    <2> HIDE DEF q, n
    <2> QED BY <1>2, <2>1
  <1> HIDE DEF A, q, n
  <1>4. H \in [(1..n) \X T -> T] /\ \A k \in 1..n, t \in T : H[<<k, t>>] = DropNext(cs, budget, t, q[k])
    BY <1>2, DropNextType
  <1> HIDE DEF H, T
  <1>5. PICK it \in [SUBSET (1..n) -> T] : Folds(it, ds, n, H)
    BY <1>1, <1>2, <1>4, FoldExists
  <1>6. Is(it)
    <2>1. ASSUME NEW S \in SUBSET (1..n), S # {}
          PROVE  H[<<Max(S), it[S \ {Max(S)}]>>] = DropNext(cs, budget, it[S \ {Max(S)}], q[Max(S)])
      <3>1. Max(S) \in 1..n /\ S \ {Max(S)} \in SUBSET (1..n)
        BY <1>1, <2>1, MaxIsGreatest
      <3>2. it[S \ {Max(S)}] \in T
        BY <3>1
      <3> QED BY <1>4, <3>1, <3>2
    <2> QED BY <1>5, <2>1 DEF Folds
  <1>7. Is(c)
    BY <1>6
  <1> HIDE DEF c
  <1>8. c[{}] = ds
    BY <1>7
  <1>9. ASSUME NEW k \in 1..n PROVE c[1..k] = DropNext(cs, budget, c[1..(k - 1)], q[k])
    <2>1. 1..k \in SUBSET (1..n) /\ 1..k # {} /\ Max(1..k) = k /\ (1..k) \ {Max(1..k)} = 1..(k - 1)
      BY <1>1, Beginnings
    <2> QED BY <1>7, <2>1
  <1> DEFINE Bad == {k \in 0..n : ~Stopped(cs, ds, budget, q, k, c[1..k])}
  <1>10. Bad = {}
    <2> SUFFICES ASSUME Bad # {} PROVE FALSE
      OBVIOUS
    <2>1. PICK k \in Bad : \A l \in Bad : k <= l
      <3>1. Bad \in SUBSET Nat
        BY <1>1
      <3> HIDE DEF Bad
      <3> QED BY <3>1, LeastExists
    <2>2. k \in 0..n /\ ~Stopped(cs, ds, budget, q, k, c[1..k])
      OBVIOUS
    <2>3. k # 0
      <3>1. 1..0 = {} /\ c[{}] = Dropped(ds, q, 0)
        BY <1>2, <1>8, NothingDropped
      <3>2. Stopped(cs, ds, budget, q, 0, c[1..0])
        BY <3>1 DEF Stopped
      <3> QED BY <2>2, <3>2
    <2>4. k \in 1..n /\ k - 1 \in 0..n /\ ~(k <= k - 1)
      BY <1>1, <2>2, <2>3
    <2>5. k - 1 \notin Bad
      <3> HIDE DEF Bad
      <3> QED BY <2>1, <2>4
    <2>6. Stopped(cs, ds, budget, q, k - 1, c[1..(k - 1)])
      BY <2>4, <2>5
    <2>7. Stopped(cs, ds, budget, q, k, DropNext(cs, budget, c[1..(k - 1)], q[k]))
      <3>1. Lists(q, n, DOMAIN ds)
        BY <1>1, <1>2 DEF Lists
      <3> QED BY <1>1, <1>2, <2>4, <2>6, <3>1, StoppedStep
    <2> QED BY <1>9, <2>2, <2>4, <2>7
  <1>11. n \in 0..n
    BY <1>1
  <1>12. Stopped(cs, ds, budget, q, n, c[1..n])
    BY <1>10, <1>11
  <1> QED BY <1>3, <1>12 DEF A, q, n

DropsLeast(cs, ds, budget) ==
  LET dropped == {i \in DOMAIN ds : ds[i].dropped}
      kept == KeptTokens(cs, ds)
  IN /\ kept <= budget \/ Droppable(ds) = {}
     /\ \A i \in dropped : ds[i].reason # "META_ALWAYS" /\ ~ds[i].keep
     /\ \A i \in dropped, j \in Droppable(ds) :
          \/ Effective(ds[i]) < Effective(ds[j])
          \/ Effective(ds[i]) = Effective(ds[j]) /\ cs[i].depth >= cs[j].depth
     /\ dropped # {} => \E i \in dropped : kept + cs[i].tok > budget

LEMMA KeptOf ==
  ASSUME NEW cs \in Seq(Chunk), NEW ds, Len(cs) \in Nat, DOMAIN ds = 1..Len(cs),
         \A i \in DOMAIN ds : ds[i] \in Decision
  PROVE  LET s == [i \in DOMAIN ds |-> IF ds[i].keep THEN cs[i].tok ELSE 0] IN
         s \in Seq(Nat) /\ KeptTokens(cs, ds) = SumOf(s) /\ KeptTokens(cs, ds) \in Nat
  <1> DEFINE s == [i \in DOMAIN ds |-> IF ds[i].keep THEN cs[i].tok ELSE 0]
  <1>1. \A i \in 1..Len(cs) : cs[i].tok \in Nat
    <2>1. \A i \in 1..Len(cs) : cs[i] \in Chunk
      OBVIOUS
    <2> QED BY <2>1 DEF Chunk
  <1>2. s \in Seq(Nat)
    BY <1>1
  <1>3. KeptTokens(cs, ds) = SumOf(s)
    BY Zenon DEF KeptTokens
  <1> HIDE DEF s
  <1>4. SumOf(s) \in Nat
    BY <1>2, SumType
  <1> QED BY <1>2, <1>3, <1>4 DEF s

\* What is dropped comes first in the order, and the last of it was needed.
LEMMA AffordableDropsLeast ==
  ASSUME NEW cs, NEW ds, Decides(cs, ds), NEW budget \in Nat
  PROVE  DropsLeast(cs, Affordable(cs, ds, budget), budget)
  <1> DEFINE q == DropOrder(cs, ds)
             D == Droppable(ds)
             n == Cardinality(D)
             A == Affordable(cs, ds, budget)
  <1>1. /\ n \in Nat /\ q \in [1..n -> D]
        /\ \A a, b \in 1..n : a < b => Worse(cs, ds, q[a], q[b]) /\ q[a] # q[b]
        /\ \A i \in D : \E a \in 1..n : q[a] = i
    BY DropOrderLists
  <1>2. PICK m \in 0..n : /\ A = Dropped(ds, q, m)
                          /\ m = n \/ KeptTokens(cs, A) <= budget
                          /\ m = 0 \/ ~(KeptTokens(cs, Dropped(ds, q, m - 1)) <= budget)
    BY AffordableStops DEF Stopped
  <1>3. /\ cs \in Seq(Chunk) /\ ds \in Seq(Decision) /\ DOMAIN ds = 1..Len(cs) /\ Len(cs) \in Nat
        /\ \A i \in DOMAIN ds : ~ds[i].dropped
    BY DEF Decides
  <1> HIDE DEF A, q, n
  <1>3a. /\ A \in [DOMAIN ds -> Decision]
        /\ \A i \in DOMAIN ds :
             LET d == Dropped(ds, q, m)[i] IN
             IF \E a \in 1..m : q[a] = i
             THEN ~d.keep /\ d.dropped /\ d.reason = ds[i].reason /\ d.score = ds[i].score /\ d.fit = ds[i].fit
             ELSE d = ds[i]
    BY <1>2, <1>3, DroppedType
  <1>4. /\ DOMAIN A = DOMAIN ds /\ \A i \in DOMAIN ds : A[i] \in Decision
        /\ \A i \in DOMAIN ds : IF \E a \in 1..m : q[a] = i
                                THEN ~A[i].keep /\ A[i].dropped /\ A[i].reason = ds[i].reason
                                     /\ A[i].score = ds[i].score /\ A[i].fit = ds[i].fit
                                ELSE A[i] = ds[i]
    BY <1>2, <1>3a
  <1>5. \A i \in DOMAIN A : A[i].dropped <=> \E a \in 1..m : q[a] = i
    BY <1>3, <1>4
  <1>6. \A i \in DOMAIN A : Effective(A[i]) = Effective(ds[i])
    BY <1>4 DEF Effective
  <1>7. \A a \in 1..m : a \in 1..n /\ q[a] \in D
    BY <1>1
  <1>8. ASSUME NEW j \in Droppable(A) PROVE j \in D /\ \E b \in 1..n : b > m /\ q[b] = j
    <2>1. j \in DOMAIN ds /\ A[j].keep /\ A[j].reason # "META_ALWAYS"
      BY <1>4 DEF Droppable
    <2>2. ~\E a \in 1..m : q[a] = j
      BY <1>4, <2>1
    <2>3. j \in D
      BY <1>4, <2>1, <2>2 DEF Droppable
    <2>4. PICK b \in 1..n : q[b] = j
      BY <1>1, <2>3
    <2>5. b > m
      BY <1>1, <2>2, <2>4
    <2> QED BY <2>3, <2>4, <2>5
  <1>9. KeptTokens(cs, A) <= budget \/ Droppable(A) = {}
    <2>1. CASE m = n
      <3>1. ~\E b \in 1..n : b > m
        BY <1>1, <2>1
      <3> QED BY <1>8, <3>1
    <2> QED BY <1>2, <2>1
  <1>10. ASSUME NEW i \in DOMAIN A, A[i].dropped PROVE A[i].reason # "META_ALWAYS" /\ ~A[i].keep
    <2>1. \E a \in 1..m : q[a] = i
      BY <1>5, <1>10
    <2>2. i \in D
      BY <1>7, <2>1
    <2> QED BY <1>4, <2>1, <2>2 DEF Droppable
  <1>11. ASSUME NEW i \in DOMAIN A, A[i].dropped, NEW j \in Droppable(A)
         PROVE  \/ Effective(A[i]) < Effective(A[j])
                \/ Effective(A[i]) = Effective(A[j]) /\ cs[i].depth >= cs[j].depth
    <2>1. PICK a \in 1..m : q[a] = i
      BY <1>5, <1>11
    <2>2. PICK b \in 1..n : b > m /\ q[b] = j
      BY <1>8
    <2>3. a \in 1..n /\ a < b
      BY <1>7, <2>1, <2>2
    <2>4. Worse(cs, ds, i, j)
      BY <1>1, <2>1, <2>2, <2>3
    <2>5. i \in 1..Len(cs) /\ j \in 1..Len(cs) /\ i \in DOMAIN A /\ j \in DOMAIN A
      BY <1>3, <1>4 DEF Droppable
    <2>6. cs[i] \in Chunk /\ cs[j] \in Chunk
      BY <1>3, <2>5
    <2>7. cs[i].depth \in Nat /\ cs[j].depth \in Nat
      BY <2>6 DEF Chunk
    <2>8. Effective(A[i]) = Effective(ds[i]) /\ Effective(A[j]) = Effective(ds[j])
      BY <1>6, <2>5
    <2> QED BY <2>4, <2>7, <2>8 DEF Worse
  <1>12. ASSUME NEW x \in DOMAIN A, A[x].dropped
         PROVE  \E i \in DOMAIN A : A[i].dropped /\ KeptTokens(cs, A) + cs[i].tok > budget
    <2>1. m \in 1..n /\ m \in 1..m
      <3>1. PICK a \in 1..m : q[a] = x
        BY <1>5, <1>12
      <3> QED BY <1>1, <3>1
    <2> DEFINE i == q[m]
               B == Dropped(ds, q, m - 1)
               s == [k \in DOMAIN B |-> IF B[k].keep THEN cs[k].tok ELSE 0]
               t == [k \in DOMAIN A |-> IF A[k].keep THEN cs[k].tok ELSE 0]
    <2>2. i \in D /\ i \in DOMAIN ds /\ ds[i].keep /\ A[i].dropped /\ ~A[i].keep
      <3>1. i \in D
        BY <1>7, <2>1
      <3>2. i \in DOMAIN ds /\ ds[i].keep
        BY <3>1 DEF Droppable
      <3> QED BY <1>4, <2>1, <3>1, <3>2
    <2>3. ~\E a \in 1..(m - 1) : q[a] = i
      <3>1. \A a \in 1..(m - 1) : a \in 1..n /\ a < m
        BY <1>1, <2>1
      <3> QED BY <1>1, <2>1, <3>1
    <2>4. /\ DOMAIN B = DOMAIN ds /\ \A k \in DOMAIN ds : B[k] \in Decision
          /\ B[i] = ds[i]
      BY <1>3, <2>2, <2>3, DroppedType
    <2>5. \A k \in DOMAIN ds : k # i => A[k] = B[k]
      <3>1. 1..m = (1..(m - 1)) \cup {m}
        BY <2>1
      <3>2. \A k \in DOMAIN ds : k # i => ((\E a \in 1..m : q[a] = k) <=> (\E a \in 1..(m - 1) : q[a] = k))
        BY <3>1
      <3> HIDE DEF i
      <3> QED BY <1>2, <3>2 DEF Dropped
    <2> HIDE DEF B
    <2>6. s \in Seq(Nat) /\ KeptTokens(cs, B) = SumOf(s)
      BY <1>3, <2>4, KeptOf
    <2>7. t \in Seq(Nat) /\ KeptTokens(cs, A) = SumOf(t) /\ KeptTokens(cs, A) \in Nat
      BY <1>3, <1>4, KeptOf
    <2>8. /\ i \in DOMAIN s /\ DOMAIN s = DOMAIN t /\ t[i] = 0 /\ s[i] = cs[i].tok
          /\ \A k \in DOMAIN s : k # i => t[k] = s[k]
      BY <1>4, <2>2, <2>4, <2>5
    <2> HIDE DEF s, t, i
    <2>9. Len(s) = Len(t)
      BY <2>6, <2>7, <2>8
    <2>10. SumOf(s) = SumOf(t) + s[i]
      BY <2>6, <2>7, <2>8, <2>9, SumWithout
    <2>11. KeptTokens(cs, B) = KeptTokens(cs, A) + cs[i].tok /\ ~(KeptTokens(cs, B) <= budget)
      BY <1>2, <2>1, <2>6, <2>7, <2>8, <2>10 DEF B
    <2>12. s[i] \in Nat
      BY <2>6, <2>8
    <2>13. KeptTokens(cs, A) + cs[i].tok > budget
      BY <2>7, <2>8, <2>11, <2>12
    <2> QED BY <1>4, <2>2, <2>13 DEF i
  <1>13. DropsLeast(cs, A, budget)
    <2> DEFINE dropped == {i \in DOMAIN A : A[i].dropped}
    <2>1. \A i \in dropped : A[i].reason # "META_ALWAYS" /\ ~A[i].keep
      BY <1>10
    <2>2. \A i \in dropped, j \in Droppable(A) :
            \/ Effective(A[i]) < Effective(A[j])
            \/ Effective(A[i]) = Effective(A[j]) /\ cs[i].depth >= cs[j].depth
      BY <1>11
    <2>3. dropped # {} => \E i \in dropped : KeptTokens(cs, A) + cs[i].tok > budget
      BY <1>12
    <2> QED BY <1>9, <2>1, <2>2, <2>3 DEF DropsLeast
  <1> QED BY <1>13 DEF A

-----------------------------------------------------------------------------
(***************************************************************************)
(* The stages before: chunks stay chunks, and each gets one decision.        *)
(***************************************************************************)
LEMMA JoinedType ==
  ASSUME NEW b \in Chunk, NEW c \in Chunk PROVE Joined(b, c) \in Chunk
  <1> DEFINE j1 == [b EXCEPT !.of = b.of \o c.of]
             j2 == [j1 EXCEPT !.len = b.len + 1 + c.len]
             j3 == [j2 EXCEPT !.tok = b.tok + c.tok]
             j4 == [j3 EXCEPT !.says = b.says \cup c.says]
             j5 == [j4 EXCEPT !.main = b.main \/ c.main]
  <1>1. /\ b.of \in Seq(Nat) /\ c.of \in Seq(Nat) /\ b.len \in Nat /\ c.len \in Nat /\ b.tok \in Nat /\ c.tok \in Nat
        /\ b.says \in SUBSET STRING /\ c.says \in SUBSET STRING /\ b.main \in BOOLEAN /\ c.main \in BOOLEAN
    BY DEF Chunk
  <1>2. j1 \in Chunk /\ j1.len = b.len /\ j1.tok = b.tok /\ j1.says = b.says /\ j1.main = b.main
    <2>1. b.of \o c.of \in Seq(Nat)
      BY <1>1
    <2> QED BY <2>1 DEF Chunk
  <1> HIDE DEF j1
  <1>3. j2 \in Chunk /\ j2.tok = b.tok /\ j2.says = b.says /\ j2.main = b.main
    <2>1. b.len + 1 + c.len \in Nat
      BY <1>1
    <2> QED BY <1>2, <2>1 DEF Chunk
  <1> HIDE DEF j2
  <1>4. j3 \in Chunk /\ j3.says = b.says /\ j3.main = b.main
    <2>1. b.tok + c.tok \in Nat
      BY <1>1
    <2> QED BY <1>3, <2>1 DEF Chunk
  <1> HIDE DEF j3
  <1>5. j4 \in Chunk /\ j4.main = b.main
    <2>1. b.says \cup c.says \in SUBSET STRING
      BY <1>1
    <2> QED BY <1>4, <2>1 DEF Chunk
  <1> HIDE DEF j4
  <1>6. j5 \in Chunk
    <2>1. (b.main \/ c.main) \in BOOLEAN
      BY <1>1
    <2> QED BY <1>5, <2>1 DEF Chunk
  <1>7. Joined(b, c) = j5
    BY <1>2, <1>3, <1>4, <1>5, Zenon DEF Joined, j4, j3, j2, j1
  <1> QED BY <1>6, <1>7

LEMMA JoinedAllType ==
  ASSUME NEW b \in Chunk, NEW s \in Seq(Chunk) PROVE FoldLeft(Joined, b, s) \in Chunk
  <1> DEFINE N == Len(s)
             H == [p \in (1..N) \X Chunk |-> Joined(p[2], s[p[1]])]
             Is(it) == it = [S \in SUBSET (1..N) |-> IF S = {} THEN b ELSE Joined(it[S \ {Max(S)}], s[Max(S)])]
             c == CHOOSE it : Is(it)
  <1>1. N \in Nat /\ DOMAIN s = 1..N /\ \A k \in 1..N : s[k] \in Chunk
    OBVIOUS
  <1>2. FoldLeft(Joined, b, s) = c[1..N]
    BY <1>1, Zenon DEF FoldLeft, MapThenFoldSet
  <1>3. H \in [(1..N) \X Chunk -> Chunk] /\ \A k \in 1..N, t \in Chunk : H[<<k, t>>] = Joined(t, s[k])
    BY <1>1, JoinedType
  <1> HIDE DEF H, N
  <1>4. PICK it \in [SUBSET (1..N) -> Chunk] : Folds(it, b, N, H)
    BY <1>1, <1>3, FoldExists
  <1>5. Is(it)
    <2>1. ASSUME NEW S \in SUBSET (1..N), S # {}
          PROVE  H[<<Max(S), it[S \ {Max(S)}]>>] = Joined(it[S \ {Max(S)}], s[Max(S)])
      <3>1. Max(S) \in 1..N /\ S \ {Max(S)} \in SUBSET (1..N)
        BY <1>1, <2>1, MaxIsGreatest
      <3> QED BY <1>3, <3>1
    <2> QED BY <1>4, <2>1 DEF Folds
  <1>6. Is(c)
    BY <1>5
  <1> HIDE DEF c
  <1>7. c[{}] = b
    BY <1>6
  <1>8. ASSUME NEW k \in 1..N, c[1..(k - 1)] \in Chunk PROVE c[1..k] = H[<<k, c[1..(k - 1)]>>]
    <2>1. 1..k \in SUBSET (1..N) /\ 1..k # {} /\ Max(1..k) = k /\ (1..k) \ {Max(1..k)} = 1..(k - 1)
      BY <1>1, Beginnings
    <2>2. c[1..k] = Joined(c[(1..k) \ {Max(1..k)}], s[Max(1..k)])
      BY <1>6, <2>1
    <2>3. c[1..k] = Joined(c[1..(k - 1)], s[k])
      BY <2>1, <2>2
    <2> QED BY <1>3, <1>8, <2>3
  <1>9. Takes(c, Chunk, N, H)
    BY <1>8 DEF Takes
  <1>10. Runs(c, N) \in [0..N -> Chunk] /\ Runs(c, N)[N] = c[1..N]
    <2>1. Runs(c, N) \in [0..N -> Chunk]
      BY <1>1, <1>3, <1>7, <1>9, FoldSteps
    <2>2. N \in 0..N
      BY <1>1
    <2> QED BY <2>1, <2>2 DEF Runs
  <1>11. N \in 0..N
    BY <1>1
  <1> QED BY <1>2, <1>10, <1>11

Grouping == [out : Seq(Chunk), buf : Seq(Chunk)]

LEMMA FlushedType ==
  ASSUME NEW g \in Grouping PROVE Flushed(g) \in Grouping
  <1>1. g.out \in Seq(Chunk) /\ g.buf \in Seq(Chunk)
    BY DEF Grouping
  <1>2. ASSUME g.buf # <<>> PROVE FoldLeft(Joined, Head(g.buf), Tail(g.buf)) \in Chunk
    <2>1. Head(g.buf) \in Chunk /\ Tail(g.buf) \in Seq(Chunk)
      BY <1>1, <1>2
    <2> QED BY <2>1, JoinedAllType
  <1> DEFINE one == FoldLeft(Joined, Head(g.buf), Tail(g.buf))
  <1> HIDE DEF one
  <1>3. g.buf # <<>> => [out |-> Append(g.out, one), buf |-> <<>>] \in Grouping
    BY <1>1, <1>2 DEF Grouping, one
  <1>4. Flushed(g) = IF g.buf = <<>> THEN g ELSE [out |-> Append(g.out, one), buf |-> <<>>]
    BY Zenon DEF Flushed, one
  <1> QED BY <1>3, <1>4

LEMMA GroupNextType ==
  ASSUME NEW g \in Grouping, NEW c \in Chunk, NEW alpha PROVE GroupNext(alpha, g, c) \in Grouping
  <1> DEFINE f == Flushed(g)
             apart == \/ g.buf # <<>> /\ (g.buf[1].section # c.section \/ g.buf[1].cjk # c.cjk)
                      \/ TextOf(g.buf) + c.len >= 7 * alpha
             h == IF apart THEN f ELSE g
  <1>1. f \in Grouping
    BY FlushedType
  <1>2. h \in Grouping
    <2> HIDE DEF f, apart
    <2> QED BY <1>1
  <1>3. \A x \in Grouping : [x EXCEPT !.out = Append(x.out, c)] \in Grouping /\ [x EXCEPT !.buf = Append(x.buf, c)] \in Grouping
    <2> SUFFICES ASSUME NEW x \in Grouping
                 PROVE  /\ [x EXCEPT !.out = Append(x.out, c)] \in Grouping
                        /\ [x EXCEPT !.buf = Append(x.buf, c)] \in Grouping
      OBVIOUS
    <2>1. x.out \in Seq(Chunk) /\ x.buf \in Seq(Chunk)
      BY DEF Grouping
    <2> DEFINE o == Append(x.out, c)
               u == Append(x.buf, c)
    <2>2. o \in Seq(Chunk) /\ u \in Seq(Chunk)
      BY <2>1, AppendProperties
    <2> HIDE DEF o, u
    <2>3. [x EXCEPT !.out = o] \in Grouping /\ [x EXCEPT !.buf = u] \in Grouping
      BY <2>2 DEF Grouping
    <2> QED BY <2>3 DEF o, u
  <1>4. GroupNext(alpha, g, c) = IF ~Small(c, alpha) THEN [f EXCEPT !.out = Append(f.out, c)]
                                 ELSE [h EXCEPT !.buf = Append(h.buf, c)]
    BY Zenon DEF GroupNext
  <1> HIDE DEF f, h
  <1> QED BY <1>1, <1>2, <1>3, <1>4

LEMMA GroupedType ==
  ASSUME NEW s \in Seq(Chunk), NEW alpha PROVE Grouped(s, alpha) \in Seq(Chunk)
  <1> DEFINE N == Len(s)
             T == Grouping
             a == [out |-> <<>>, buf |-> <<>>]
             all == FoldLeft(LAMBDA g, c : GroupNext(alpha, g, c), a, s)
             H == [p \in (1..N) \X T |-> GroupNext(alpha, p[2], s[p[1]])]
             Is(it) == it = [S \in SUBSET (1..N) |-> IF S = {} THEN a ELSE GroupNext(alpha, it[S \ {Max(S)}], s[Max(S)])]
             c == CHOOSE it : Is(it)
  <1>1. N \in Nat /\ DOMAIN s = 1..N /\ a \in T /\ \A k \in 1..N : s[k] \in Chunk
    BY DEF Grouping
  <1>2. all = c[1..N]
    BY <1>1, Zenon DEF FoldLeft, MapThenFoldSet
  <1>3. H \in [(1..N) \X T -> T] /\ \A k \in 1..N, t \in T : H[<<k, t>>] = GroupNext(alpha, t, s[k])
    BY <1>1, GroupNextType
  <1> HIDE DEF H, N, T, a, all
  <1>4. PICK it \in [SUBSET (1..N) -> T] : Folds(it, a, N, H)
    BY <1>1, <1>3, FoldExists
  <1>5. Is(it)
    <2>1. ASSUME NEW S \in SUBSET (1..N), S # {}
          PROVE  H[<<Max(S), it[S \ {Max(S)}]>>] = GroupNext(alpha, it[S \ {Max(S)}], s[Max(S)])
      <3>1. Max(S) \in 1..N /\ S \ {Max(S)} \in SUBSET (1..N)
        BY <1>1, <2>1, MaxIsGreatest
      <3> QED BY <1>3, <3>1
    <2> QED BY <1>4, <2>1 DEF Folds
  <1>6. Is(c)
    BY <1>5
  <1> HIDE DEF c
  <1>7. c[{}] = a
    BY <1>6
  <1>8. ASSUME NEW k \in 1..N, c[1..(k - 1)] \in T PROVE c[1..k] = H[<<k, c[1..(k - 1)]>>]
    <2>1. 1..k \in SUBSET (1..N) /\ 1..k # {} /\ Max(1..k) = k /\ (1..k) \ {Max(1..k)} = 1..(k - 1)
      BY <1>1, Beginnings
    <2>2. c[1..k] = GroupNext(alpha, c[(1..k) \ {Max(1..k)}], s[Max(1..k)])
      BY <1>6, <2>1
    <2>3. c[1..k] = GroupNext(alpha, c[1..(k - 1)], s[k])
      BY <2>1, <2>2
    <2> QED BY <1>3, <1>8, <2>3
  <1>9. Takes(c, T, N, H)
    BY <1>8 DEF Takes
  <1>10. Runs(c, N) \in [0..N -> T] /\ Runs(c, N)[N] = c[1..N]
    <2>1. Runs(c, N) \in [0..N -> T]
      BY <1>1, <1>3, <1>7, <1>9, FoldSteps
    <2>2. N \in 0..N
      BY <1>1
    <2> QED BY <2>1, <2>2 DEF Runs
  <1>11. all \in Grouping
    <2>1. N \in 0..N
      BY <1>1
    <2> QED BY <1>2, <1>10, <2>1 DEF T
  <1>12. Flushed(all).out \in Seq(Chunk)
    BY <1>11, FlushedType DEF Grouping
  <1> QED BY <1>12, Zenon DEF Grouped, all, a

Fresh == {d \in Decision : ~d.dropped}
Ruling == [count : Int, first : Int, out : Seq(Fresh)]

LEMMA RuleNextType ==
  ASSUME NEW schema, NEW alpha, NEW hasMain, NEW s \in Ruling, NEW c \in Chunk
  PROVE  LET r == RuleNext(schema, alpha, hasMain, s, c) IN r \in Ruling /\ Len(r.out) = Len(s.out) + 1
  <1> DEFINE fields == Matched(c, schema, alpha)
             priced == c.type # "META" /\ schema = "Product" /\ "price" \in fields
             count == IF priced THEN s.count + 1 ELSE s.count
             reason == IF c.type = "META" THEN "META_ALWAYS"
                       ELSE IF fields # {}
                         THEN IF priced /\ s.first # 0 /\ count > PriceLimit /\ ~c.main /\ s.first # c.section
                                THEN "COUPANG_REC_FILTER" ELSE "SCHEMA_MATCH"
                       ELSE IF hasMain /\ c.main THEN InMain(c, alpha)
                       ELSE IF ~hasMain THEN NoMain(c, alpha)
                       ELSE "NO_MATCH"
             d == [keep |-> reason \notin Rejecting, reason |-> reason, score |-> _REASON_SCORES[reason],
                   fit |-> -1, tier |-> "none", dropped |-> FALSE]
             first == IF priced /\ s.first = 0 THEN c.section ELSE s.first
  <1>1. Reasons = {"META_ALWAYS", "SCHEMA_MATCH", "IN_MAIN_HEADING", "IN_MAIN_HV_SHORT", "IN_MAIN_TEXT",
                   "IN_MAIN_STRUCTURED", "IN_MAIN_FORM", "IN_MAIN_MEDIA", "KEEP_HEADING_NO_MAIN", "KEEP_TEXT_NO_MAIN",
                   "KEEP_FORM_NO_MAIN", "KEEP_MEDIA_NO_MAIN", "ADJACENT_BOOST", "COUPANG_REC_FILTER", "IN_MAIN_SHORT",
                   "NO_MATCH"}
        /\ \A x \in Reasons : _REASON_SCORES[x] \in Nat
    BY DEF Reasons, _REASON_SCORES
  <1>2. InMain(c, alpha) \in Reasons
    BY <1>1 DEF InMain
  <1>3. NoMain(c, alpha) \in Reasons
    BY <1>1 DEF NoMain
  <1> HIDE DEF fields, priced
  <1>4. reason \in Reasons
    BY <1>1, <1>2, <1>3
  <1> HIDE DEF reason
  <1>5. d \in Fresh
    BY <1>1, <1>4 DEF Fresh, Decision
  <1>6. count \in Int /\ first \in Int /\ s.out \in Seq(Fresh)
    <2>1. s.count \in Int /\ s.first \in Int /\ s.out \in Seq(Fresh) /\ c.section \in Int
      BY DEF Ruling, Chunk
    <2> QED BY <2>1
  <1> HIDE DEF d, count, first
  <1>7. Append(s.out, d) \in Seq(Fresh) /\ Len(Append(s.out, d)) = Len(s.out) + 1
    BY <1>5, <1>6
  <1>8. RuleNext(schema, alpha, hasMain, s, c) = [count |-> count, first |-> first, out |-> Append(s.out, d)]
    BY Zenon DEF RuleNext, d, count, first, reason, priced, fields
  <1> QED BY <1>6, <1>7, <1>8 DEF Ruling

LEMMA DecidedType ==
  ASSUME NEW s \in Seq(Chunk), NEW schema, NEW alpha
  PROVE  Decided(s, schema, alpha) \in Seq(Fresh) /\ Len(Decided(s, schema, alpha)) = Len(s)
  <1> DEFINE N == Len(s)
             T == Ruling
             a == [count |-> 0, first |-> 0, out |-> <<>>]
             hasMain == \E i \in DOMAIN s : s[i].main
             Next1(t, x) == RuleNext(schema, alpha, hasMain, t, x)
             all == FoldLeft(LAMBDA t, x : RuleNext(schema, alpha, hasMain, t, x), a, s)
             H == [p \in (1..N) \X T |-> Next1(p[2], s[p[1]])]
             Is(it) == it = [S \in SUBSET (1..N) |-> IF S = {} THEN a ELSE Next1(it[S \ {Max(S)}], s[Max(S)])]
             c == CHOOSE it : Is(it)
  <1>1. N \in Nat /\ DOMAIN s = 1..N /\ a \in T /\ Len(a.out) = 0 /\ \A k \in 1..N : s[k] \in Chunk
    BY DEF Ruling
  <1>2. all = c[1..N]
    <2> HIDE DEF hasMain
    <2> QED BY <1>1, Zenon DEF FoldLeft, MapThenFoldSet
  <1>3. \A t \in T, k \in 1..N : Next1(t, s[k]) \in T /\ Len(Next1(t, s[k]).out) = Len(t.out) + 1
    <2> HIDE DEF hasMain, N
    <2> QED BY <1>1, RuleNextType
  <1> HIDE DEF Next1
  <1>4. H \in [(1..N) \X T -> T] /\ \A k \in 1..N, t \in T : H[<<k, t>>] = Next1(t, s[k])
    BY <1>3
  <1> HIDE DEF H, N, T, a, all
  <1>5. PICK it \in [SUBSET (1..N) -> T] : Folds(it, a, N, H)
    BY <1>1, <1>4, FoldExists
  <1>6. Is(it)
    <2>1. ASSUME NEW S \in SUBSET (1..N), S # {}
          PROVE  H[<<Max(S), it[S \ {Max(S)}]>>] = Next1(it[S \ {Max(S)}], s[Max(S)])
      <3>1. Max(S) \in 1..N /\ S \ {Max(S)} \in SUBSET (1..N)
        BY <1>1, <2>1, MaxIsGreatest
      <3> QED BY <1>4, <3>1
    <2> QED BY <1>5, <2>1 DEF Folds
  <1>7. Is(c)
    BY <1>6
  <1> HIDE DEF c
  <1>8. c[{}] = a
    BY <1>7
  <1>9. ASSUME NEW k \in 1..N PROVE c[1..k] = Next1(c[1..(k - 1)], s[k])
    <2>1. 1..k \in SUBSET (1..N) /\ 1..k # {} /\ Max(1..k) = k /\ (1..k) \ {Max(1..k)} = 1..(k - 1)
      BY <1>1, Beginnings
    <2> QED BY <1>7, <2>1
  <1> DEFINE Bad == {k \in 0..N : ~(c[1..k] \in T /\ Len(c[1..k].out) = k)}
  <1>10. Bad = {}
    <2> SUFFICES ASSUME Bad # {} PROVE FALSE
      OBVIOUS
    <2>1. PICK k \in Bad : \A m \in Bad : k <= m
      <3>1. Bad \in SUBSET Nat
        BY <1>1
      <3> HIDE DEF Bad
      <3> QED BY <3>1, LeastExists
    <2>2. k \in 0..N /\ ~(c[1..k] \in T /\ Len(c[1..k].out) = k)
      OBVIOUS
    <2>3. k # 0
      <3>1. 1..0 = {}
        OBVIOUS
      <3> QED BY <1>1, <1>8, <2>2, <3>1
    <2>4. k \in 1..N /\ k - 1 \in 0..N /\ ~(k <= k - 1)
      BY <1>1, <2>2, <2>3
    <2>5. k - 1 \notin Bad
      <3> HIDE DEF Bad
      <3> QED BY <2>1, <2>4
    <2>6. c[1..(k - 1)] \in T /\ Len(c[1..(k - 1)].out) = k - 1
      BY <2>4, <2>5
    <2>7. c[1..k] = Next1(c[1..(k - 1)], s[k])
      BY <1>9, <2>4
    <2>8. c[1..k] \in T /\ Len(c[1..k].out) = (k - 1) + 1
      BY <1>3, <2>4, <2>6, <2>7
    <2> QED BY <2>2, <2>8
  <1>11. N \in 0..N
    BY <1>1
  <1>12. all \in Ruling /\ Len(all.out) = N
    BY <1>2, <1>10, <1>11 DEF T
  <1>13. Decided(s, schema, alpha) = all.out
    BY Zenon DEF Decided, all, a
  <1> QED BY <1>12, <1>13 DEF Ruling, N

LEMMA BoostedType ==
  ASSUME NEW cs, NEW ds \in Seq(Fresh)
  PROVE  Boosted(cs, ds) \in Seq(Fresh) /\ Len(Boosted(cs, ds)) = Len(ds)
  <1> DEFINE boosts(i) == {b \in {<<1, 150>>, <<2, 75>>} : \E j \in {i - b[1], i + b[1]} \cap DOMAIN ds :
                      ds[j].reason = "SCHEMA_MATCH" /\ cs[i].section # 0 /\ cs[i].section = cs[j].section}
             gain(i) == IF boosts(i) = {} THEN 0 ELSE IF <<1, 150>> \in boosts(i) THEN 150 ELSE 75
             better(i) == IF ds[i].score + gain(i) > 1000 THEN 1000 ELSE ds[i].score + gain(i)
             flips(i) == ~ds[i].keep /\ gain(i) > 0 /\ better(i) >= 450 /\ cs[i].len >= 5
             new(i) == [ds[i] EXCEPT !.score = better(i), !.keep = ds[i].keep \/ flips(i),
                                     !.reason = IF flips(i) THEN "ADJACENT_BOOST" ELSE ds[i].reason]
  <1>1. DOMAIN ds = 1..Len(ds) /\ Len(ds) \in Nat /\ \A i \in DOMAIN ds : ds[i] \in Fresh
    OBVIOUS
  <1>2. Boosted(cs, ds) = [i \in DOMAIN ds |-> new(i)]
    BY Zenon DEF Boosted
  <1>3. ASSUME NEW i \in DOMAIN ds PROVE new(i) \in Fresh
    <2>1. /\ ds[i] \in Decision /\ ~ds[i].dropped
          /\ ds[i].score \in Nat /\ ds[i].keep \in BOOLEAN /\ ds[i].reason \in Reasons
      BY <1>1 DEF Fresh, Decision
    <2>2. gain(i) \in Nat
      <3> HIDE DEF boosts
      <3> QED OBVIOUS
    <2>3. better(i) \in Nat
      <3> HIDE DEF gain
      <3> QED BY <2>1, <2>2
    <2> HIDE DEF gain, better
    <2>4. (ds[i].keep \/ flips(i)) \in BOOLEAN /\ (IF flips(i) THEN "ADJACENT_BOOST" ELSE ds[i].reason) \in Reasons
      <3>1. "ADJACENT_BOOST" \in Reasons
        BY DEF Reasons, _REASON_SCORES
      <3> QED BY <2>1, <3>1
    <2> DEFINE k == ds[i].keep \/ flips(i)
               r == IF flips(i) THEN "ADJACENT_BOOST" ELSE ds[i].reason
               b == better(i)
               d1 == [ds[i] EXCEPT !.score = b]
               d2 == [d1 EXCEPT !.keep = k]
               d3 == [d2 EXCEPT !.reason = r]
    <2>5. k \in BOOLEAN /\ r \in Reasons /\ b \in Nat
      BY <2>3, <2>4
    <2>6. new(i) = d3
      BY Zenon
    <2> HIDE DEF k, r, b, new
    <2>7. d1 \in Decision /\ ~d1.dropped
      BY <2>1, <2>5 DEF Decision
    <2> HIDE DEF d1
    <2>8. d2 \in Decision /\ ~d2.dropped
      BY <2>5, <2>7 DEF Decision
    <2> HIDE DEF d2
    <2>9. d3 \in Decision /\ ~d3.dropped
      BY <2>5, <2>8 DEF Decision
    <2> QED BY <2>6, <2>9 DEF Fresh
  <1> HIDE DEF new
  <1> QED BY <1>1, <1>2, <1>3

LEMMA FittedType ==
  ASSUME NEW ds \in Seq(Fresh), NEW sim \in [DOMAIN ds -> Int]
  PROVE  Fitted(ds, sim) \in Seq(Fresh) /\ Len(Fitted(ds, sim)) = Len(ds)
  <1> DEFINE fit(i) == CASE ds[i].reason = "META_ALWAYS" -> 100
                         [] ds[i].reason = "SCHEMA_MATCH" -> IF sim[i] > 50 THEN sim[i] ELSE 50
                         [] OTHER -> sim[i]
  <1>1. DOMAIN ds = 1..Len(ds) /\ Len(ds) \in Nat /\ \A i \in DOMAIN ds : ds[i] \in Fresh
    OBVIOUS
  <1>2. Fitted(ds, sim) = [i \in DOMAIN ds |-> [ds[i] EXCEPT !.fit = fit(i)]]
    BY Zenon DEF Fitted
  <1>3. \A i \in DOMAIN ds : fit(i) \in Int
    <2> SUFFICES ASSUME NEW i \in DOMAIN ds PROVE fit(i) \in Int
      OBVIOUS
    <2>1. sim[i] \in Int
      OBVIOUS
    <2> QED BY <2>1
  <1> HIDE DEF fit
  <1>4. \A i \in DOMAIN ds : [ds[i] EXCEPT !.fit = fit(i)] \in Fresh
    BY <1>1, <1>3 DEF Fresh, Decision
  <1> DEFINE new(i) == [ds[i] EXCEPT !.fit = fit(i)]
  <1>5. Fitted(ds, sim) = [i \in DOMAIN ds |-> new(i)] /\ \A i \in DOMAIN ds : new(i) \in Fresh
    BY <1>2, <1>4
  <1> HIDE DEF new
  <1> QED BY <1>1, <1>5

\* How far a call is tells what it holds: chunks, and one decision on each that drops none yet.
PruneInv ==
  /\ DOMAIN prune = {"at", "page", "schema", "budget", "hint", "alpha", "chunks", "ds", "result"}
  /\ prune.budget \in Nat
  /\ prune.at = "group" => prune.page \in Seq(Chunk)
  /\ prune.at \in {"rules", "boost", "budget"} => prune.chunks \in Seq(Chunk)
  /\ prune.at \in {"boost", "budget"} => prune.ds \in Seq(Fresh) /\ Len(prune.ds) = Len(prune.chunks)
  /\ BudgetDropsLeast

LEMMA FreshDecides ==
  ASSUME NEW cs \in Seq(Chunk), NEW ds \in Seq(Fresh), Len(ds) = Len(cs) PROVE Decides(cs, ds)
  <1>1. ds \in Seq(Decision) /\ \A i \in DOMAIN ds : ~ds[i].dropped
    BY DEF Fresh
  <1> QED BY <1>1 DEF Decides

LEMMA PruneInvStep == PruneInv /\ [PruneNext]_prune => PruneInv'
  <1> SUFFICES ASSUME PruneInv, [PruneNext]_prune PROVE PruneInv'
    OBVIOUS
  <1> DEFINE Fields == {"at", "page", "schema", "budget", "hint", "alpha", "chunks", "ds", "result"}
  <1>1. DOMAIN prune = Fields /\ prune.budget \in Nat
    BY DEF PruneInv
  <1>2. CASE CallPrune
    <2>0. PICK p \in ChunkPages, schema \in PruneSchemas, budget \in TokenBudgets, hint \in BOOLEAN :
            \E alpha \in Alphas(budget) :
            prune' = [prune EXCEPT !.at = "group", !.page = [i \in DOMAIN p |-> [p[i] EXCEPT !.of = <<i>>]],
                        !.schema = schema, !.budget = budget, !.hint = hint, !.alpha = alpha]
      BY <1>2, Zenon DEF CallPrune
    <2>1. PICK alpha \in Alphas(budget) :
            prune' = [prune EXCEPT !.at = "group", !.page = [i \in DOMAIN p |-> [p[i] EXCEPT !.of = <<i>>]],
                        !.schema = schema, !.budget = budget, !.hint = hint, !.alpha = alpha]
      BY <2>0, Zenon
    <2> DEFINE chunked == [i \in DOMAIN p |-> [p[i] EXCEPT !.of = <<i>>]]
    <2>2. p \in Seq(Chunk) /\ budget \in Nat
      BY PruneAssumption DEF PruneAssumption
    <2>3. chunked \in Seq(Chunk)
      <3>1. DOMAIN p = 1..Len(p) /\ Len(p) \in Nat /\ \A i \in DOMAIN p : p[i] \in Chunk
        BY <2>2
      <3>2. \A i \in DOMAIN p : <<i>> \in Seq(Nat)
        BY <3>1
      <3>3. \A i \in DOMAIN p : [p[i] EXCEPT !.of = <<i>>] \in Chunk
        BY <3>1, <3>2 DEF Chunk
      <3> QED BY <3>1, <3>3
    <2> HIDE DEF chunked
    <2>4. prune'.at = "group" /\ prune'.page = chunked /\ prune'.budget = budget /\ DOMAIN prune' = Fields
      BY <1>1, <2>1 DEF chunked
    <2> QED BY <2>2, <2>3, <2>4 DEF PruneInv, BudgetDropsLeast
  <1>3. CASE Unparsed
    <2>1. prune'.at = "raw" /\ prune'.budget = prune.budget /\ DOMAIN prune' = Fields
      BY <1>1, <1>3 DEF Unparsed
    <2> QED BY <1>1, <2>1 DEF PruneInv, BudgetDropsLeast
  <1>4. CASE GroupChunks
    <2> DEFINE chunks == Grouped(prune.page, prune.alpha.grouping)
    <2>1. chunks \in Seq(Chunk)
      BY <1>4, GroupedType DEF GroupChunks, PruneInv
    <2>2. prune' = [prune EXCEPT !.at = IF chunks = <<>> THEN "raw" ELSE "rules", !.chunks = chunks]
      BY <1>4, Zenon DEF GroupChunks
    <2> HIDE DEF chunks
    <2>3. /\ prune'.at \in {"raw", "rules"} /\ prune'.chunks = chunks /\ prune'.budget = prune.budget
          /\ DOMAIN prune' = Fields
      BY <1>1, <2>2
    <2> QED BY <1>1, <2>1, <2>3 DEF PruneInv, BudgetDropsLeast
  <1>5. CASE PruneChunks
    <2> DEFINE ds == Decided(prune.chunks, prune.schema, prune.alpha.rule)
    <2>1. prune.chunks \in Seq(Chunk) /\ prune' = [prune EXCEPT !.at = "boost", !.ds = ds]
      BY <1>5 DEF PruneChunks, PruneInv
    <2>2. ds \in Seq(Fresh) /\ Len(ds) = Len(prune.chunks)
      BY <2>1, DecidedType
    <2> HIDE DEF ds
    <2>3. /\ prune'.at = "boost" /\ prune'.chunks = prune.chunks /\ prune'.ds = ds /\ prune'.budget = prune.budget
          /\ DOMAIN prune' = Fields
      BY <1>1, <2>1
    <2> QED BY <1>1, <2>1, <2>2, <2>3 DEF PruneInv, BudgetDropsLeast
  <1>6. CASE BoostAdjacent
    <2> DEFINE ds == Boosted(prune.chunks, prune.ds)
    <2>1. PICK sim \in [DOMAIN prune.ds -> IF prune.hint THEN Similarities ELSE {0}] :
            prune' = [prune EXCEPT !.at = "budget", !.ds = IF prune.hint THEN Fitted(ds, sim) ELSE ds]
      BY <1>6, Zenon DEF BoostAdjacent
    <2>2. /\ prune.chunks \in Seq(Chunk) /\ prune.ds \in Seq(Fresh) /\ Len(prune.ds) = Len(prune.chunks)
      BY <1>6 DEF BoostAdjacent, PruneInv
    <2>3. ds \in Seq(Fresh) /\ Len(ds) = Len(prune.ds)
      BY <2>2, BoostedType
    <2> HIDE DEF ds
    <2>4. sim \in [DOMAIN ds -> Int]
      <3>1. DOMAIN ds = DOMAIN prune.ds
        BY <2>2, <2>3
      <3>2. Similarities \subseteq Int
        BY PruneAssumption DEF PruneAssumption
      <3>3. (IF prune.hint THEN Similarities ELSE {0}) \subseteq Int
        BY <3>2
      <3> QED BY <3>1, <3>3
    <2>5. Fitted(ds, sim) \in Seq(Fresh) /\ Len(Fitted(ds, sim)) = Len(ds)
      BY <2>3, <2>4, FittedType
    <2> DEFINE new == IF prune.hint THEN Fitted(ds, sim) ELSE ds
    <2>6. new \in Seq(Fresh) /\ Len(new) = Len(prune.chunks)
      BY <2>2, <2>3, <2>5
    <2> HIDE DEF new
    <2>7. /\ prune'.at = "budget" /\ prune'.chunks = prune.chunks /\ prune'.ds = new /\ prune'.budget = prune.budget
          /\ DOMAIN prune' = Fields
      BY <1>1, <2>1 DEF new
    <2> QED BY <1>1, <2>2, <2>6, <2>7 DEF PruneInv, BudgetDropsLeast
  <1>7. CASE SelectBudget
    <2> DEFINE A == Affordable(prune.chunks, prune.ds, prune.budget)
    <2>1. /\ prune.chunks \in Seq(Chunk) /\ prune.ds \in Seq(Fresh) /\ Len(prune.ds) = Len(prune.chunks)
      BY <1>7 DEF SelectBudget, PruneInv
    <2>2. prune' = [prune EXCEPT !.at = "tiers", !.ds = IF prune.budget = 0 THEN prune.ds ELSE A]
      BY <1>7, Zenon DEF SelectBudget
    <2>3. DropsLeast(prune.chunks, A, prune.budget)
      BY <1>1, <2>1, FreshDecides, AffordableDropsLeast
    <2> HIDE DEF A
    <2>4. /\ prune'.at = "tiers" /\ prune'.chunks = prune.chunks /\ prune'.budget = prune.budget
          /\ prune.budget > 0 => prune'.ds = A
          /\ DOMAIN prune' = Fields
      BY <1>1, <2>2
    <2>5. BudgetDropsLeast'
      <3> SUFFICES ASSUME prune.budget > 0 PROVE BudgetDropsLeast'
        BY <2>4 DEF BudgetDropsLeast
      <3>1. DropsLeast(prune'.chunks, prune'.ds, prune'.budget)
        BY <2>3, <2>4
      <3> QED BY <3>1 DEF DropsLeast, BudgetDropsLeast
    <2> QED BY <1>1, <2>4, <2>5 DEF PruneInv
  <1>8. CASE ProcessTiers
    <2>1. /\ prune'.at \in {"raw", "done"} /\ prune'.budget = prune.budget /\ DOMAIN prune' = Fields
      BY <1>1, <1>8 DEF ProcessTiers
    <2> QED BY <1>1, <2>1 DEF PruneInv, BudgetDropsLeast
  <1>9. CASE UNCHANGED prune
    BY <1>9 DEF PruneInv, BudgetDropsLeast
  <1> QED BY <1>2, <1>3, <1>4, <1>5, <1>6, <1>7, <1>8, <1>9 DEF PruneNext

\* apply_budget_selection drops no chunk before a worse one and none without need, whatever the
\* page, the schema, the boosts and the task made of the scores (core/pruning/pruner.py).
THEOREM BudgetAlwaysDropsLeast == PruneSpec => []BudgetDropsLeast
  <1>1. PruneInit => PruneInv
    BY DEF PruneInit, PruneInv, BudgetDropsLeast
  <1>2. PruneInv => BudgetDropsLeast
    BY DEF PruneInv
  <1> QED BY <1>1, <1>2, PruneInvStep, PTL DEF PruneSpec

-----------------------------------------------------------------------------
(***************************************************************************)
(* Lists in rising order: taking a member out and putting one in.            *)
(***************************************************************************)
Rising(s) == \A i, j \in DOMAIN s : i < j => s[i] < s[j]

LEMMA RankOfMembers ==
  ASSUME NEW S \in SUBSET Nat, IsFiniteSet(S), NEW k \in DOMAIN InOrder(S)
  PROVE  InOrder(S)[k] \in S /\ Rank(S, InOrder(S)[k]) = k
  BY RankTaken DEF InOrder

LEMMA SameRank ==
  ASSUME NEW S \in SUBSET Nat, IsFiniteSet(S), NEW i \in S, NEW j \in S, Rank(S, i) = Rank(S, j)
  PROVE  i = j
  <1>1. Rank(S, i) \in Nat /\ i \in Nat /\ j \in Nat
    <2>1. Rank(S, i) \in 0..Cardinality(S) /\ Cardinality(S) \in Nat
      BY RankType, FS_CardinalityType
    <2> QED BY <2>1
  <1>2. ~(i < j) /\ ~(j < i)
    BY <1>1, RankGrows
  <1> QED BY <1>1, <1>2

\* There is one list of a set in rising order.
LEMMA OneOrder ==
  ASSUME NEW S \in SUBSET Nat, NEW s \in Seq(S), Rising(s), ToSet(s) = S
  PROVE  IsFiniteSet(S) /\ s = InOrder(S)
  <1>1. Len(s) \in Nat /\ s \in [1..Len(s) -> S] /\ DOMAIN s = 1..Len(s)
    BY LenProperties
  <1> DEFINE n == Len(s)
  <1> HIDE DEF n
  <1>2. /\ n \in Nat /\ s \in [1..n -> S] /\ DOMAIN s = 1..n
        /\ \A i, j \in 1..n : i < j => s[i] < s[j]
        /\ \A x \in S : \E i \in 1..n : s[i] = x
    BY <1>1 DEF n, Rising, ToSet
  <1>3. ASSUME NEW k \in 0..n
        PROVE  IsFiniteSet({s[i] : i \in 1..k}) /\ Cardinality({s[i] : i \in 1..k}) = k
    <2>1. IsFiniteSet(1..k) /\ Cardinality(1..k) = k
      <3>1. 1 \in Int /\ k \in Int
        BY <1>2
      <3>2. IsFiniteSet(1..k) /\ Cardinality(1..k) = IF 1 > k THEN 0 ELSE k - 1 + 1
        BY <3>1, FS_Interval
      <3> QED BY <1>2, <3>2
    <2> DEFINE f == [i \in 1..k |-> s[i]]
               T == {s[i] : i \in 1..k}
    <2>2. \A i \in 1..k : i \in 1..n
      BY <1>2
    <2>3. f \in [1..k -> T] /\ \A x \in T : \E i \in 1..k : f[i] = x
      OBVIOUS
    <2>4. ASSUME NEW i \in 1..k, NEW j \in 1..k, f[i] = f[j] PROVE i = j
      <3>1. s[i] \in Nat /\ s[j] \in Nat /\ s[i] = s[j]
        BY <1>2, <2>2, <2>4
      <3>2. ~(i < j) /\ ~(j < i)
        BY <1>2, <2>2, <3>1
      <3> QED BY <3>2
    <2> HIDE DEF f, T
    <2>5. f \in Bijection(1..k, T)
      BY <2>3, <2>4 DEF Bijection, Injection, Surjection, IsInjective
    <2>6. IsFiniteSet(T) /\ Cardinality(T) = Cardinality(1..k)
      BY <2>1, <2>5, FS_Bijection, FS_Surjection DEF Bijection
    <2> QED BY <2>1, <2>6 DEF T
  <1>4. {s[i] : i \in 1..n} = S
    BY <1>2
  <1>5. IsFiniteSet(S) /\ Cardinality(S) = n
    <2>1. n \in 0..n
      BY <1>2
    <2> QED BY <1>3, <1>4, <2>1
  <1>6. ASSUME NEW k \in 1..n PROVE s[k] \in S /\ Rank(S, s[k]) = k
    <2>1. s[k] \in S /\ k \in 0..n
      BY <1>2
    <2>2. {x \in S : x <= s[k]} = {s[i] : i \in 1..k}
      <3>1. ASSUME NEW x \in S, x <= s[k] PROVE \E i \in 1..k : x = s[i]
        <4>1. PICK i \in 1..n : s[i] = x
          BY <1>2
        <4>2. ~(k < i)
          <5>1. s[k] \in Nat /\ s[i] \in Nat
            BY <1>2
          <5> QED BY <1>2, <3>1, <4>1, <5>1
        <4> QED BY <4>1, <4>2
      <3>2. ASSUME NEW i \in 1..k PROVE s[i] \in S /\ s[i] <= s[k]
        <4>1. i \in 1..n /\ (i < k \/ i = k)
          BY <1>2
        <4>2. s[i] \in Nat /\ s[k] \in Nat
          BY <1>2, <4>1
        <4> QED BY <1>2, <4>1, <4>2
      <3> QED BY <3>1, <3>2
    <2> QED BY <1>3, <2>1, <2>2 DEF Rank
  <1>7. ASSUME NEW k \in 1..n PROVE InOrder(S)[k] = s[k]
    <2>1. k \in DOMAIN InOrder(S)
      BY <1>5 DEF InOrder
    <2>2. InOrder(S)[k] \in S /\ Rank(S, InOrder(S)[k]) = k
      BY <1>5, <2>1, RankOfMembers
    <2>3. s[k] \in S /\ Rank(S, s[k]) = Rank(S, InOrder(S)[k])
      BY <1>6, <2>2
    <2> DEFINE x == InOrder(S)[k]
               y == s[k]
    <2>4. x \in S /\ y \in S /\ Rank(S, x) = Rank(S, y)
      BY <2>2, <2>3
    <2> HIDE DEF x, y
    <2>5. x = y
      BY <1>5, <2>4, SameRank
    <2> QED BY <2>5 DEF x, y
  <1>8. InOrder(S) = [k \in 1..n |-> InOrder(S)[k]]
    BY <1>5 DEF InOrder
  <1>9. s = [k \in 1..n |-> s[k]]
    BY <1>2
  <1> QED BY <1>5, <1>7, <1>8, <1>9

LEMMA PlaceOfMember ==
  ASSUME NEW S \in SUBSET Nat, IsFiniteSet(S), NEW n \in S
  PROVE  /\ PlaceOf(n, InOrder(S)) \in DOMAIN InOrder(S) /\ InOrder(S)[PlaceOf(n, InOrder(S))] = n
         /\ PlaceOf(n, InOrder(S)) = Rank(S, n)
  <1>1. \E i \in DOMAIN InOrder(S) : InOrder(S)[i] = n
    BY InOrderLists
  <1>2. PlaceOf(n, InOrder(S)) \in DOMAIN InOrder(S) /\ InOrder(S)[PlaceOf(n, InOrder(S))] = n
    BY <1>1 DEF PlaceOf
  <1> QED BY <1>2, RankOfMembers

\* A member taken out leaves the rest in order.
LEMMA TakenOut ==
  ASSUME NEW S \in SUBSET Nat, IsFiniteSet(S), NEW n \in S
  PROVE  RemoveAt(InOrder(S), PlaceOf(n, InOrder(S))) = InOrder(S \ {n})
  <1> DEFINE s == InOrder(S)
             p == PlaceOf(n, s)
             N == Len(s)
             r == RemoveAt(s, p)
  <1>1. /\ s \in Seq(S) /\ DOMAIN s = 1..N /\ Rising(s) /\ \A x \in S : \E i \in DOMAIN s : s[i] = x
        /\ p \in DOMAIN s /\ s[p] = n
    BY InOrderLists, PlaceOfMember DEF Rising
  <1> HIDE DEF s, p
  <1>2. N \in Nat /\ p \in 1..N /\ s \in [1..N -> S]
    BY <1>1, LenProperties
  <1>3. /\ SubSeq(s, 1, p - 1) \in Seq(S) /\ Len(SubSeq(s, 1, p - 1)) = p - 1
        /\ SubSeq(s, p + 1, N) \in Seq(S) /\ Len(SubSeq(s, p + 1, N)) = N - p
        /\ \A i \in 1..(p - 1) : SubSeq(s, 1, p - 1)[i] = s[i]
        /\ \A i \in 1..(N - p) : SubSeq(s, p + 1, N)[i] = s[p + i]
    <2> HIDE DEF N
    <2>1. \A i \in 1..(p - 1) : s[i] \in S
      BY <1>2
    <2>2. \A i \in (p + 1)..N : s[i] \in S
      BY <1>2
    <2>3. p - 1 \in Int /\ p + 1 \in Int /\ N \in Int /\ 1 \in Int
      BY <1>2
    <2>4. /\ SubSeq(s, 1, p - 1) \in Seq(S) /\ Len(SubSeq(s, 1, p - 1)) = (IF 1 <= p - 1 THEN (p - 1) - 1 + 1 ELSE 0)
          /\ \A i \in 1..((p - 1) - 1 + 1) : SubSeq(s, 1, p - 1)[i] = s[1 + i - 1]
      BY <2>1, <2>3, SubSeqProperties
    <2>5. /\ SubSeq(s, p + 1, N) \in Seq(S) /\ Len(SubSeq(s, p + 1, N)) = (IF p + 1 <= N THEN N - (p + 1) + 1 ELSE 0)
          /\ \A i \in 1..(N - (p + 1) + 1) : SubSeq(s, p + 1, N)[i] = s[(p + 1) + i - 1]
      BY <2>2, <2>3, SubSeqProperties
    <2>6. (p - 1) - 1 + 1 = p - 1 /\ N - (p + 1) + 1 = N - p
      BY <1>2
    <2>7. \A i \in 1..(p - 1) : 1 + i - 1 = i
      BY <1>2
    <2>8. \A i \in 1..(N - p) : (p + 1) + i - 1 = p + i
      BY <1>2
    <2> QED BY <1>2, <2>4, <2>5, <2>6, <2>7, <2>8
  <1>4. /\ r \in Seq(S) /\ Len(r) = N - 1 /\ DOMAIN r = 1..(N - 1)
        /\ \A i \in 1..(N - 1) : r[i] = IF i < p THEN s[i] ELSE s[i + 1]
    <2> DEFINE u == SubSeq(s, 1, p - 1)
               v == SubSeq(s, p + 1, N)
    <2>1. r = u \o v
      BY DEF RemoveAt
    <2>2. u \in Seq(S) /\ v \in Seq(S) /\ Len(u) = p - 1 /\ Len(v) = N - p
      BY <1>3
    <2>3. \A i \in 1..(N - p) : v[i] = s[p + i]
      BY <1>3
    <2>4. \A i \in 1..(p - 1) : u[i] = s[i]
      BY <1>3
    <2> HIDE DEF u, v, r
    <2>5. /\ r \in Seq(S) /\ Len(r) = Len(u) + Len(v)
          /\ \A i \in 1..(Len(u) + Len(v)) : r[i] = IF i <= Len(u) THEN u[i] ELSE v[i - Len(u)]
      BY <2>1, <2>2, ConcatProperties
    <2>6. Len(r) = N - 1 /\ DOMAIN r = 1..(N - 1)
      BY <1>2, <2>2, <2>5, LenProperties
    <2>7. ASSUME NEW i \in 1..(N - 1) PROVE r[i] = IF i < p THEN s[i] ELSE s[i + 1]
      <3>1. i \in 1..(Len(u) + Len(v)) /\ (i <= Len(u) <=> i < p)
        BY <1>2, <2>2
      <3>2. CASE i < p
        BY <1>2, <2>4, <2>5, <3>1, <3>2
      <3>3. CASE ~(i < p)
        <4>1. r[i] = v[i - (p - 1)]
          BY <2>2, <2>5, <3>1, <3>3
        <4>2. i - (p - 1) \in 1..(N - p) /\ p + (i - (p - 1)) = i + 1
          BY <1>2, <3>3
        <4> QED BY <2>3, <3>3, <4>1, <4>2
      <3> QED BY <3>2, <3>3
    <2> QED BY <2>5, <2>6, <2>7
  <1> HIDE DEF r, N
  <1> DEFINE q(i) == IF i < p THEN i ELSE i + 1
  <1>5. \A i \in 1..(N - 1) : q(i) \in 1..N /\ r[i] = s[q(i)] /\ q(i) # p
    BY <1>2, <1>4
  <1>6. \A i, j \in 1..(N - 1) : i < j => q(i) < q(j)
    BY <1>2
  <1>7. \A j \in 1..N : j # p => \E i \in 1..(N - 1) : q(i) = j
    <2> SUFFICES ASSUME NEW j \in 1..N, j # p PROVE \E i \in 1..(N - 1) : q(i) = j
      OBVIOUS
    <2>1. CASE j < p
      BY <1>2, <2>1
    <2>2. CASE j > p
      <3>1. j - 1 \in 1..(N - 1) /\ q(j - 1) = j
        BY <1>2, <2>2
      <3> QED BY <3>1
    <2> QED BY <1>2, <2>1, <2>2
  <1> HIDE DEF q
  <1>8. \A i, j \in 1..N : i < j => s[i] < s[j]
    BY <1>1 DEF Rising, N
  <1>9. \A i, j \in 1..N : s[i] = s[j] => i = j
    <2> SUFFICES ASSUME NEW i \in 1..N, NEW j \in 1..N, s[i] = s[j], i # j PROVE FALSE
      OBVIOUS
    <2>1. s[i] \in Nat /\ s[j] \in Nat
      BY <1>2
    <2>2. s[i] < s[j] \/ s[j] < s[i]
      BY <1>2, <1>8
    <2> QED BY <2>1, <2>2
  <1>10. \A i \in 1..(N - 1) : r[i] \in S \ {n}
    BY <1>1, <1>2, <1>5, <1>9 DEF N
  <1>11. r \in Seq(S \ {n})
    <2>1. r \in [1..(N - 1) -> S \ {n}]
      BY <1>4, <1>10, LenProperties
    <2>2. N - 1 \in Nat
      BY <1>2
    <2> QED BY <2>1, <2>2
  <1>12. Rising(r)
    BY <1>2, <1>4, <1>5, <1>6, <1>8 DEF Rising
  <1>13. ToSet(r) = S \ {n}
    <2>1. ASSUME NEW x \in S \ {n} PROVE \E i \in 1..(N - 1) : r[i] = x
      <3>1. PICK j \in 1..N : s[j] = x
        BY <1>1 DEF N
      <3>2. PICK i \in 1..(N - 1) : q(i) = j
        BY <1>1, <1>7, <3>1
      <3> QED BY <1>5, <3>1, <3>2
    <2>2. ToSet(r) = {r[i] : i \in 1..(N - 1)}
      BY <1>4 DEF ToSet
    <2> QED BY <1>10, <2>1, <2>2
  <1>14. r = InOrder(S \ {n})
    <2>1. S \ {n} \in SUBSET Nat
      OBVIOUS
    <2> QED BY <1>11, <1>12, <1>13, <2>1, OneOrder
  <1> QED BY <1>14 DEF r, p, s

LEMMA Inserted ==
  ASSUME NEW S, NEW s \in Seq(S), NEW i \in 1..(Len(s) + 1), NEW e \in S
  PROVE  /\ InsertAt(s, i, e) \in Seq(S) /\ Len(InsertAt(s, i, e)) = Len(s) + 1
         /\ \A j \in 1..(Len(s) + 1) :
              InsertAt(s, i, e)[j] = IF j < i THEN s[j] ELSE IF j = i THEN e ELSE s[j - 1]
         /\ ToSet(InsertAt(s, i, e)) = ToSet(s) \cup {e}
  <1> DEFINE N == Len(s)
             u == SubSeq(s, 1, i - 1)
             v == SubSeq(s, i, N)
             w == u \o <<e>>
             r == InsertAt(s, i, e)
  <1>1. N \in Nat /\ i \in 1..(N + 1) /\ s \in [1..N -> S] /\ DOMAIN s = 1..N
    BY LenProperties
  <1>2. r = w \o v
    BY DEF InsertAt
  <1> HIDE DEF N
  <1>3. u \in Seq(S) /\ Len(u) = i - 1 /\ \A j \in 1..(i - 1) : u[j] = s[j]
    <2>1. (\A j \in 1..(i - 1) : s[j] \in S) /\ i - 1 \in Int /\ 1 \in Int
      BY <1>1
    <2>2. /\ u \in Seq(S) /\ Len(u) = (IF 1 <= i - 1 THEN (i - 1) - 1 + 1 ELSE 0)
          /\ \A j \in 1..((i - 1) - 1 + 1) : u[j] = s[1 + j - 1]
      BY <2>1, SubSeqProperties
    <2>3. (i - 1) - 1 + 1 = i - 1 /\ \A j \in 1..(i - 1) : 1 + j - 1 = j
      BY <1>1
    <2> QED BY <1>1, <2>2, <2>3
  <1>4. v \in Seq(S) /\ Len(v) = N - i + 1 /\ \A j \in 1..(N - i + 1) : v[j] = s[i + j - 1]
    <2>1. (\A j \in i..N : s[j] \in S) /\ i \in Int /\ N \in Int
      BY <1>1
    <2>2. /\ v \in Seq(S) /\ Len(v) = (IF i <= N THEN N - i + 1 ELSE 0)
          /\ \A j \in 1..(N - i + 1) : v[j] = s[i + j - 1]
      BY <2>1, SubSeqProperties
    <2> QED BY <1>1, <2>2
  <1> HIDE DEF u, v
  <1>5. w \in Seq(S) /\ Len(w) = i /\ w[i] = e /\ \A j \in 1..(i - 1) : w[j] = u[j]
    <2>1. <<e>> \in Seq(S) /\ Len(<<e>>) = 1 /\ <<e>>[1] = e
      OBVIOUS
    <2> DEFINE o == <<e>>
    <2> HIDE DEF o
    <2>2. o \in Seq(S) /\ Len(o) = 1 /\ o[1] = e
      BY <2>1 DEF o
    <2>3. /\ u \o o \in Seq(S) /\ Len(u \o o) = Len(u) + Len(o)
          /\ \A j \in 1..(Len(u) + Len(o)) : (u \o o)[j] = IF j <= Len(u) THEN u[j] ELSE o[j - Len(u)]
      BY <1>3, <2>2, ConcatProperties
    <2>4. Len(u) + Len(o) = i
      BY <1>1, <1>3, <2>2
    <2>5. (u \o o)[i] = e
      <3>1. i \in 1..i /\ ~(i <= Len(u)) /\ i - Len(u) = 1
        BY <1>1, <1>3
      <3> QED BY <2>2, <2>3, <2>4, <3>1
    <2>6. \A j \in 1..(i - 1) : (u \o o)[j] = u[j]
      <3>1. \A j \in 1..(i - 1) : j \in 1..i /\ j <= Len(u)
        BY <1>1, <1>3
      <3> QED BY <2>3, <2>4, <3>1
    <2> QED BY <2>3, <2>4, <2>5, <2>6 DEF o
  <1> HIDE DEF w, r
  <1>6. /\ r \in Seq(S) /\ Len(r) = Len(w) + Len(v)
        /\ \A j \in 1..(Len(w) + Len(v)) : r[j] = IF j <= Len(w) THEN w[j] ELSE v[j - Len(w)]
    BY <1>2, <1>4, <1>5, ConcatProperties
  <1>7. Len(r) = N + 1 /\ DOMAIN r = 1..(N + 1)
    BY <1>1, <1>4, <1>5, <1>6, LenProperties
  <1>8. ASSUME NEW j \in 1..(N + 1)
        PROVE  r[j] = IF j < i THEN s[j] ELSE IF j = i THEN e ELSE s[j - 1]
    <2>1. j \in 1..(Len(w) + Len(v))
      BY <1>1, <1>4, <1>5
    <2>2. CASE j < i
      <3>1. j \in 1..(i - 1) /\ j <= Len(w)
        BY <1>1, <1>5, <2>2
      <3> QED BY <1>3, <1>5, <1>6, <2>1, <2>2, <3>1
    <2>3. CASE j = i
      <3>1. i <= Len(w)
        BY <1>1, <1>5
      <3> QED BY <1>5, <1>6, <2>1, <2>3, <3>1
    <2>4. CASE j > i
      <3>1. ~(j <= Len(w)) /\ j - Len(w) \in 1..(N - i + 1) /\ i + (j - Len(w)) - 1 = j - 1
        BY <1>1, <1>5, <2>4
      <3>2. r[j] = s[j - 1]
        BY <1>4, <1>6, <2>1, <3>1
      <3> QED BY <1>1, <2>4, <3>2
    <2> QED BY <1>1, <2>2, <2>3, <2>4
  <1>9. ToSet(r) = ToSet(s) \cup {e}
    <2>1. ASSUME NEW j \in 1..(N + 1) PROVE r[j] = e \/ \E k \in 1..N : r[j] = s[k]
      <3>1. CASE j < i
        <4>1. j \in 1..N
          BY <1>1, <3>1
        <4> QED BY <1>8, <3>1, <4>1
      <3>2. CASE j = i
        BY <1>1, <1>8, <3>2
      <3>3. CASE j > i
        <4>1. j - 1 \in 1..N /\ ~(j < i) /\ j # i
          BY <1>1, <3>3
        <4>2. r[j] = s[j - 1]
          BY <1>8, <4>1
        <4> QED BY <4>1, <4>2
      <3> QED BY <1>1, <3>1, <3>2, <3>3
    <2>2. i \in 1..(N + 1) /\ r[i] = e
      BY <1>1, <1>8
    <2>3. ASSUME NEW k \in 1..N PROVE \E j \in 1..(N + 1) : r[j] = s[k]
      <3>1. CASE k < i
        <4>1. k \in 1..(N + 1)
          BY <1>1
        <4> QED BY <1>8, <3>1, <4>1
      <3>2. CASE ~(k < i)
        <4>1. k + 1 \in 1..(N + 1) /\ ~(k + 1 < i) /\ k + 1 # i /\ (k + 1) - 1 = k
          BY <1>1, <3>2
        <4>2. r[k + 1] = s[k]
          BY <1>8, <4>1
        <4> QED BY <4>1, <4>2
      <3> QED BY <3>1, <3>2
    <2>4. ToSet(r) = {r[j] : j \in 1..(N + 1)} /\ ToSet(s) = {s[k] : k \in 1..N}
      BY <1>1, <1>7 DEF ToSet
    <2> QED BY <2>1, <2>2, <2>3, <2>4
  <1> QED BY <1>6, <1>7, <1>8, <1>9 DEF r, N

\* A number put in after as many members as come before it stands in order.
LEMMA PutIn ==
  ASSUME NEW S \in SUBSET Nat, IsFiniteSet(S), NEW n \in Nat, n \notin S
  PROVE  InsertAt(InOrder(S), Rank(S, n) + 1, n) = InOrder(S \cup {n})
  <1> DEFINE s == InOrder(S)
             N == Len(s)
             k == Rank(S, n)
             T == S \cup {n}
             r == InsertAt(s, k + 1, n)
  <1>1. s \in Seq(S) /\ N = Cardinality(S) /\ DOMAIN s = 1..N /\ Rising(s) /\ ToSet(s) = S
    <2>1. s \in Seq(S) /\ Len(s) = Cardinality(S) /\ Rising(s) /\ \A x \in S : \E i \in DOMAIN s : s[i] = x
      BY InOrderLists DEF Rising
    <2> HIDE DEF s
    <2>2. s \in [1..Len(s) -> S] /\ DOMAIN s = 1..Len(s)
      BY <2>1, LenProperties
    <2>3. ToSet(s) = S
      BY <2>1, <2>2 DEF ToSet
    <2> QED BY <2>1, <2>2, <2>3
  <1>2. \A i \in 1..N : s[i] \in S /\ Rank(S, s[i]) = i
    BY <1>1, RankOfMembers
  <1>3. N \in Nat /\ k \in 0..N
    BY <1>1, RankType, FS_CardinalityType
  <1> HIDE DEF s, N
  <1>4. ASSUME NEW i \in 1..N PROVE (i <= k => s[i] < n) /\ (i > k => n < s[i])
    <2> DEFINE x == s[i]
               A == {j \in S : j <= x}
               B == {j \in S : j <= n}
    <2>1. x \in S /\ x \in Nat /\ x # n /\ Rank(S, x) = i
      BY <1>2
    <2>2. Cardinality(A) = i /\ Cardinality(B) = k
      BY <2>1 DEF Rank
    <2>3. IsFiniteSet(A) /\ IsFiniteSet(B)
      BY RankType
    <2> HIDE DEF x
    <2>4. CASE x < n
      <3>1. A \in SUBSET B
        <4>1. \A j \in Nat : j <= x => j <= n
          BY <2>1, <2>4
        <4> QED BY <4>1
      <3>2. Cardinality(A) <= Cardinality(B)
        BY <2>3, <3>1, FS_Subset
      <3> QED BY <1>3, <2>2, <2>4, <3>2 DEF x
    <2>5. CASE n < x
      <3>1. B \in SUBSET A /\ x \in A /\ x \notin B
        <4>1. \A j \in Nat : j <= n => j <= x
          BY <2>1, <2>5
        <4>2. x <= x /\ ~(x <= n)
          BY <2>1, <2>5
        <4> QED BY <2>1, <4>1, <4>2
      <3>2. B # A
        BY <3>1
      <3> HIDE DEF A, B
      <3>3. Cardinality(B) < Cardinality(A)
        BY <2>3, <3>1, <3>2, FS_Subset, FS_CardinalityType
      <3> QED BY <1>3, <2>2, <2>5, <3>3 DEF x
    <2> QED BY <2>1, <2>4, <2>5
  <1>5. s \in Seq(T) /\ n \in T /\ k + 1 \in 1..(N + 1)
    BY <1>1, <1>3, SeqMonotonic
  <1> HIDE DEF k
  <1>6. /\ r \in Seq(T) /\ Len(r) = N + 1
        /\ \A j \in 1..(N + 1) : r[j] = IF j < k + 1 THEN s[j] ELSE IF j = k + 1 THEN n ELSE s[j - 1]
        /\ ToSet(r) = T
    <2> HIDE DEF T
    <2>1. k + 1 \in 1..(Len(s) + 1)
      BY <1>5 DEF N
    <2>2. /\ r \in Seq(T) /\ Len(r) = Len(s) + 1
          /\ \A j \in 1..(Len(s) + 1) : r[j] = IF j < k + 1 THEN s[j] ELSE IF j = k + 1 THEN n ELSE s[j - 1]
          /\ ToSet(r) = ToSet(s) \cup {n}
      <3> HIDE DEF r
      <3>1. r = InsertAt(s, k + 1, n)
        BY DEF r
      <3> DEFINE i == k + 1
      <3>2. i \in 1..(Len(s) + 1) /\ s \in Seq(T) /\ n \in T
        BY <1>5, <2>1
      <3> HIDE DEF i
      <3>3. /\ InsertAt(s, i, n) \in Seq(T) /\ Len(InsertAt(s, i, n)) = Len(s) + 1
            /\ \A j \in 1..(Len(s) + 1) :
                 InsertAt(s, i, n)[j] = IF j < i THEN s[j] ELSE IF j = i THEN n ELSE s[j - 1]
            /\ ToSet(InsertAt(s, i, n)) = ToSet(s) \cup {n}
        BY <3>2, Inserted
      <3>4. r = InsertAt(s, i, n)
        BY <3>1 DEF i
      <3> QED BY <3>3, <3>4 DEF i
    <2> QED BY <1>1, <2>2 DEF T, N
  <1> HIDE DEF r
  <1>7. Rising(r)
    <2> SUFFICES ASSUME NEW i \in 1..(N + 1), NEW j \in 1..(N + 1), i < j PROVE r[i] < r[j]
      BY <1>6, LenProperties DEF Rising
    <2>0. \A a \in 1..N : s[a] \in Nat
      BY <1>2
    <2>1. \A a, b \in 1..N : a < b => s[a] < s[b]
      BY <1>1 DEF Rising
    <2>2. CASE j < k + 1
      <3>1. i \in 1..N /\ j \in 1..N /\ r[i] = s[i] /\ r[j] = s[j]
        BY <1>3, <1>6, <2>2 DEF k
      <3> QED BY <2>1, <3>1
    <2>3. CASE j = k + 1
      <3>1. i \in 1..N /\ i <= k /\ r[i] = s[i] /\ r[j] = n
        BY <1>3, <1>6, <2>3 DEF k
      <3> QED BY <1>4, <3>1
    <2>4. CASE j > k + 1
      <3>1. j - 1 \in 1..N /\ j - 1 > k /\ r[j] = s[j - 1]
        BY <1>3, <1>6, <2>4 DEF k
      <3>2. CASE i < k + 1
        <4>1. i \in 1..N /\ i < j - 1 /\ r[i] = s[i]
          BY <1>3, <1>6, <2>4, <3>2 DEF k
        <4> QED BY <2>1, <3>1, <4>1
      <3>3. CASE i = k + 1
        <4>1. r[i] = n
          BY <1>6, <3>3
        <4> QED BY <1>4, <3>1, <4>1
      <3>4. CASE i > k + 1
        <4>1. i - 1 \in 1..N /\ i - 1 < j - 1 /\ r[i] = s[i - 1]
          BY <1>3, <1>6, <3>1, <3>4 DEF k
        <4> QED BY <2>1, <3>1, <4>1
      <3> QED BY <1>3, <3>2, <3>3, <3>4 DEF k
    <2> QED BY <1>3, <2>2, <2>3, <2>4 DEF k
  <1>8. r = InOrder(T)
    <2>1. T \in SUBSET Nat
      OBVIOUS
    <2> HIDE DEF T
    <2> QED BY <1>6, <1>7, <2>1, OneOrder
  <1> QED BY <1>8 DEF r, s, k

-----------------------------------------------------------------------------
(***************************************************************************)
(* Lines of a forest: every element is after its parent.                    *)
(***************************************************************************)
Forest(up, N) == N \in Nat /\ up \in [1..N -> 0..N] /\ \A n \in 1..N : up[n] < n
Lines(f, up, m) == f = [n \in 0..m |-> IF n = 0 THEN <<>> ELSE Append(f[up[n]], n)]

LEMMA LinesExist ==
  ASSUME NEW N, NEW up, Forest(up, N), NEW k \in 0..N
  PROVE  \E f : Lines(f, up, k)
  <1> DEFINE Bad == {m \in 0..N : ~\E f : Lines(f, up, m)}
  <1> SUFFICES ASSUME Bad # {} PROVE FALSE
    OBVIOUS
  <1>0. N \in Nat /\ up \in [1..N -> 0..N] /\ \A n \in 1..N : up[n] < n
    BY DEF Forest
  <1>1. PICK m \in Bad : \A n \in Bad : m <= n
    <2>1. Bad \in SUBSET Nat
      BY <1>0
    <2> QED BY <2>1, LeastExists
  <1>2. m \in 0..N /\ ~\E f : Lines(f, up, m)
    OBVIOUS
  <1>3. CASE m = 0
    <2> DEFINE f == [n \in 0..m |-> <<>>]
    <2>1. \A n \in 0..m : n = 0
      BY <1>3
    <2>2. Lines(f, up, m)
      BY <2>1 DEF Lines
    <2> QED BY <1>2, <2>2
  <1>4. CASE m # 0
    <2>1. m - 1 \in 0..N /\ m \in 1..N /\ ~(m <= m - 1)
      BY <1>0, <1>2, <1>4
    <2>2. m - 1 \notin Bad
      BY <1>1, <2>1, Zenon
    <2>3. PICK f : Lines(f, up, m - 1)
      BY <2>1, <2>2
    <2> DEFINE g == [n \in 0..m |-> IF n = m THEN Append(f[up[m]], m) ELSE f[n]]
    <2>4. ASSUME NEW n \in 0..m PROVE g[n] = IF n = 0 THEN <<>> ELSE Append(g[up[n]], n)
      <3>1. CASE n = m
        <4>1. n # 0 /\ up[n] \in 0..m /\ up[n] # m
          BY <1>0, <1>4, <2>1, <3>1
        <4>2. g[up[n]] = f[up[n]]
          BY <4>1
        <4> QED BY <3>1, <4>1, <4>2
      <3>2. CASE n # m
        <4>1. n \in 0..(m - 1) /\ g[n] = f[n]
          BY <1>0, <2>1, <3>2
        <4>2. f[n] = IF n = 0 THEN <<>> ELSE Append(f[up[n]], n)
          BY <2>3, <4>1 DEF Lines
        <4>3. n # 0 => up[n] \in 0..m /\ up[n] # m
          BY <1>0, <2>1, <3>2
        <4>4. n # 0 => g[up[n]] = f[up[n]]
          BY <4>3
        <4> QED BY <4>1, <4>2, <4>4
      <3> QED BY <3>1, <3>2
    <2>5. g = [n \in 0..m |-> g[n]]
      OBVIOUS
    <2> HIDE DEF g
    <2>6. Lines(g, up, m)
      BY <2>4, <2>5 DEF Lines
    <2> QED BY <1>2, <2>6
  <1> QED BY <1>3, <1>4

LEMMA LinesAgree ==
  ASSUME NEW N, NEW up, Forest(up, N), NEW k \in 0..N, NEW m \in 0..k,
         NEW f, Lines(f, up, m), NEW g, Lines(g, up, k)
  PROVE  \A n \in 0..m : f[n] = g[n]
  <1> DEFINE Bad == {n \in 0..m : f[n] # g[n]}
  <1> SUFFICES ASSUME Bad # {} PROVE FALSE
    OBVIOUS
  <1>0. N \in Nat /\ up \in [1..N -> 0..N] /\ \A n \in 1..N : up[n] < n
    BY DEF Forest
  <1>1. PICK n \in Bad : \A i \in Bad : n <= i
    <2>1. Bad \in SUBSET Nat
      BY <1>0
    <2> QED BY <2>1, LeastExists
  <1>2. n \in 0..m /\ f[n] # g[n] /\ n \in 0..k
    BY <1>0
  <1>3. /\ f[n] = (IF n = 0 THEN <<>> ELSE Append(f[up[n]], n))
        /\ g[n] = (IF n = 0 THEN <<>> ELSE Append(g[up[n]], n))
    BY <1>2 DEF Lines
  <1>4. n # 0
    BY <1>2, <1>3
  <1>5. n \in 1..N /\ up[n] \in 0..m /\ ~(n <= up[n])
    BY <1>0, <1>2, <1>4
  <1>6. f[up[n]] = g[up[n]]
    BY <1>1, <1>5, Zenon
  <1> QED BY <1>2, <1>3, <1>6

LEMMA LineSteps ==
  ASSUME NEW N, NEW t, Forest(t.up, N)
  PROVE  LineOf(t, 0) = <<>> /\ \A m \in 1..N : LineOf(t, m) = Append(LineOf(t, t.up[m]), m)
  <1> DEFINE L(m) == CHOOSE f : Lines(f, t.up, m)
  <1>1. \A m \in 0..N : Lines(L(m), t.up, m)
    BY LinesExist
  <1>2. \A m \in 0..N : LineOf(t, m) = L(m)[m]
    BY DEF LineOf, Lines
  <1> HIDE DEF L
  <1>0. N \in Nat /\ t.up \in [1..N -> 0..N] /\ \A n \in 1..N : t.up[n] < n
    BY DEF Forest
  <1>3. LineOf(t, 0) = <<>>
    <2>1. 0 \in 0..N /\ 0 \in 0..0
      BY <1>0
    <2>2. L(0)[0] = <<>>
      BY <1>1, <2>1 DEF Lines
    <2> QED BY <1>2, <2>1, <2>2
  <1>4. ASSUME NEW m \in 1..N PROVE LineOf(t, m) = Append(LineOf(t, t.up[m]), m)
    <2> DEFINE p == t.up[m]
    <2>1. m \in 0..N /\ m \in 0..m /\ m # 0 /\ p \in 0..N /\ p \in 0..m /\ p \in 0..p
      BY <1>0
    <2>2. L(m)[m] = Append(L(m)[p], m)
      BY <1>1, <2>1 DEF Lines
    <2>3. L(p)[p] = L(m)[p]
      <3>1. Lines(L(p), t.up, p) /\ Lines(L(m), t.up, m)
        BY <1>1, <2>1
      <3> HIDE DEF p
      <3> QED BY <2>1, <3>1, LinesAgree
    <2> QED BY <1>2, <2>1, <2>2, <2>3
  <1> QED BY <1>3, <1>4

\* L runs from a root down to m.
Descends(L, up, m, N) ==
  /\ L \in Seq(1..N) /\ Len(L) >= 1 /\ L[Len(L)] = m /\ up[L[1]] = 0
  /\ \A k \in 1..(Len(L) - 1) : up[L[k + 1]] = L[k]

LEMMA AppendedList ==
  ASSUME NEW S, NEW s \in Seq(S), NEW e \in S
  PROVE  /\ Append(s, e) \in Seq(S) /\ Len(Append(s, e)) = Len(s) + 1 /\ Len(s) \in Nat
         /\ Append(s, e)[Len(s) + 1] = e /\ \A k \in 1..Len(s) : Append(s, e)[k] = s[k]
         /\ ToSet(Append(s, e)) = ToSet(s) \cup {e}
  <1>1. /\ Append(s, e) \in Seq(S) /\ Len(Append(s, e)) = Len(s) + 1 /\ Len(s) \in Nat
        /\ Append(s, e)[Len(s) + 1] = e /\ \A k \in 1..Len(s) : Append(s, e)[k] = s[k]
    BY AppendProperties, LenProperties
  <1>2. DOMAIN s = 1..Len(s) /\ DOMAIN Append(s, e) = 1..(Len(s) + 1)
    BY <1>1, LenProperties
  <1>3. ToSet(Append(s, e)) = ToSet(s) \cup {e}
    <2> DEFINE r == Append(s, e)
    <2> HIDE DEF r
    <2>1. /\ DOMAIN r = 1..(Len(s) + 1) /\ r[Len(s) + 1] = e /\ Len(s) \in Nat
          /\ \A k \in 1..Len(s) : r[k] = s[k]
      BY <1>1, <1>2 DEF r
    <2>2. \A k \in 1..(Len(s) + 1) : k \in 1..Len(s) \/ k = Len(s) + 1
      BY <2>1
    <2>3. \A k \in 1..Len(s) : k \in 1..(Len(s) + 1)
      BY <2>1
    <2>4. Len(s) + 1 \in 1..(Len(s) + 1)
      BY <2>1
    <2>5. ToSet(r) = ToSet(s) \cup {e}
      BY <1>2, <2>1, <2>2, <2>3, <2>4 DEF ToSet
    <2> QED BY <2>5 DEF r
  <1> QED BY <1>1, <1>3

LEMMA LineDescends ==
  ASSUME NEW N, NEW t, Forest(t.up, N), NEW m \in 1..N
  PROVE  Descends(LineOf(t, m), t.up, m, N)
  <1> DEFINE Bad == {n \in 1..N : ~Descends(LineOf(t, n), t.up, n, N)}
  <1> SUFFICES ASSUME Bad # {} PROVE FALSE
    OBVIOUS
  <1>0. N \in Nat /\ t.up \in [1..N -> 0..N] /\ \A n \in 1..N : t.up[n] < n
    BY DEF Forest
  <1>1. PICK n \in Bad : \A i \in Bad : n <= i
    <2>1. Bad \in SUBSET Nat
      BY <1>0
    <2> QED BY <2>1, LeastExists
  <1>2. n \in 1..N /\ ~Descends(LineOf(t, n), t.up, n, N)
    OBVIOUS
  <1> DEFINE p == t.up[n]
             L == LineOf(t, n)
             K == LineOf(t, p)
  <1>3. L = Append(K, n)
    BY <1>2, LineSteps
  <1>4. CASE p = 0
    <2>0. LineOf(t, 0) = <<>>
      BY LineSteps
    <2>1. L = <<n>>
      <3>1. L = Append(LineOf(t, 0), n)
        BY <1>3, <1>4, Zenon
      <3>2. L = Append(<<>>, n)
        BY <2>0, <3>1, Zenon
      <3> QED BY <3>2
    <2>2. L \in Seq(1..N) /\ Len(L) = 1 /\ L[1] = n
      BY <1>2, <2>1
    <2> HIDE DEF L, p
    <2>3. Descends(L, t.up, n, N)
      BY <1>4, <2>2 DEF Descends, p
    <2> QED BY <1>2, <2>3 DEF L
  <1>5. CASE p # 0
    <2>1. p \in 1..N /\ ~(n <= p)
      BY <1>0, <1>2, <1>5
    <2>2. Descends(K, t.up, p, N)
      BY <1>1, <2>1, Zenon
    <2> HIDE DEF L, p, K
    <2>3. /\ K \in Seq(1..N) /\ Len(K) >= 1 /\ K[Len(K)] = p /\ t.up[K[1]] = 0
          /\ \A k \in 1..(Len(K) - 1) : t.up[K[k + 1]] = K[k]
      BY <2>2 DEF Descends
    <2>4. /\ L \in Seq(1..N) /\ Len(L) = Len(K) + 1 /\ Len(K) \in Nat
          /\ L[Len(K) + 1] = n /\ \A k \in 1..Len(K) : L[k] = K[k]
      BY <1>2, <1>3, <2>3, AppendedList
    <2>5. ASSUME NEW k \in 1..(Len(L) - 1) PROVE t.up[L[k + 1]] = L[k]
      <3>1. CASE k = Len(K)
        BY <2>3, <2>4, <3>1 DEF p
      <3>2. CASE k # Len(K)
        <4>1. k \in 1..(Len(K) - 1) /\ k \in 1..Len(K) /\ k + 1 \in 1..Len(K)
          BY <2>4, <3>2
        <4> QED BY <2>3, <2>4, <4>1
      <3> QED BY <3>1, <3>2
    <2>6. Len(L) >= 1 /\ L[1] = K[1]
      BY <2>3, <2>4
    <2>7. Descends(L, t.up, n, N)
      BY <2>3, <2>4, <2>5, <2>6 DEF Descends
    <2> QED BY <1>2, <2>7 DEF L
  <1> QED BY <1>4, <1>5

LEMMA AncestorSteps ==
  ASSUME NEW N, NEW t, Forest(t.up, N), NEW m \in 1..N
  PROVE  Ancestors(t, m) = IF t.up[m] = 0 THEN {} ELSE {t.up[m]} \cup Ancestors(t, t.up[m])
  <1>0. N \in Nat /\ t.up \in [1..N -> 0..N] /\ \A n \in 1..N : t.up[n] < n
    BY DEF Forest
  <1>1. CASE t.up[m] = 0
    <2>1. LineOf(t, 0) = <<>>
      BY LineSteps
    <2>2. ToSet(<<>>) = {}
      BY DEF ToSet
    <2> QED BY <1>1, <2>1, <2>2 DEF Ancestors
  <1>2. CASE t.up[m] # 0
    <2> DEFINE p == t.up[m]
    <2>1. p \in 1..N
      BY <1>0, <1>2
    <2>2. LineOf(t, p) = Append(LineOf(t, t.up[p]), p)
      BY <2>1, LineSteps
    <2>3. LineOf(t, t.up[p]) \in Seq(1..N)
      <3>1. CASE t.up[p] = 0
        <4>1. LineOf(t, 0) = <<>>
          BY LineSteps
        <4>2. LineOf(t, t.up[p]) = <<>>
          BY <3>1, <4>1, Zenon
        <4> QED BY <4>2
      <3>2. CASE t.up[p] # 0
        <4>1. t.up[p] \in 1..N
          BY <1>0, <2>1, <3>2
        <4> HIDE DEF p
        <4> QED BY <4>1, LineDescends DEF Descends
      <3> QED BY <3>1, <3>2
    <2> HIDE DEF p
    <2>4. ToSet(LineOf(t, p)) = ToSet(LineOf(t, t.up[p])) \cup {p}
      <3> DEFINE K == LineOf(t, t.up[p])
      <3>1. K \in Seq(1..N)
        BY <2>3
      <3> HIDE DEF K
      <3>2. ToSet(Append(K, p)) = ToSet(K) \cup {p}
        <4> DEFINE S == 1..N
        <4>1. K \in Seq(S) /\ p \in S
          BY <2>1, <3>1
        <4> HIDE DEF S
        <4> QED BY <4>1, AppendedList
      <3> QED BY <2>2, <3>2 DEF K
    <2> QED BY <1>2, <2>4 DEF Ancestors, p
  <1> QED BY <1>1, <1>2

-----------------------------------------------------------------------------
(***************************************************************************)
(* Trees of a document: what is left of its edges, the children in order.     *)
(***************************************************************************)
Trees(d) == [up : [Nodes(d) -> 0..Len(d)], kids : [Nodes(d) -> Seq(Nodes(d))]]
TreeOf(t, d) ==
  /\ t \in Trees(d)
  /\ \A n \in Nodes(d) : t.up[n] \in {0, d[n].up}
Children(t, d, p) == {m \in Nodes(d) : t.up[m] = p}
Ordered(t, d, p) == t.kids[p] = InOrder(Children(t, d, p))

LEMMA DocumentFacts ==
  ASSUME NEW d \in HtmlPages
  PROVE  /\ Len(d) \in Nat /\ Len(d) >= 2 /\ Nodes(d) = 1..Len(d) /\ 1 \in Nodes(d) /\ 2 \in Nodes(d)
         /\ d[1].tag = "html" /\ d[2].tag = "body" /\ d[1].up = 0
         /\ \A n \in Nodes(d) : d[n].up \in 0..Len(d) /\ d[n].up < n /\ (n # 1 => d[n].up \in Nodes(d))
  <1>1. /\ Len(d) \in Nat /\ Len(d) >= 2 /\ d[1].tag = "html" /\ d[2].tag = "body" /\ d[1].up = 0
        /\ \A n \in 2..Len(d) : d[n].up \in 1..(n - 1)
    BY AomAssumption, LenProperties
  <1> DEFINE N == Len(d)
  <1> HIDE DEF N
  <1>2. ASSUME NEW n \in 1..N PROVE d[n].up \in 0..N /\ d[n].up < n /\ (n # 1 => d[n].up \in 1..N)
    <2>1. CASE n = 1
      BY <1>1, <2>1 DEF N
    <2>2. CASE n # 1
      <3>1. d[n].up \in 1..(n - 1)
        BY <1>1, <2>2 DEF N
      <3> QED BY <1>1, <3>1, <2>2 DEF N
    <2> QED BY <2>1, <2>2
  <1>3. 1 \in 1..N /\ 2 \in 1..N
    BY <1>1 DEF N
  <1> QED BY <1>1, <1>2, <1>3 DEF N, Nodes

LEMMA ChildrenFinite ==
  ASSUME NEW d \in HtmlPages, NEW t, NEW p
  PROVE  Children(t, d, p) \in SUBSET Nodes(d) /\ Children(t, d, p) \in SUBSET Nat /\ IsFiniteSet(Children(t, d, p))
  <1>1. Children(t, d, p) \in SUBSET Nodes(d)
    BY DEF Children
  <1>2. Nodes(d) = 1..Len(d) /\ Len(d) \in Nat
    BY DocumentFacts
  <1>3. IsFiniteSet(1..Len(d))
    <2> DEFINE N == Len(d)
    <2>1. 1 \in Int /\ N \in Int
      BY <1>2
    <2> HIDE DEF N
    <2>2. IsFiniteSet(1..N)
      BY <2>1, FS_Interval
    <2> QED BY <2>2 DEF N
  <1> QED BY <1>1, <1>2, <1>3, FS_Subset

LEMMA ParsedTree ==
  ASSUME NEW d \in HtmlPages
  PROVE  /\ TreeOf(Parsed(d), d) /\ \A n \in Nodes(d) : Parsed(d).up[n] = d[n].up
         /\ \A p \in Nodes(d) : Ordered(Parsed(d), d, p)
  <1> DEFINE u == [n \in Nodes(d) |-> d[n].up]
             k == [n \in Nodes(d) |-> InOrder({m \in Nodes(d) : d[m].up = n})]
  <1>1. Parsed(d) = [up |-> u, kids |-> k]
    BY DEF Parsed
  <1>2. u \in [Nodes(d) -> 0..Len(d)] /\ \A n \in Nodes(d) : u[n] = d[n].up
    BY DocumentFacts
  <1>3. ASSUME NEW p \in Nodes(d)
        PROVE  k[p] \in Seq(Nodes(d)) /\ k[p] = InOrder(Children(Parsed(d), d, p))
    <2> DEFINE S == {m \in Nodes(d) : d[m].up = p}
    <2>1. k[p] = InOrder(S)
      OBVIOUS
    <2>2. S = Children(Parsed(d), d, p)
      <3> HIDE DEF u, k
      <3>1. Parsed(d).up = u
        BY <1>1
      <3> QED BY <1>2, <3>1 DEF Children
    <2> HIDE DEF S, k
    <2>3. S \in SUBSET Nodes(d) /\ S \in SUBSET Nat /\ IsFiniteSet(S)
      BY <2>2, ChildrenFinite
    <2>4. InOrder(S) \in Seq(S)
      BY <2>3, InOrderLists
    <2>5. InOrder(S) \in Seq(Nodes(d))
      BY <2>3, <2>4, SeqMonotonic
    <2> QED BY <2>1, <2>2, <2>5
  <1>4. k = [n \in Nodes(d) |-> k[n]]
    OBVIOUS
  <1> HIDE DEF u, k
  <1>5. k \in [Nodes(d) -> Seq(Nodes(d))]
    BY <1>3, <1>4
  <1>6. Parsed(d).up = u /\ Parsed(d).kids = k
    BY <1>1
  <1> QED BY <1>1, <1>2, <1>3, <1>5, <1>6 DEF TreeOf, Trees, Ordered

LEMMA TreeIsForest ==
  ASSUME NEW d \in HtmlPages, NEW t, TreeOf(t, d) PROVE Forest(t.up, Len(d))
  <1>1. Nodes(d) = 1..Len(d) /\ Len(d) \in Nat /\ \A n \in Nodes(d) : d[n].up < n
    BY DocumentFacts
  <1>2. t.up \in [1..Len(d) -> 0..Len(d)] /\ \A n \in 1..Len(d) : t.up[n] \in {0, d[n].up}
    BY <1>1 DEF TreeOf, Trees
  <1>3. ASSUME NEW n \in 1..Len(d) PROVE t.up[n] < n
    BY <1>1, <1>2
  <1> QED BY <1>1, <1>2, <1>3 DEF Forest

\* An element that is taken out.
Without(t, n) == [t EXCEPT !.up[n] = 0, !.kids[t.up[n]] = RemoveAt(@, PlaceOf(n, @))]

LEMMA WithoutElement ==
  ASSUME NEW d \in HtmlPages, NEW t, TreeOf(t, d), NEW n \in Nodes(d), t.up[n] # 0,
         \A p \in Nodes(d) : Ordered(t, d, p)
  PROVE  /\ TreeOf(Without(t, n), d) /\ \A p \in Nodes(d) : Ordered(Without(t, n), d, p)
         /\ \A m \in Nodes(d) : Without(t, n).up[m] = IF m = n THEN 0 ELSE t.up[m]
  <1> DEFINE r == Without(t, n)
             q == t.up[n]
             new == RemoveAt(t.kids[q], PlaceOf(n, t.kids[q]))
  <1>0. Nodes(d) = 1..Len(d) /\ Len(d) \in Nat
    BY DocumentFacts
  <1>1. /\ t.up \in [Nodes(d) -> 0..Len(d)] /\ t.kids \in [Nodes(d) -> Seq(Nodes(d))]
        /\ \A m \in Nodes(d) : t.up[m] \in {0, d[m].up}
    BY DEF TreeOf, Trees
  <1>2. r = [up |-> [t.up EXCEPT ![n] = 0], kids |-> [t.kids EXCEPT ![q] = new]]
    <2> DEFINE a == [t EXCEPT !.up = [t.up EXCEPT ![n] = 0]]
               b == [a EXCEPT !.kids = [a.kids EXCEPT ![q] = new]]
    <2>1. r = b
      BY Zenon DEF Without
    <2> DEFINE U == [Nodes(d) -> 0..Len(d)]
               K == [Nodes(d) -> Seq(Nodes(d))]
    <2>2. t \in [up : U, kids : K]
      BY DEF TreeOf, Trees
    <2> HIDE DEF U, K
    <2>3. a = [up |-> [t.up EXCEPT ![n] = 0], kids |-> t.kids]
      BY <2>2
    <2> HIDE DEF a, new, q, r
    <2>4. b = [up |-> [t.up EXCEPT ![n] = 0], kids |-> [t.kids EXCEPT ![q] = new]]
      BY <2>3
    <2> QED BY <2>1, <2>4
  <1>3. q \in Nodes(d)
    BY <1>0, <1>1
  <1> HIDE DEF r
  <1>4. r.up = [t.up EXCEPT ![n] = 0] /\ r.kids = [t.kids EXCEPT ![q] = new]
    BY <1>2
  <1>5. \A m \in Nodes(d) : r.up[m] = IF m = n THEN 0 ELSE t.up[m]
    BY <1>1, <1>4
  <1>6. r.up \in [Nodes(d) -> 0..Len(d)]
    BY <1>0, <1>1, <1>4
  <1>7. ASSUME NEW p \in Nodes(d) PROVE Children(r, d, p) = Children(t, d, p) \ {n}
    <2>1. p # 0
      BY <1>0
    <2> QED BY <1>5, <2>1 DEF Children
  <1>8. ASSUME NEW p \in Nodes(d), p # q PROVE Children(r, d, p) = Children(t, d, p)
    BY <1>7, <1>8 DEF Children
  <1>9. new = InOrder(Children(t, d, q) \ {n})
    <2> DEFINE S == Children(t, d, q)
    <2>1. n \in S
      BY DEF Children
    <2>2. S \in SUBSET Nat /\ IsFiniteSet(S) /\ t.kids[q] = InOrder(S)
      BY <1>3, ChildrenFinite DEF Ordered
    <2> HIDE DEF S
    <2>3. RemoveAt(InOrder(S), PlaceOf(n, InOrder(S))) = InOrder(S \ {n})
      BY <2>1, <2>2, TakenOut
    <2> QED BY <2>2, <2>3 DEF S
  <1> HIDE DEF new
  <1>10. \A p \in Nodes(d) : r.kids[p] = IF p = q THEN new ELSE t.kids[p]
    BY <1>1, <1>4
  <1>11. \A p \in Nodes(d) : Ordered(r, d, p)
    <2> SUFFICES ASSUME NEW p \in Nodes(d) PROVE r.kids[p] = InOrder(Children(r, d, p))
      BY DEF Ordered
    <2>1. CASE p = q
      <3>1. Children(r, d, q) = Children(t, d, q) \ {n}
        BY <1>3, <1>7
      <3> QED BY <1>9, <1>10, <2>1, <3>1
    <2>2. CASE p # q
      <3>1. Children(r, d, p) = Children(t, d, p)
        BY <1>8, <2>2
      <3> QED BY <1>10, <2>2, <3>1 DEF Ordered
    <2> QED BY <2>1, <2>2
  <1>12. r.kids \in [Nodes(d) -> Seq(Nodes(d))]
    <2> DEFINE S == Children(r, d, q)
    <2>1. S \in SUBSET Nodes(d) /\ S \in SUBSET Nat /\ IsFiniteSet(S) /\ new = InOrder(S)
      BY <1>3, <1>7, <1>9, ChildrenFinite
    <2> HIDE DEF S
    <2>2. new \in Seq(Nodes(d))
      BY <2>1, InOrderLists, SeqMonotonic
    <2> QED BY <1>1, <1>4, <2>2
  <1>13. TreeOf(r, d)
    <2>1. r \in [up : [Nodes(d) -> 0..Len(d)], kids : [Nodes(d) -> Seq(Nodes(d))]]
      BY <1>2, <1>4, <1>6, <1>12
    <2> QED BY <1>1, <1>5, <2>1 DEF TreeOf, Trees
  <1> QED BY <1>5, <1>11, <1>13 DEF r

\* An element that is put back.
With(t, n, q, i) == [t EXCEPT !.up[n] = q, !.kids[q] = InsertAt(@, i, n)]

Puts(r, t, d, n, q, i) ==
  /\ r \in Trees(d) /\ \A m \in Nodes(d) : r.up[m] = IF m = n THEN q ELSE t.up[m]
  /\ \A p \in Nodes(d) : r.kids[p] = IF p = q THEN InsertAt(t.kids[q], i, n) ELSE t.kids[p]
  /\ ToSet(r.kids[q]) = ToSet(t.kids[q]) \cup {n}

LEMMA WithElement ==
  ASSUME NEW d \in HtmlPages, NEW t \in Trees(d),
         NEW n \in Nodes(d), NEW q \in Nodes(d), NEW i \in 1..(Len(t.kids[q]) + 1)
  PROVE  Puts(With(t, n, q, i), t, d, n, q, i)
  <1> DEFINE r == With(t, n, q, i)
             new == InsertAt(t.kids[q], i, n)
             U == [Nodes(d) -> 0..Len(d)]
             K == [Nodes(d) -> Seq(Nodes(d))]
  <1>0. Nodes(d) = 1..Len(d) /\ Len(d) \in Nat
    BY DocumentFacts
  <1>1. t.up \in U /\ t.kids \in K /\ t \in [up : U, kids : K]
    BY DEF Trees
  <1>2. r = [up |-> [t.up EXCEPT ![n] = q], kids |-> [t.kids EXCEPT ![q] = new]]
    <2> DEFINE a == [t EXCEPT !.up = [t.up EXCEPT ![n] = q]]
               b == [a EXCEPT !.kids = [a.kids EXCEPT ![q] = new]]
    <2>1. r = b
      BY Zenon DEF With
    <2>2. a = [up |-> [t.up EXCEPT ![n] = q], kids |-> t.kids]
      <3> HIDE DEF U, K
      <3>1. t \in [up : U, kids : K]
        BY <1>1
      <3> QED BY <3>1
    <2> HIDE DEF a, new, r, U, K
    <2>3. b = [up |-> [t.up EXCEPT ![n] = q], kids |-> [t.kids EXCEPT ![q] = new]]
      BY <2>2
    <2> QED BY <2>1, <2>3
  <1>3. new \in Seq(Nodes(d)) /\ ToSet(new) = ToSet(t.kids[q]) \cup {n}
    <2> DEFINE s == t.kids[q]
    <2>1. s \in Seq(Nodes(d)) /\ i \in 1..(Len(s) + 1)
      BY <1>1
    <2> HIDE DEF s
    <2>2. InsertAt(s, i, n) \in Seq(Nodes(d)) /\ ToSet(InsertAt(s, i, n)) = ToSet(s) \cup {n}
      BY <2>1, Inserted
    <2> QED BY <2>2 DEF s
  <1> HIDE DEF r, new
  <1>4. r.up = [t.up EXCEPT ![n] = q] /\ r.kids = [t.kids EXCEPT ![q] = new]
    BY <1>2
  <1>5. \A m \in Nodes(d) : r.up[m] = IF m = n THEN q ELSE t.up[m]
    BY <1>1, <1>4
  <1>6. \A p \in Nodes(d) : r.kids[p] = IF p = q THEN new ELSE t.kids[p]
    BY <1>1, <1>4
  <1>7. r.up \in U
    BY <1>0, <1>1, <1>4
  <1>8. r.kids \in K
    BY <1>1, <1>3, <1>4
  <1>9. r \in Trees(d)
    BY <1>2, <1>4, <1>7, <1>8 DEF Trees
  <1> QED BY <1>3, <1>5, <1>6, <1>9 DEF Puts, r, new

\* What was kept of an element to put it back.
SavedOf(s, d, t) ==
  /\ s.node \in Nodes(d) /\ s.from \in Nodes(d) /\ s.from = d[s.node].up /\ t.up[s.node] = 0
  /\ s.at = Rank(Children(t, d, s.from), s.node) + 1

\* A tree with some elements put back, of those taken out of another.
PartlyBack(t, was, d) ==
  /\ TreeOf(t, d) /\ \A m \in Nodes(d) : was.up[m] # 0 => t.up[m] = was.up[m]
  /\ \A p \in Nodes(d) :
       /\ ToSet(t.kids[p]) = Children(t, d, p)
       /\ (\A a, b \in Children(t, d, p) : was.up[a] = 0 /\ was.up[b] = 0 => a = b) => Ordered(t, d, p)

LEMMA PutBackKeeps ==
  ASSUME page.doc \in HtmlPages, NEW was, TreeOf(was, page.doc),
         NEW s, SavedOf(s, page.doc, was), NEW t, PartlyBack(t, was, page.doc), t.up[s.node] = 0
  PROVE  /\ PartlyBack(PutBack(t, s), was, page.doc)
         /\ \A m \in Nodes(page.doc) : m # s.node => PutBack(t, s).up[m] = t.up[m]
  <1> DEFINE d == page.doc
             n == s.node
             q == s.from
             i == IF s.at - 1 < Len(t.kids[q]) THEN s.at ELSE Len(t.kids[q]) + 1
             r == With(t, n, q, i)
  <1>1. PutBack(t, s) = r \/ PutBack(t, s) = t
    BY Zenon DEF PutBack, With
  <1> HIDE DEF d
  <1>2. /\ d \in HtmlPages /\ n \in Nodes(d) /\ q \in Nodes(d) /\ q = d[n].up /\ was.up[n] = 0 /\ t.up[n] = 0
        /\ s.at = Rank(Children(was, d, q), n) + 1
    BY DEF SavedOf, d
  <1>3. /\ t \in Trees(d)
        /\ \A m \in Nodes(d) : t.up[m] \in {0, d[m].up}
        /\ \A m \in Nodes(d) : was.up[m] # 0 => t.up[m] = was.up[m]
        /\ \A p \in Nodes(d) : ToSet(t.kids[p]) = Children(t, d, p)
    BY DEF PartlyBack, TreeOf, d
  <1>4. Len(t.kids[q]) \in Nat /\ s.at \in Nat /\ s.at >= 1 /\ i \in 1..(Len(t.kids[q]) + 1)
    <2>1. t.kids[q] \in Seq(Nodes(d))
      BY <1>2, <1>3 DEF Trees
    <2>2. Len(t.kids[q]) \in Nat
      BY <2>1, LenProperties
    <2> DEFINE S == Children(was, d, q)
    <2>3. S \in SUBSET Nat /\ IsFiniteSet(S)
      BY <1>2, ChildrenFinite
    <2> HIDE DEF S
    <2>4. Rank(S, n) \in 0..Cardinality(S) /\ Cardinality(S) \in Nat
      BY <2>3, RankType, FS_CardinalityType
    <2>5. s.at \in Nat /\ s.at >= 1
      BY <1>2, <2>4 DEF S
    <2> QED BY <2>2, <2>5
  <1> DEFINE L == Len(t.kids[q])
  <1>5. /\ r \in Trees(d)
        /\ \A m \in Nodes(d) : r.up[m] = IF m = n THEN q ELSE t.up[m]
        /\ \A p \in Nodes(d) : r.kids[p] = IF p = q THEN InsertAt(t.kids[q], i, n) ELSE t.kids[p]
        /\ ToSet(r.kids[q]) = ToSet(t.kids[q]) \cup {n}
    <2>1. d \in HtmlPages /\ t \in Trees(d) /\ n \in Nodes(d) /\ q \in Nodes(d) /\ i \in 1..(Len(t.kids[q]) + 1)
      BY <1>2, <1>3, <1>4
    <2> HIDE DEF i, n, q
    <2>2. Puts(With(t, n, q, i), t, d, n, q, i)
      BY <2>1, WithElement
    <2> QED BY <2>2 DEF Puts
  <1> HIDE DEF r, n, q
  <1>6. 0 \notin Nodes(d) /\ Nodes(d) \in SUBSET Nat
    BY <1>2, DocumentFacts
  <1>7. Children(r, d, q) = Children(t, d, q) \cup {n} /\ \A p \in Nodes(d) : p # q => Children(r, d, p) = Children(t, d, p)
    <2>1. \A m \in Nodes(d) : r.up[m] = q <=> (m = n \/ t.up[m] = q)
      BY <1>5
    <2>2. \A p, m \in Nodes(d) : p # q => (r.up[m] = p <=> t.up[m] = p)
      BY <1>2, <1>5, <1>6
    <2> QED BY <1>2, <2>1, <2>2 DEF Children
  <1>8. TreeOf(r, d) /\ \A m \in Nodes(d) : was.up[m] # 0 => r.up[m] = was.up[m]
    <2>1. \A m \in Nodes(d) : r.up[m] \in {0, d[m].up}
      BY <1>2, <1>3, <1>5
    <2> QED BY <1>2, <1>3, <1>5, <2>1 DEF TreeOf, Trees
  <1>9. ASSUME NEW p \in Nodes(d) PROVE ToSet(r.kids[p]) = Children(r, d, p)
    <2>1. CASE p = q
      BY <1>3, <1>5, <1>7, <2>1
    <2>2. CASE p # q
      BY <1>3, <1>5, <1>7, <2>2
    <2> QED BY <2>1, <2>2
  <1>10. ASSUME NEW p \in Nodes(d), \A a, b \in Children(r, d, p) : was.up[a] = 0 /\ was.up[b] = 0 => a = b
         PROVE  Ordered(r, d, p)
    <2>1. CASE p # q
      <3>1. Children(r, d, p) = Children(t, d, p) /\ r.kids[p] = t.kids[p]
        BY <1>5, <1>7, <2>1
      <3>2. Ordered(t, d, p)
        BY <1>10, <3>1 DEF PartlyBack, d
      <3> QED BY <3>1, <3>2 DEF Ordered
    <2>2. CASE p = q
      <3> DEFINE S == Children(was, d, q)
      <3>1. n \notin Children(t, d, q) /\ n \notin S
        BY <1>2, <1>6 DEF Children
      <3>2. ASSUME NEW a \in Children(t, d, q) PROVE was.up[a] # 0
        <4>1. a \in Children(r, d, p) /\ n \in Children(r, d, p) /\ a # n
          BY <1>7, <2>2, <3>1
        <4> QED BY <1>2, <1>10, <4>1
      <3>3. Children(t, d, q) = S
        <4>1. ASSUME NEW m \in Nodes(d), t.up[m] = q PROVE was.up[m] = q
          <5>1. m \in Children(t, d, q)
            BY <4>1 DEF Children
          <5> QED BY <1>3, <3>2, <4>1, <5>1
        <4>2. ASSUME NEW m \in Nodes(d), was.up[m] = q PROVE t.up[m] = q
          BY <1>2, <1>3, <1>6, <4>2
        <4> QED BY <4>1, <4>2 DEF Children
      <3>4. t.kids[q] = InOrder(S)
        <4>1. Ordered(t, d, q)
          BY <1>2, <3>2 DEF PartlyBack, d
        <4> QED BY <3>3, <4>1 DEF Ordered
      <3>5. S \in SUBSET Nat /\ IsFiniteSet(S) /\ n \in Nat
        BY <1>2, <1>6, ChildrenFinite
      <3> HIDE DEF S
      <3>6. Len(InOrder(S)) = Cardinality(S) /\ Rank(S, n) \in 0..Cardinality(S) /\ Cardinality(S) \in Nat
        BY <3>5, InOrderLists, RankType, FS_CardinalityType
      <3>7. i = Rank(S, n) + 1
        <4>1. L = Cardinality(S) /\ s.at = Rank(S, n) + 1
          BY <1>2, <3>4, <3>6 DEF S
        <4>2. CASE Rank(S, n) < Cardinality(S)
          BY <3>6, <4>1, <4>2
        <4>3. CASE Rank(S, n) = Cardinality(S)
          BY <3>6, <4>1, <4>3
        <4> QED BY <3>6, <4>2, <4>3
      <3>8. InsertAt(InOrder(S), Rank(S, n) + 1, n) = InOrder(S \cup {n})
        BY <3>1, <3>5, PutIn
      <3>9. r.kids[q] = InOrder(S \cup {n})
        <4> HIDE DEF i
        <4> QED BY <1>2, <1>5, <3>4, <3>7, <3>8
      <3> QED BY <1>7, <2>2, <3>3, <3>9 DEF Ordered
    <2> QED BY <2>1, <2>2
  <1>11. PartlyBack(r, was, d)
    BY <1>8, <1>9, <1>10 DEF PartlyBack
  <1> QED BY <1>1, <1>5, <1>11 DEF d, n

-----------------------------------------------------------------------------
(***************************************************************************)
(* AomFilter: what holds of the tree t while elements are taken out of it.    *)
(***************************************************************************)
ReasonOf(d, n, schema) == Weight(d, Parsed(d), n, schema).reason
Tasks == {[node |-> n, reason |-> ReasonOf(page.doc, n, page.schema)] : n \in page.noise}
SavedEntry == [node : page.noise, from : Nodes(page.doc), at : Nat]

\* What is cut off is noise; the rest is as it was parsed.
CutOff(t) ==
  /\ page.doc \in HtmlPages
  /\ page.noise \in SUBSET Nodes(page.doc) /\ \A n \in page.noise : page.doc[n].tag \notin {"html", "body", "main"}
  /\ TreeOf(t, page.doc) /\ \A p \in Nodes(page.doc) : Ordered(t, page.doc, p)
  /\ \A n \in Nodes(page.doc) : t.up[n] = 0 => n = 1 \/ n \in page.noise

\* What may come back is a link list that was cut off, and its place counts what is before it.
MayReturn(t) ==
  /\ filter.saved \in Seq(SavedEntry)
  /\ \A i \in DOMAIN filter.saved :
       SavedOf(filter.saved[i], page.doc, t) /\ ReasonOf(page.doc, filter.saved[i].node, page.schema) = "link-density"
  /\ \A i, j \in DOMAIN filter.saved : filter.saved[i].node = filter.saved[j].node => i = j

\* What is yet to be taken out comes after what was.
Ahead(t) ==
  /\ filter.todo \in Seq(Tasks)
  /\ \A i, j \in DOMAIN filter.todo : i < j => filter.todo[i].node < filter.todo[j].node
  /\ \A i \in DOMAIN filter.todo, n \in page.noise : t.up[n] = 0 => n < filter.todo[i].node

SavedNodes == {s.node : s \in ToSet(filter.saved)}
Rescued(t) ==
  /\ PartlyBack(tree, t, page.doc)
  /\ \A n \in Nodes(page.doc) : t.up[n] = 0 /\ tree.up[n] # 0 => n \in SavedNodes
  /\ filter.back = SavedNodes \ {n \in Nodes(page.doc) : tree.up[n] = 0}

LEMMA NoiseFacts ==
  ASSUME NEW t, CutOff(t)
  PROVE  /\ Nodes(page.doc) \in SUBSET Nat /\ 0 \notin Nodes(page.doc) /\ Len(page.doc) \in Nat
         /\ Nodes(page.doc) = 1..Len(page.doc) /\ 1 \in Nodes(page.doc) /\ 1 \notin page.noise
         /\ \A n \in Nodes(page.doc) : page.doc[n].up \in 0..Len(page.doc) /\ (n # 1 => page.doc[n].up \in Nodes(page.doc))
         /\ \A n \in page.noise : page.doc[n].up \in Nodes(page.doc)
  <1>1. page.doc \in HtmlPages
    BY DEF CutOff
  <1>2. /\ Len(page.doc) \in Nat /\ Nodes(page.doc) = 1..Len(page.doc) /\ 1 \in Nodes(page.doc)
        /\ page.doc[1].tag = "html"
        /\ \A n \in Nodes(page.doc) : page.doc[n].up \in 0..Len(page.doc) /\ (n # 1 => page.doc[n].up \in Nodes(page.doc))
    BY <1>1, DocumentFacts
  <1>3. 1 \notin page.noise
    BY <1>2 DEF CutOff
  <1>4. \A n \in page.noise : page.doc[n].up \in Nodes(page.doc)
    BY <1>2, <1>3 DEF CutOff
  <1> QED BY <1>2, <1>3, <1>4

\* An element on the list that is still in the tree is taken out, and what is known goes on.
LEMMA CutNext ==
  ASSUME NEW t, CutOff(t), MayReturn(t), Ahead(t), NEW n \in page.noise, t.up[n] # 0,
         \A m \in page.noise : t.up[m] = 0 => m < n
  PROVE  /\ CutOff(Without(t, n)) /\ MayReturn(Without(t, n))
         /\ \A m \in page.noise : Without(t, n).up[m] = 0 => m <= n
         /\ SavedOf([node |-> n, from |-> t.up[n], at |-> PlaceOf(n, t.kids[t.up[n]])], page.doc, Without(t, n))
         /\ [node |-> n, from |-> t.up[n], at |-> PlaceOf(n, t.kids[t.up[n]])] \in SavedEntry
  <1> DEFINE d == page.doc
             r == Without(t, n)
             q == t.up[n]
  <1>0. /\ d \in HtmlPages /\ page.noise \in SUBSET Nodes(d) /\ TreeOf(t, d) /\ n \in Nodes(d)
        /\ \A p \in Nodes(d) : Ordered(t, d, p)
        /\ \A m \in Nodes(d) : t.up[m] = 0 => m = 1 \/ m \in page.noise
        /\ Nodes(d) \in SUBSET Nat /\ 0 \notin Nodes(d) /\ d[n].up \in Nodes(d)
    BY NoiseFacts DEF CutOff
  <1>1. /\ TreeOf(r, d) /\ \A p \in Nodes(d) : Ordered(r, d, p)
        /\ \A m \in Nodes(d) : r.up[m] = IF m = n THEN 0 ELSE t.up[m]
    BY <1>0, WithoutElement
  <1>2. q = d[n].up /\ q \in Nodes(d)
    BY <1>0 DEF TreeOf
  <1> HIDE DEF r
  <1>3. CutOff(r)
    BY <1>0, <1>1 DEF CutOff
  <1>4. \A m \in page.noise : r.up[m] = 0 => m <= n
    BY <1>0, <1>1
  <1>5. Children(r, d, q) = Children(t, d, q) \ {n} /\ \A p \in Nodes(d) : p # q => Children(r, d, p) = Children(t, d, p)
    <2>1. \A m \in Nodes(d) : r.up[m] = q <=> (m # n /\ t.up[m] = q)
      BY <1>0, <1>1, <1>2
    <2>2. \A p, m \in Nodes(d) : p # q => (r.up[m] = p <=> t.up[m] = p)
      BY <1>0, <1>1
    <2> QED BY <1>2, <2>1, <2>2 DEF Children
  <1>6. ASSUME NEW s, SavedOf(s, d, t), s.node \in page.noise PROVE SavedOf(s, d, r)
    <2>1. s.node \in Nodes(d) /\ t.up[s.node] = 0 /\ s.node < n /\ s.node # n
      BY <1>0, <1>6 DEF SavedOf
    <2>2. r.up[s.node] = 0
      BY <1>1, <2>1
    <2>3. Rank(Children(r, d, s.from), s.node) = Rank(Children(t, d, s.from), s.node)
      <3>1. CASE s.from = q
        <4>1. ~(n <= s.node)
          BY <1>0, <2>1
        <4>2. {j \in Children(t, d, q) \ {n} : j <= s.node} = {j \in Children(t, d, q) : j <= s.node}
          BY <4>1
        <4> QED BY <1>5, <3>1, <4>2 DEF Rank
      <3>2. CASE s.from # q
        <4>1. s.from \in Nodes(d)
          BY <1>6 DEF SavedOf
        <4> QED BY <1>5, <3>2, <4>1
      <3> QED BY <3>1, <3>2
    <2> QED BY <1>6, <2>2, <2>3 DEF SavedOf
  <1>7. MayReturn(r)
    <2>1. \A i \in DOMAIN filter.saved : filter.saved[i].node \in page.noise
      <3>1. filter.saved \in Seq(SavedEntry)
        BY DEF MayReturn
      <3>2. \A i \in DOMAIN filter.saved : filter.saved[i] \in SavedEntry
        BY <3>1, LenProperties
      <3> QED BY <3>2 DEF SavedEntry
    <2>2. \A i \in DOMAIN filter.saved : SavedOf(filter.saved[i], d, r)
      BY <1>6, <2>1 DEF MayReturn
    <2> QED BY <2>2 DEF MayReturn
  <1> DEFINE s == [node |-> n, from |-> q, at |-> PlaceOf(n, t.kids[q])]
  <1>8. SavedOf(s, d, r) /\ s \in SavedEntry
    <2> DEFINE S == Children(t, d, q)
    <2>1. S \in SUBSET Nat /\ IsFiniteSet(S) /\ t.kids[q] = InOrder(S)
      BY <1>0, <1>2, ChildrenFinite DEF Ordered
    <2>2. n \in S
      BY <1>0 DEF Children
    <2> HIDE DEF S
    <2>3. PlaceOf(n, t.kids[q]) = Rank(S, n)
      BY <2>1, <2>2, PlaceOfMember
    <2>4. Rank(S, n) = Rank(S \ {n}, n) + 1 /\ Rank(S, n) \in Nat
      <3> DEFINE A == {j \in S \ {n} : j <= n}
      <3>1. {j \in S : j <= n} = A \cup {n} /\ n \notin A
        <4>1. n <= n
          BY <1>0
        <4> QED BY <2>2, <4>1
      <3>2. IsFiniteSet(A)
        <4>1. S \ {n} \in SUBSET Nat /\ IsFiniteSet(S \ {n})
          BY <2>1, FS_Subset
        <4> QED BY <4>1, RankType
      <3>3. Rank(S \ {n}, n) = Cardinality(A)
        BY DEF Rank
      <3> HIDE DEF A
      <3>4. Cardinality(A \cup {n}) = Cardinality(A) + 1 /\ Cardinality(A) \in Nat
        BY <3>1, <3>2, FS_AddElement, FS_CardinalityType
      <3>5. Rank(S, n) = Cardinality(A \cup {n})
        BY <3>1 DEF Rank
      <3> QED BY <3>3, <3>4, <3>5
    <2>5. Children(r, d, q) = S \ {n}
      BY <1>5 DEF S
    <2>6. s.node = n /\ s.from = q /\ s.at = Rank(S \ {n}, n) + 1
      BY <2>3, <2>4
    <2>7. s \in SavedEntry
      BY <1>2, <2>3, <2>4 DEF SavedEntry
    <2> HIDE DEF s
    <2> QED BY <1>0, <1>1, <1>2, <2>5, <2>6, <2>7 DEF SavedOf
  <1> QED BY <1>3, <1>4, <1>7, <1>8 DEF r

-----------------------------------------------------------------------------
(***************************************************************************)
(* Paths: what a step of a path says, and which element a path names.         *)
(***************************************************************************)
Alike(t, d, n) == IF t.up[n] = 0 THEN {n} ELSE {m \in Children(t, d, t.up[n]) : d[m].tag = d[n].tag}
Numbered(T, n) == IF Cardinality(T) = 1 THEN 0 ELSE Rank(T, n)

\* As many places of a list as members at them.
LEMMA PlacesOf ==
  ASSUME NEW S \in SUBSET Nat, IsFiniteSet(S), NEW A \in SUBSET (DOMAIN InOrder(S))
  PROVE  IsFiniteSet(A) /\ Cardinality(A) = Cardinality({InOrder(S)[i] : i \in A})
  <1> DEFINE s == InOrder(S)
             T == {s[i] : i \in A}
             f == [i \in A |-> s[i]]
  <1>1. s \in Seq(S) /\ DOMAIN s = 1..Len(s) /\ Len(s) \in Nat /\ \A i, j \in DOMAIN s : i < j => s[i] < s[j]
    BY InOrderLists, LenProperties
  <1> HIDE DEF s
  <1>2. \A i \in DOMAIN s : s[i] \in Nat
    BY <1>1, LenProperties
  <1>3. IsFiniteSet(A)
    <2> DEFINE n == Len(s)
    <2>1. 1 \in Int /\ n \in Int /\ A \in SUBSET (1..n)
      BY <1>1 DEF s
    <2> HIDE DEF n
    <2>2. IsFiniteSet(1..n)
      BY <2>1, FS_Interval
    <2> QED BY <2>1, <2>2, FS_Subset
  <1>4. ASSUME NEW i \in A, NEW j \in A, f[i] = f[j] PROVE i = j
    <2>1. i \in DOMAIN s /\ j \in DOMAIN s /\ i \in Nat /\ j \in Nat
      BY <1>1 DEF s
    <2>2. ~(i < j) /\ ~(j < i)
      BY <1>1, <1>2, <1>4, <2>1
    <2> QED BY <2>1, <2>2
  <1>5. f \in [A -> T] /\ \A x \in T : \E i \in A : f[i] = x
    OBVIOUS
  <1> HIDE DEF f, T
  <1>6. f \in Bijection(A, T)
    BY <1>4, <1>5 DEF Bijection, Injection, Surjection, IsInjective
  <1>7. Cardinality(A) = Cardinality(T)
    BY <1>3, <1>6, FS_Bijection, FS_Surjection DEF Bijection
  <1> QED BY <1>3, <1>7 DEF T, s

LEMMA StepSays ==
  ASSUME NEW d \in HtmlPages, NEW t, TreeOf(t, d), \A p \in Nodes(d) : Ordered(t, d, p), NEW n \in Nodes(d)
  PROVE  PathStep(t, d, n) = <<d[n].tag, Numbered(Alike(t, d, n), n)>>
  <1>1. CASE t.up[n] = 0
    <2>1. Alike(t, d, n) = {n}
      BY <1>1 DEF Alike
    <2>2. Cardinality({n}) = 1 /\ Cardinality({1}) = 1
      BY FS_Singleton
    <2>3. {i \in DOMAIN <<n>> : d[<<n>>[i]].tag = d[n].tag} = {1}
      OBVIOUS
    <2>4. Numbered(Alike(t, d, n), n) = 0
      BY <2>1, <2>2 DEF Numbered
    <2> QED BY <1>1, <2>2, <2>3, <2>4 DEF PathStep
  <1>2. CASE t.up[n] # 0
    <2> DEFINE q == t.up[n]
               S == Children(t, d, q)
               s == InOrder(S)
               T == Alike(t, d, n)
               same == {i \in DOMAIN s : d[s[i]].tag = d[n].tag}
               p == PlaceOf(n, s)
    <2>1. q \in Nodes(d) /\ t.kids[q] = s
      <3>1. q \in 0..Len(d) /\ Nodes(d) = 1..Len(d) /\ Len(d) \in Nat
        BY DocumentFacts DEF TreeOf, Trees
      <3>2. q \in Nodes(d)
        BY <1>2, <3>1
      <3> QED BY <3>2 DEF Ordered
    <2>2. S \in SUBSET Nat /\ IsFiniteSet(S) /\ n \in S
      BY ChildrenFinite DEF Children
    <2>3. /\ DOMAIN s = 1..Len(s) /\ Len(s) \in Nat /\ \A i \in DOMAIN s : s[i] \in S
          /\ \A i, j \in DOMAIN s : i < j => s[i] < s[j]
          /\ \A x \in S : \E i \in DOMAIN s : s[i] = x
          /\ p \in DOMAIN s /\ s[p] = n
      <3>1. s \in Seq(S)
        BY <2>2, InOrderLists
      <3>2. \A i \in DOMAIN s : s[i] \in S
        BY <3>1, LenProperties
      <3> QED BY <2>2, <3>1, <3>2, InOrderLists, PlaceOfMember, LenProperties
    <2>4. T = {m \in S : d[m].tag = d[n].tag}
      BY <1>2 DEF Alike
    <2>5. PathStep(t, d, n) = <<d[n].tag, IF Cardinality(same) = 1 THEN 0 ELSE Rank(same, p)>>
      BY <1>2, <2>1 DEF PathStep
    <2> HIDE DEF s, S, T, p
    <2>6. T = {s[i] : i \in same}
      BY <2>3, <2>4
    <2>7. Cardinality(same) = Cardinality(T)
      <3>1. same \in SUBSET (DOMAIN s)
        OBVIOUS
      <3> HIDE DEF same
      <3>2. Cardinality(same) = Cardinality({s[i] : i \in same})
        BY <2>2, <3>1, PlacesOf DEF s
      <3> QED BY <2>6, <3>2
    <2>8. Rank(same, p) = Rank(T, n)
      <3> DEFINE A == {i \in same : i <= p}
      <3>1. A \in SUBSET (DOMAIN s)
        OBVIOUS
      <3>2. \A i \in DOMAIN s : s[i] <= n <=> i <= p
        <4> SUFFICES ASSUME NEW i \in DOMAIN s PROVE s[i] <= n <=> i <= p
          OBVIOUS
        <4>1. s[i] \in Nat /\ n \in Nat /\ i \in Nat /\ p \in Nat
          <5>1. i \in 1..Len(s) /\ p \in 1..Len(s)
            BY <2>3
          <5>2. s[i] \in S /\ n \in S
            BY <2>2, <2>3
          <5>3. i \in Nat /\ p \in Nat
            BY <2>3, <5>1
          <5> QED BY <2>2, <5>2, <5>3
        <4>2. (i < p => s[i] < n) /\ (p < i => n < s[i])
          BY <2>3
        <4> QED BY <2>3, <4>1, <4>2
      <3>3. {s[i] : i \in A} = {m \in T : m <= n}
        BY <2>6, <3>2
      <3>4. Rank(same, p) = Cardinality(A)
        BY DEF Rank
      <3> HIDE DEF A
      <3>5. Cardinality(A) = Cardinality({s[i] : i \in A})
        BY <2>2, <3>1, PlacesOf DEF s
      <3> QED BY <3>3, <3>4, <3>5 DEF Rank
    <2> QED BY <2>5, <2>7, <2>8 DEF Numbered, T
  <1> QED BY <1>1, <1>2

\* What a step says of the parsed tree.
StepOf(n) == PathStep(Parsed(page.doc), page.doc, n)

LEMMA StableSteps ==
  ASSUME NEW t, CutOff(t), PathsAreStable, NEW n \in Nodes(page.doc)
  PROVE  PathStep(t, page.doc, n) = StepOf(n)
  <1> DEFINE d == page.doc
             o == Parsed(d)
  <1>1. /\ d \in HtmlPages /\ TreeOf(t, d) /\ \A p \in Nodes(d) : Ordered(t, d, p)
        /\ \A m \in Nodes(d) : t.up[m] = 0 => m = 1 \/ m \in page.noise
        /\ page.noise \in SUBSET Nodes(d)
    BY DEF CutOff
  <1>2. /\ 1 \in Nodes(d) /\ 0 \notin Nodes(d) /\ d[1].up = 0
        /\ \A m \in Nodes(d) : m # 1 => d[m].up \in Nodes(d)
    BY <1>1, NoiseFacts, DocumentFacts
  <1>3. TreeOf(o, d) /\ (\A m \in Nodes(d) : o.up[m] = d[m].up) /\ \A p \in Nodes(d) : Ordered(o, d, p)
    BY <1>1, ParsedTree
  <1>4. \A m \in Nodes(d) : t.up[m] \in {0, d[m].up}
    BY <1>1 DEF TreeOf
  <1> HIDE DEF o
  <1>5. ASSUME NEW x \in page.noise, NEW y \in Nodes(d), y # x, d[y].up = d[x].up PROVE d[y].tag # d[x].tag
    BY <1>5 DEF PathsAreStable
  <1>6. Alike(t, d, n) = Alike(o, d, n)
    <2>1. CASE n = 1
      <3>1. t.up[n] = 0 /\ o.up[n] = 0
        BY <1>2, <1>3, <1>4, <2>1
      <3> QED BY <3>1 DEF Alike
    <2>2. CASE n \in page.noise /\ n # 1
      <3> DEFINE q == d[n].up
      <3>1. o.up[n] = q /\ q \in Nodes(d) /\ q # 0 /\ t.up[n] \in {0, q}
        BY <1>2, <1>3, <1>4, <2>2
      <3>2. \A m \in Children(o, d, q) : d[m].tag = d[n].tag => m = n
        BY <1>3, <1>5, <2>2 DEF Children
      <3>3. n \in Children(o, d, q)
        BY <3>1 DEF Children
      <3>4. Alike(o, d, n) = {n}
        BY <3>1, <3>2, <3>3 DEF Alike
      <3>5. CASE t.up[n] = 0
        BY <3>4, <3>5 DEF Alike
      <3>6. CASE t.up[n] = q
        <4>1. n \in Children(t, d, q) /\ Children(t, d, q) \in SUBSET Children(o, d, q)
          BY <1>3, <1>4, <3>1, <3>6 DEF Children
        <4> QED BY <3>1, <3>2, <3>4, <3>6, <4>1 DEF Alike
      <3> QED BY <3>1, <3>5, <3>6
    <2>3. CASE n \notin page.noise /\ n # 1
      <3> DEFINE q == d[n].up
      <3>1. t.up[n] = q /\ o.up[n] = q /\ q \in Nodes(d) /\ q # 0
        BY <1>1, <1>2, <1>3, <1>4, <2>3
      <3>2. ASSUME NEW m \in Nodes(d), d[m].tag = d[n].tag PROVE t.up[m] = q <=> o.up[m] = q
        <4>1. t.up[m] = q => o.up[m] = q
          BY <1>3, <1>4, <3>1
        <4>2. ASSUME o.up[m] = q PROVE t.up[m] = q
          <5>1. d[m].up = q /\ m # 1
            BY <1>2, <1>3, <3>1, <4>2
          <5>2. m \notin page.noise
            BY <1>5, <2>3, <3>2, <5>1
          <5> QED BY <1>1, <1>4, <5>1, <5>2
        <4> QED BY <4>1, <4>2
      <3> QED BY <3>1, <3>2 DEF Alike, Children
    <2> QED BY <2>1, <2>2, <2>3
  <1>7. PathStep(t, d, n) = <<d[n].tag, Numbered(Alike(t, d, n), n)>>
    BY <1>1, StepSays
  <1>8. PathStep(o, d, n) = <<d[n].tag, Numbered(Alike(o, d, n), n)>>
    BY <1>1, <1>3, StepSays
  <1> QED BY <1>6, <1>7, <1>8 DEF StepOf, o

\* A line of the parsed tree from its root, or from noise, down.
Chain(B) ==
  /\ B \in Seq(Nodes(page.doc)) /\ Len(B) >= 1 /\ (B[1] = 1 \/ B[1] \in page.noise)
  /\ \A k \in 1..(Len(B) - 1) : page.doc[B[k + 1]].up = B[k]

LEMMA LineChain ==
  ASSUME NEW t, CutOff(t), NEW n \in Nodes(page.doc)
  PROVE  /\ Chain(LineOf(t, n)) /\ LineOf(t, n)[Len(LineOf(t, n))] = n
         /\ t.up[LineOf(t, n)[1]] = 0
         /\ \A k \in 1..(Len(LineOf(t, n)) - 1) : t.up[LineOf(t, n)[k + 1]] = LineOf(t, n)[k]
  <1> DEFINE d == page.doc
             L == LineOf(t, n)
             N == Len(d)
  <1>1. /\ d \in HtmlPages /\ TreeOf(t, d) /\ \A m \in Nodes(d) : t.up[m] = 0 => m = 1 \/ m \in page.noise
        /\ Nodes(d) = 1..N /\ 0 \notin Nodes(d)
    BY NoiseFacts DEF CutOff
  <1>2. Forest(t.up, N)
    BY <1>1, TreeIsForest
  <1>3. Descends(L, t.up, n, N)
    BY <1>1, <1>2, LineDescends
  <1> HIDE DEF L, N
  <1>4. /\ L \in Seq(Nodes(d)) /\ Len(L) >= 1 /\ Len(L) \in Nat /\ L[Len(L)] = n /\ t.up[L[1]] = 0
        /\ \A k \in 1..(Len(L) - 1) : t.up[L[k + 1]] = L[k]
    BY <1>1, <1>3, LenProperties DEF Descends
  <1>5. \A k \in 1..Len(L) : L[k] \in Nodes(d)
    BY <1>4, LenProperties
  <1>6. L[1] = 1 \/ L[1] \in page.noise
    <2>1. L[1] \in Nodes(d)
      BY <1>4, <1>5
    <2> QED BY <1>1, <1>4, <2>1
  <1>7. ASSUME NEW k \in 1..(Len(L) - 1) PROVE d[L[k + 1]].up = L[k]
    <2>1. k \in 1..Len(L) /\ k + 1 \in 1..Len(L)
      BY <1>4
    <2>2. L[k] # 0 /\ L[k + 1] \in Nodes(d) /\ t.up[L[k + 1]] = L[k]
      BY <1>1, <1>4, <1>5, <2>1
    <2> QED BY <1>1, <2>2 DEF TreeOf
  <1> QED BY <1>4, <1>6, <1>7 DEF Chain, L

LEMMA StablePath ==
  ASSUME NEW t, CutOff(t), PathsAreStable, NEW n \in Nodes(page.doc)
  PROVE  /\ Len(Path(t, page.doc, n)) = Len(LineOf(t, n)) /\ Len(LineOf(t, n)) \in Nat
         /\ Path(t, page.doc, n) \in [1..Len(LineOf(t, n)) -> {StepOf(m) : m \in Nodes(page.doc)}]
         /\ \A k \in 1..Len(LineOf(t, n)) : Path(t, page.doc, n)[k] = StepOf(LineOf(t, n)[k])
  <1> DEFINE d == page.doc
             L == LineOf(t, n)
             P == Path(t, d, n)
  <1>1. L \in Seq(Nodes(d))
    BY LineChain DEF Chain
  <1>2. P = [i \in DOMAIN L |-> PathStep(t, d, L[i])]
    BY DEF Path
  <1> HIDE DEF L, P
  <1>3. DOMAIN L = 1..Len(L) /\ Len(L) \in Nat /\ \A i \in 1..Len(L) : L[i] \in Nodes(d)
    BY <1>1, LenProperties
  <1>4. \A k \in 1..Len(L) : P[k] = StepOf(L[k])
    <2>1. \A k \in 1..Len(L) : PathStep(t, d, L[k]) = StepOf(L[k])
      BY <1>3, StableSteps
    <2> QED BY <1>2, <1>3, <2>1
  <1>5. P \in [1..Len(L) -> {StepOf(m) : m \in Nodes(d)}]
    <2>1. P = [i \in 1..Len(L) |-> P[i]]
      BY <1>2, <1>3
    <2>2. \A i \in 1..Len(L) : P[i] \in {StepOf(m) : m \in Nodes(d)}
      BY <1>3, <1>4
    <2> QED BY <2>1, <2>2
  <1>6. Len(P) = Len(L)
    <2> DEFINE V == {StepOf(m) : m \in Nodes(d)}
    <2>1. P \in [1..Len(L) -> V]
      BY <1>5
    <2> HIDE DEF V
    <2> QED BY <1>3, <2>1
  <1> QED BY <1>3, <1>4, <1>5, <1>6 DEF L, P

\* A step of a chain names one child of the element before it.
LEMMA SameStep ==
  ASSUME NEW t, CutOff(t), NEW a \in Nodes(page.doc), NEW b \in Nodes(page.doc),
         page.doc[a].up = page.doc[b].up, page.doc[a].up # 0, StepOf(a) = StepOf(b)
  PROVE  a = b
  <1> DEFINE d == page.doc
             o == Parsed(d)
             q == d[a].up
             T == {m \in Children(o, d, q) : d[m].tag = d[a].tag}
  <1>1. d \in HtmlPages
    BY DEF CutOff
  <1>2. TreeOf(o, d) /\ (\A m \in Nodes(d) : o.up[m] = d[m].up) /\ \A p \in Nodes(d) : Ordered(o, d, p)
    BY <1>1, ParsedTree
  <1> HIDE DEF o
  <1>3. /\ PathStep(o, d, a) = <<d[a].tag, Numbered(Alike(o, d, a), a)>>
        /\ PathStep(o, d, b) = <<d[b].tag, Numbered(Alike(o, d, b), b)>>
    BY <1>1, <1>2, StepSays
  <1>4. d[a].tag = d[b].tag /\ Numbered(Alike(o, d, a), a) = Numbered(Alike(o, d, b), b)
    <2>1. PathStep(o, d, a) = PathStep(o, d, b)
      BY DEF StepOf, o
    <2> DEFINE x == Numbered(Alike(o, d, a), a)
               y == Numbered(Alike(o, d, b), b)
    <2>2. <<d[a].tag, x>> = <<d[b].tag, y>>
      BY <1>3, <2>1
    <2> HIDE DEF x, y
    <2>3. d[a].tag = d[b].tag /\ x = y
      BY <2>2
    <2> QED BY <2>3 DEF x, y
  <1>5. Alike(o, d, a) = T /\ Alike(o, d, b) = T
    BY <1>2, <1>4 DEF Alike
  <1>6. a \in T /\ b \in T
    BY <1>2, <1>4 DEF Children
  <1>7. T \in SUBSET Nat /\ IsFiniteSet(T)
    <2>1. Children(o, d, q) \in SUBSET Nat /\ IsFiniteSet(Children(o, d, q))
      BY <1>1, ChildrenFinite
    <2> QED BY <2>1, FS_Subset
  <1> HIDE DEF T
  <1>8. CASE Cardinality(T) = 1
    <2>1. \E x : T = {x}
      BY <1>7, <1>8, FS_Singleton
    <2> QED BY <1>6, <2>1
  <1>9. CASE Cardinality(T) # 1
    <2>1. Rank(T, a) = Rank(T, b)
      BY <1>4, <1>5, <1>9 DEF Numbered
    <2> QED BY <1>6, <1>7, <2>1, SameRank
  <1> QED BY <1>8, <1>9

LEMMA SameChain ==
  ASSUME NEW t, CutOff(t), NEW A, NEW B, Chain(A), Chain(B), A[1] = B[1], NEW i \in 1..Len(A), i <= Len(B),
         \A k \in 1..i : StepOf(A[k]) = StepOf(B[k])
  PROVE  A[i] = B[i]
  <1> DEFINE Bad == {k \in 1..i : A[k] # B[k]}
  <1> SUFFICES ASSUME Bad # {} PROVE FALSE
    OBVIOUS
  <1>0. Len(A) \in Nat /\ Len(B) \in Nat /\ i \in Nat /\ i <= Len(A) /\ i <= Len(B)
    BY LenProperties DEF Chain
  <1>1. PICK k \in Bad : \A j \in Bad : k <= j
    <2>1. Bad \in SUBSET Nat
      OBVIOUS
    <2> HIDE DEF Bad
    <2> QED BY <2>1, LeastExists
  <1>2. k \in 1..i /\ A[k] # B[k] /\ k # 1
    OBVIOUS
  <1> DEFINE j == k - 1
  <1>3. j \in 1..i /\ ~(k <= j) /\ j + 1 = k /\ j \in 1..(Len(A) - 1) /\ j \in 1..(Len(B) - 1)
    BY <1>0, <1>2
  <1>4. A[j] = B[j]
    BY <1>1, <1>3
  <1>5. k \in 1..Len(A) /\ k \in 1..Len(B) /\ j \in 1..Len(A)
    BY <1>0, <1>2, <1>3
  <1>6. A[k] \in Nodes(page.doc) /\ B[k] \in Nodes(page.doc) /\ A[j] \in Nodes(page.doc)
    BY <1>5, LenProperties DEF Chain
  <1> HIDE DEF j
  <1>7. page.doc[A[k]].up = A[j] /\ page.doc[B[k]].up = B[j]
    BY <1>3 DEF Chain
  <1>8. A[j] # 0
    BY <1>6, NoiseFacts
  <1>9. StepOf(A[k]) = StepOf(B[k])
    BY <1>2
  <1> DEFINE a == A[k]
             b == B[k]
  <1>10. /\ a \in Nodes(page.doc) /\ b \in Nodes(page.doc) /\ page.doc[a].up = page.doc[b].up
         /\ page.doc[a].up # 0 /\ StepOf(a) = StepOf(b)
    BY <1>4, <1>6, <1>7, <1>8, <1>9
  <1> HIDE DEF a, b, Bad
  <1>11. a = b
    BY <1>10, SameStep
  <1> QED BY <1>2, <1>11 DEF a, b

\* A chain goes one step deeper at each member.
LEMMA ChainDeepens ==
  ASSUME NEW t, CutOff(t), NEW B, Chain(B), NEW i \in 1..Len(B)
  PROVE  LET o == Parsed(page.doc)
         IN /\ Len(LineOf(o, B[i])) = Len(LineOf(o, B[1])) + i - 1 /\ Len(LineOf(o, B[1])) \in Nat
            /\ i # 1 => B[1] \in Ancestors(o, B[i])
  <1> DEFINE d == page.doc
             o == Parsed(d)
             N == Len(d)
             Good(k) == /\ Len(LineOf(o, B[k])) = Len(LineOf(o, B[1])) + k - 1
                        /\ k # 1 => B[1] \in Ancestors(o, B[k])
             Bad == {k \in 1..Len(B) : ~Good(k)}
  <1>1. d \in HtmlPages /\ Nodes(d) = 1..N /\ 0 \notin Nodes(d)
    BY NoiseFacts DEF CutOff
  <1>2. TreeOf(o, d) /\ \A m \in Nodes(d) : o.up[m] = d[m].up
    BY <1>1, ParsedTree
  <1>3. Forest(o.up, N)
    BY <1>1, <1>2, TreeIsForest
  <1> HIDE DEF o, N
  <1>4. Len(B) \in Nat /\ Len(B) >= 1 /\ \A k \in 1..Len(B) : B[k] \in Nodes(d)
    BY LenProperties DEF Chain
  <1>5. \A m \in Nodes(d) : LineOf(o, m) \in Seq(Nodes(d)) /\ Len(LineOf(o, m)) \in Nat
    <2> SUFFICES ASSUME NEW m \in Nodes(d) PROVE LineOf(o, m) \in Seq(Nodes(d))
      BY LenProperties
    <2> QED BY <1>1, <1>3, LineDescends DEF Descends
  <1>6. Good(1)
    BY <1>4, <1>5
  <1>7. ASSUME NEW k \in 2..Len(B), Good(k - 1) PROVE Good(k)
    <2> DEFINE b == B[k]
               p == B[k - 1]
    <2>1. b \in Nodes(d) /\ p \in Nodes(d) /\ k - 1 \in 1..(Len(B) - 1) /\ B[(k - 1) + 1] = b
      BY <1>4
    <2>2. o.up[b] = p /\ p # 0
      BY <1>1, <1>2, <2>1 DEF Chain
    <2> HIDE DEF b, p
    <2>3. LineOf(o, b) = Append(LineOf(o, p), b)
      BY <1>1, <1>3, <2>1, <2>2, LineSteps
    <2>4. Len(LineOf(o, b)) = Len(LineOf(o, p)) + 1
      <3> DEFINE s == LineOf(o, p)
      <3>1. s \in Seq(Nodes(d))
        BY <1>5, <2>1
      <3> HIDE DEF s
      <3>2. Len(Append(s, b)) = Len(s) + 1
        BY <2>1, <3>1, AppendedList
      <3> QED BY <2>3, <3>2 DEF s
    <2>5. Ancestors(o, b) = {p} \cup Ancestors(o, p)
      BY <1>1, <1>3, <2>1, <2>2, AncestorSteps
    <2>6. B[1] \in Ancestors(o, b)
      <3>1. CASE k - 1 = 1
        BY <2>5, <3>1 DEF p
      <3>2. CASE k - 1 # 1
        BY <1>7, <2>5, <3>2 DEF p
      <3> QED BY <3>1, <3>2
    <2>7. Len(LineOf(o, p)) = Len(LineOf(o, B[1])) + (k - 1) - 1
      BY <1>7 DEF p
    <2>8. Len(LineOf(o, B[1])) \in Nat
      BY <1>4, <1>5
    <2> QED BY <2>4, <2>6, <2>7, <2>8 DEF b
  <1> HIDE DEF Good
  <1>8. Bad = {}
    <2> SUFFICES ASSUME Bad # {} PROVE FALSE
      OBVIOUS
    <2>1. PICK k \in Bad : \A j \in Bad : k <= j
      <3>1. Bad \in SUBSET Nat
        OBVIOUS
      <3> HIDE DEF Bad
      <3> QED BY <3>1, LeastExists
    <2>2. k \in 1..Len(B) /\ ~Good(k)
      OBVIOUS
    <2>3. k # 1
      BY <1>6, <2>2
    <2>4. k \in 2..Len(B) /\ k - 1 \in 1..Len(B) /\ ~(k <= k - 1)
      BY <1>4, <2>2, <2>3
    <2>5. Good(k - 1)
      BY <2>1, <2>4
    <2> QED BY <1>7, <2>2, <2>4, <2>5
  <1>9. Good(i)
    BY <1>8
  <1>10. Len(LineOf(o, B[1])) \in Nat
    BY <1>4, <1>5
  <1> QED BY <1>9, <1>10 DEF Good, o

\* Each path that was taken out is that of a line down to an element that is cut off.
PathsGone(t) ==
  PathsAreStable =>
    \A P \in filter.paths :
      \E B : /\ Chain(B) /\ Len(P) = Len(B) /\ t.up[B[Len(B)]] = 0
             /\ \A k \in 1..Len(B) : P[k] = StepOf(B[k])

LEMMA NothingCovered ==
  ASSUME CutOff(tree), PathsAreStable, PathsGone(tree), NEW n \in Nodes(page.doc) PROVE ~Covered(n)
  <1> SUFFICES ASSUME Covered(n) PROVE FALSE
    OBVIOUS
  <1> DEFINE d == page.doc
             path == Path(tree, d, n)
             L == LineOf(tree, n)
  <1>1. /\ Chain(L) /\ L[Len(L)] = n
        /\ \A k \in 1..(Len(L) - 1) : tree.up[L[k + 1]] = L[k]
    BY LineChain
  <1>2. /\ Len(path) = Len(L) /\ Len(L) \in Nat
        /\ \A k \in 1..Len(L) : path[k] = StepOf(L[k])
    BY StablePath
  <1>3. PICK i \in 3..(Len(path) - 1) : SubSeq(path, 1, i) \in filter.paths
    BY DEF Covered
  <1> DEFINE P == SubSeq(path, 1, i)
  <1>4. Len(P) = i /\ \A k \in 1..i : P[k] = StepOf(L[k])
    <2> DEFINE V == {StepOf(m) : m \in Nodes(d)}
    <2>1. i \in 1..Len(L) /\ i \in Int /\ 1 \in Int
      BY <1>2, <1>3
    <2>2. \A k \in 1..i : path[k] = StepOf(L[k]) /\ L[k] \in Nodes(d)
      <3>1. \A k \in 1..i : k \in 1..Len(L)
        BY <1>2, <2>1
      <3>2. \A k \in 1..Len(L) : L[k] \in Nodes(d)
        BY <1>1, LenProperties DEF Chain
      <3> QED BY <1>2, <3>1, <3>2
    <2>3. \A k \in 1..i : path[k] \in V
      BY <2>2
    <2> HIDE DEF path, V, L
    <2>4. /\ Len(P) = (IF 1 <= i THEN i - 1 + 1 ELSE 0)
          /\ \A k \in 1..(i - 1 + 1) : P[k] = path[1 + k - 1]
      BY <2>1, <2>3, SubSeqProperties
    <2>5. i - 1 + 1 = i /\ \A k \in 1..i : 1 + k - 1 = k
      BY <2>1
    <2>6. Len(P) = i /\ \A k \in 1..i : P[k] = path[k]
      BY <1>3, <2>4, <2>5
    <2> QED BY <2>2, <2>6
  <1>5. PICK B : /\ Chain(B) /\ Len(P) = Len(B) /\ tree.up[B[Len(B)]] = 0
                 /\ \A k \in 1..Len(B) : P[k] = StepOf(B[k])
    BY <1>3 DEF PathsGone
  <1> HIDE DEF P, path, L
  <1>6. Len(B) = i /\ i \in 1..Len(L) /\ i <= Len(B) /\ i - 1 \in 1..(Len(L) - 1) /\ Len(L) - 1 >= 3
    BY <1>2, <1>3, <1>4, <1>5
  <1>7. \A k \in 1..i : StepOf(L[k]) = StepOf(B[k])
    BY <1>4, <1>5, <1>6
  <1>8. L[1] \in Nodes(d) /\ B[1] \in Nodes(d) /\ d \in HtmlPages /\ d[1].tag = "html"
    BY <1>1, <1>5, LenProperties, DocumentFacts DEF Chain, CutOff
  <1>9. d[L[1]].tag = d[B[1]].tag
    <2>1. 1 \in 1..i
      BY <1>6
    <2>2. StepOf(L[1]) = StepOf(B[1])
      BY <1>7, <2>1
    <2>3. StepOf(L[1])[1] = d[L[1]].tag /\ StepOf(B[1])[1] = d[B[1]].tag
      BY DEF StepOf, PathStep
    <2> QED BY <2>2, <2>3
  <1>10. L[1] = B[1]
    <2> SUFFICES ASSUME L[1] # B[1] PROVE FALSE
      OBVIOUS
    <2>1. L[1] \in page.noise /\ B[1] \in page.noise
      <3>1. \A m \in page.noise : d[m].tag # "html"
        BY DEF CutOff
      <3>2. (L[1] = 1 \/ L[1] \in page.noise) /\ (B[1] = 1 \/ B[1] \in page.noise)
        BY <1>1, <1>5 DEF Chain
      <3> QED BY <1>8, <1>9, <3>1, <3>2
    <2>2. ~Deep(L[1])
      BY <1>9, <2>1 DEF PathsAreStable
    <2>3. Deep(L[1])
      <3>1. Len(L) \in 1..Len(L) /\ Len(L) # 1
        BY <1>2, <1>6
      <3>2. /\ Len(LineOf(Parsed(d), L[Len(L)])) = Len(LineOf(Parsed(d), L[1])) + Len(L) - 1
            /\ Len(LineOf(Parsed(d), L[1])) \in Nat /\ L[1] \in Ancestors(Parsed(d), L[Len(L)])
        BY <1>1, <3>1, ChainDeepens
      <3>3. /\ Len(LineOf(Parsed(d), n)) = Len(LineOf(Parsed(d), L[1])) + Len(L) - 1
            /\ L[1] \in Ancestors(Parsed(d), n)
        BY <1>1, <3>2
      <3>4. Len(LineOf(Parsed(d), n)) >= Len(LineOf(Parsed(d), L[1])) + 3
        BY <1>2, <1>6, <3>2, <3>3
      <3> QED BY <3>3, <3>4 DEF Deep
    <2> QED BY <2>2, <2>3
  <1>11. L[i] = B[i]
    BY <1>1, <1>5, <1>6, <1>7, <1>10, SameChain
  <1>12. tree.up[L[i]] = L[i - 1] /\ L[i - 1] # 0
    <2>1. (i - 1) + 1 = i /\ i - 1 \in 1..Len(L)
      BY <1>2, <1>6
    <2>2. L[i - 1] \in Nodes(d)
      BY <1>1, <2>1, LenProperties DEF Chain
    <2> QED BY <1>1, <1>6, <2>1, <2>2, NoiseFacts
  <1> QED BY <1>5, <1>6, <1>11, <1>12

\* Where paths are stable, whatever is still in the tree is still on the list.
AllTaken(t) ==
  PathsAreStable => \A n \in page.noise : t.up[n] # 0 => \E i \in DOMAIN filter.todo : filter.todo[i].node = n

AomShape ==
  /\ page \in [doc : HtmlPages, schema : PageSchemas, noise : {page.noise}]
  /\ filter \in [at : {"collect", "remove", "done"}, todo : {filter.todo}, paths : {filter.paths},
                 saved : {filter.saved}, out : {filter.out}, back : {filter.back}]

Collecting == /\ filter.at = "collect" /\ tree = Parsed(page.doc) /\ page.noise = {}
              /\ filter.paths = {} /\ filter.saved = <<>>
Removing == /\ filter.at = "remove"
            /\ CutOff(tree) /\ MayReturn(tree) /\ Ahead(tree) /\ PathsGone(tree) /\ AllTaken(tree)
Over == /\ filter.at = "done"
        /\ \E t : /\ CutOff(t) /\ MayReturn(t) /\ Rescued(t)
                  /\ PathsAreStable => \A n \in page.noise : t.up[n] = 0
AomInv == AomShape /\ (Collecting \/ Removing \/ Over)

LEMMA AomInvInit == AomInit => AomInv
  <1> SUFFICES ASSUME AomInit PROVE AomInv
    OBVIOUS
  <1>1. PICK d \in HtmlPages, schema \in PageSchemas :
          page = [doc |-> d, schema |-> schema, noise |-> {}] /\ tree = Parsed(d)
    BY DEF AomInit
  <1>2. filter = [at |-> "collect", todo |-> <<>>, paths |-> {}, saved |-> <<>>, out |-> <<>>, back |-> {}]
    BY DEF AomInit
  <1>3. page.doc = d /\ page.noise = {} /\ page \in [doc : HtmlPages, schema : PageSchemas, noise : {page.noise}]
    BY <1>1
  <1>4. /\ filter.at = "collect" /\ filter.paths = {} /\ filter.saved = <<>>
        /\ filter \in [at : {"collect", "remove", "done"}, todo : {filter.todo}, paths : {filter.paths},
                       saved : {filter.saved}, out : {filter.out}, back : {filter.back}]
    BY <1>2
  <1> QED BY <1>1, <1>3, <1>4 DEF AomInv, AomShape, Collecting

LEMMA CollectKeeps == AomInv /\ Collect => AomInv'
  <1> SUFFICES ASSUME AomInv, Collect PROVE AomInv'
    OBVIOUS
  <1> DEFINE d == page.doc
             exempt(n) == d[n].tag \in {"html", "body", "main"} \/ d[d[n].up].tag = "main"
             weighed == [n \in {m \in Nodes(d) : ~exempt(m)} |-> Weight(d, tree, n, page.schema)]
             below == {n \in DOMAIN weighed : weighed[n].weight < Threshold}
             order == InOrder(below)
             todo == [i \in DOMAIN order |-> [node |-> order[i], reason |-> weighed[order[i]].reason]]
  <1>1. AomShape /\ Collecting
    BY DEF AomInv, Collect, Removing, Over
  <1>2. /\ page' = [page EXCEPT !.noise = below] /\ tree' = tree
        /\ filter' = [filter EXCEPT !.at = "remove", !.todo = todo]
    BY Zenon DEF Collect
  <1> HIDE DEF todo
  <1>3. below \in SUBSET Nodes(d) /\ \A n \in below : d[n].tag \notin {"html", "body", "main"}
    OBVIOUS
  <1>4. \A n \in below : weighed[n] = Weight(d, tree, n, page.schema)
    OBVIOUS
  <1> HIDE DEF below, weighed
  <1>5. page'.doc = d /\ page'.schema = page.schema /\ page'.noise = below /\ d \in HtmlPages
    BY <1>1, <1>2 DEF AomShape
  <1>6. /\ filter'.at = "remove" /\ filter'.todo = todo /\ filter'.paths = filter.paths
        /\ filter'.saved = filter.saved
    BY <1>1, <1>2 DEF AomShape
  <1>7. AomShape'
    <2>1. page' \in [doc : HtmlPages, schema : PageSchemas, noise : {page'.noise}]
      BY <1>1, <1>2 DEF AomShape
    <2>2. filter' \in [at : {"collect", "remove", "done"}, todo : {filter'.todo}, paths : {filter'.paths},
                       saved : {filter'.saved}, out : {filter'.out}, back : {filter'.back}]
      BY <1>1, <1>2 DEF AomShape
    <2> QED BY <2>1, <2>2 DEF AomShape
  <1>8. /\ TreeOf(tree, d) /\ (\A m \in Nodes(d) : tree.up[m] = d[m].up)
        /\ \A p \in Nodes(d) : Ordered(tree, d, p)
    BY <1>1, <1>5, ParsedTree DEF Collecting
  <1>9. /\ Nodes(d) = 1..Len(d) /\ Len(d) \in Nat
        /\ \A n \in Nodes(d) : n # 1 => d[n].up # 0
        /\ d[1].tag = "html"
    <2>1. /\ Nodes(d) = 1..Len(d) /\ Len(d) \in Nat /\ d[1].tag = "html"
          /\ \A n \in Nodes(d) : n # 1 => d[n].up \in Nodes(d)
      BY <1>5, DocumentFacts
    <2> QED BY <2>1
  <1>10. CutOff(tree)'
    BY <1>2, <1>3, <1>5, <1>8, <1>9 DEF CutOff
  <1>11. \A n \in below : tree.up[n] # 0
    <2>1. 1 \notin below
      BY <1>3, <1>9
    <2> QED BY <1>3, <1>8, <1>9, <2>1
  <1>12. /\ order \in Seq(below) /\ DOMAIN order = 1..Len(order) /\ Len(order) \in Nat
         /\ \A i \in DOMAIN order : order[i] \in below
         /\ \A i, j \in DOMAIN order : i < j => order[i] < order[j]
         /\ \A x \in below : \E i \in DOMAIN order : order[i] = x
    <2>1. below \in SUBSET Nat /\ IsFiniteSet(below)
      <3> DEFINE N == Len(d)
      <3>1. 1 \in Int /\ N \in Int /\ below \in SUBSET (1..N) /\ below \in SUBSET Nat
        BY <1>3, <1>9
      <3> HIDE DEF N
      <3>2. IsFiniteSet(1..N)
        BY <3>1, FS_Interval
      <3> QED BY <3>1, <3>2, FS_Subset
    <2>2. order \in Seq(below)
      BY <2>1, InOrderLists
    <2> QED BY <2>1, <2>2, InOrderLists, LenProperties
  <1> HIDE DEF order
  <1>13. ASSUME NEW i \in DOMAIN order
         PROVE  todo[i] = [node |-> order[i], reason |-> ReasonOf(d, order[i], page.schema)] /\ todo[i] \in Tasks'
    <2> DEFINE n == order[i]
    <2>1. todo[i] = [node |-> n, reason |-> weighed[n].reason]
      BY DEF todo
    <2>2. n \in below
      BY <1>12
    <2> HIDE DEF n
    <2>3. weighed[n].reason = ReasonOf(d, n, page.schema)
      BY <1>1, <1>4, <2>2, Zenon DEF ReasonOf, Collecting
    <2>4. todo[i] = [node |-> n, reason |-> ReasonOf(d, n, page.schema)]
      BY <2>1, <2>3
    <2>5. todo[i] \in Tasks'
      BY <1>5, <2>2, <2>4 DEF Tasks
    <2> QED BY <2>4, <2>5 DEF n
  <1>14. DOMAIN todo = DOMAIN order /\ todo \in Seq(Tasks')
    <2> DEFINE T == Tasks'
    <2>1. DOMAIN todo = DOMAIN order /\ todo = [i \in DOMAIN order |-> todo[i]]
      BY DEF todo
    <2>2. \A i \in 1..Len(order) : todo[i] \in T
      BY <1>12, <1>13
    <2> HIDE DEF T
    <2>3. todo \in [1..Len(order) -> T]
      BY <1>12, <2>1, <2>2
    <2>4. todo \in Seq(T)
      BY <1>12, <2>3
    <2> QED BY <2>1, <2>4 DEF T
  <1>15. ASSUME NEW i \in DOMAIN order PROVE todo[i].node = order[i]
    <2>1. todo[i] = [node |-> order[i], reason |-> ReasonOf(d, order[i], page.schema)]
      BY <1>13
    <2> QED BY <2>1
  <1>16. Ahead(tree)'
    <2>1. \A i, j \in DOMAIN todo : i < j => todo[i].node < todo[j].node
      BY <1>12, <1>14, <1>15
    <2>2. \A i \in DOMAIN todo, n \in below : tree.up[n] = 0 => n < todo[i].node
      BY <1>11
    <2> QED BY <1>2, <1>5, <1>6, <1>14, <2>1, <2>2 DEF Ahead
  <1>17. MayReturn(tree)'
    <2>1. filter'.saved = <<>>
      BY <1>1, <1>6 DEF Collecting
    <2>2. <<>> \in Seq(SavedEntry') /\ DOMAIN <<>> = {}
      OBVIOUS
    <2> QED BY <2>1, <2>2 DEF MayReturn
  <1>18. PathsGone(tree)'
    <2>1. filter'.paths = {}
      BY <1>1, <1>6 DEF Collecting
    <2> QED BY <2>1 DEF PathsGone
  <1>19. AllTaken(tree)'
    <2>1. \A n \in below : \E i \in DOMAIN todo : todo[i].node = n
      BY <1>12, <1>14, <1>15
    <2> QED BY <1>5, <1>6, <2>1 DEF AllTaken
  <1>20. Removing'
    BY <1>6, <1>10, <1>16, <1>17, <1>18, <1>19 DEF Removing
  <1> QED BY <1>7, <1>20 DEF AomInv

LEMMA TakeOutKeeps == AomInv /\ TakeOut => AomInv'
  <1> SUFFICES ASSUME AomInv, TakeOut PROVE AomInv'
    OBVIOUS
  <1> DEFINE d == page.doc
             task == Head(filter.todo)
             n == task.node
             q == tree.up[n]
             s == [node |-> n, from |-> q, at |-> PlaceOf(n, tree.kids[q])]
             path == Path(tree, d, n)
  <1>1. AomShape /\ Removing /\ filter.todo # <<>> /\ page' = page
    BY DEF AomInv, TakeOut, Collecting, Over
  <1>2. CutOff(tree) /\ MayReturn(tree) /\ Ahead(tree) /\ PathsGone(tree) /\ AllTaken(tree)
    BY <1>1 DEF Removing
  <1>3. /\ filter.todo \in Seq(Tasks) /\ Len(filter.todo) \in Nat /\ Len(filter.todo) >= 1
        /\ DOMAIN filter.todo = 1..Len(filter.todo) /\ task = filter.todo[1] /\ task \in Tasks
        /\ Tail(filter.todo) \in Seq(Tasks) /\ DOMAIN Tail(filter.todo) = 1..(Len(filter.todo) - 1)
        /\ \A i \in 1..(Len(filter.todo) - 1) : Tail(filter.todo)[i] = filter.todo[i + 1]
    <2>1. filter.todo \in Seq(Tasks) /\ filter.todo # <<>>
      BY <1>1, <1>2 DEF Ahead
    <2> QED BY <2>1, HeadTailProperties, LenProperties, EmptySeq
  <1>4. n \in page.noise /\ task = [node |-> n, reason |-> ReasonOf(d, n, page.schema)]
    BY <1>3 DEF Tasks
  <1>5. /\ \A i, j \in 1..Len(filter.todo) : i < j => filter.todo[i].node < filter.todo[j].node
        /\ \A i \in 1..Len(filter.todo), m \in page.noise : tree.up[m] = 0 => m < filter.todo[i].node
    BY <1>2, <1>3 DEF Ahead
  <1>6. n = filter.todo[1].node
    BY <1>3
  <1>7. \A i \in 1..(Len(filter.todo) - 1) : i + 1 \in 1..Len(filter.todo) /\ n < Tail(filter.todo)[i].node
    <2>1. 1 \in 1..Len(filter.todo)
      BY <1>3
    <2>2. \A i \in 1..(Len(filter.todo) - 1) : i + 1 \in 1..Len(filter.todo) /\ 1 < i + 1
      BY <1>3
    <2> QED BY <1>3, <1>5, <1>6, <2>1, <2>2
  <1>8. n \in Nodes(d) /\ n \in Nat /\ Nodes(d) \in SUBSET Nat /\ page.noise \in SUBSET Nodes(d)
    BY <1>2, <1>4, NoiseFacts DEF CutOff
  <1> HIDE DEF n, task
  <1>9. \A i, j \in 1..(Len(filter.todo) - 1) : i < j => Tail(filter.todo)[i].node < Tail(filter.todo)[j].node
    <2>1. \A i, j \in 1..(Len(filter.todo) - 1) : i < j => i + 1 < j + 1
      BY <1>3
    <2> QED BY <1>3, <1>5, <1>7, <2>1
  <1>10. CASE tree.up[n] = 0 \/ Covered(n)
    <2>1. filter' = [filter EXCEPT !.todo = Tail(@)] /\ tree' = tree
      BY <1>10, Zenon DEF TakeOut, n, task
    <2>2. /\ filter'.at = "remove" /\ filter'.todo = Tail(filter.todo) /\ filter'.paths = filter.paths
          /\ filter'.saved = filter.saved
      BY <1>1, <2>1 DEF AomShape, Removing
    <2>3. AomShape'
      <3>1. filter' \in [at : {"collect", "remove", "done"}, todo : {filter'.todo}, paths : {filter'.paths},
                         saved : {filter'.saved}, out : {filter'.out}, back : {filter'.back}]
        BY <1>1, <2>1 DEF AomShape
      <3> QED BY <1>1, <3>1 DEF AomShape
    <2>4. CutOff(tree)'
      BY <1>1, <1>2, <2>1 DEF CutOff
    <2>5. MayReturn(tree)'
      BY <1>1, <1>2, <2>1, <2>2 DEF MayReturn, SavedEntry
    <2>6. Ahead(tree)'
      <3>1. \A i \in 1..(Len(filter.todo) - 1), m \in page.noise : tree.up[m] = 0 => m < Tail(filter.todo)[i].node
        BY <1>3, <1>5, <1>7
      <3> QED BY <1>1, <1>3, <1>9, <2>1, <2>2, <3>1 DEF Ahead, Tasks
    <2>7. PathsGone(tree)'
      BY <1>1, <1>2, <2>1, <2>2 DEF PathsGone, PathsAreStable, Deep, Chain, StepOf
    <2>8. AllTaken(tree)'
      <3>1. ASSUME PathsAreStable, NEW m \in page.noise, tree.up[m] # 0
            PROVE  \E i \in 1..(Len(filter.todo) - 1) : Tail(filter.todo)[i].node = m
        <4>1. tree.up[n] = 0
          BY <1>2, <1>8, <1>10, <3>1, NothingCovered
        <4>2. PICK i \in 1..Len(filter.todo) : filter.todo[i].node = m
          BY <1>2, <1>3, <3>1 DEF AllTaken
        <4>3. i # 1
          BY <1>6, <3>1, <4>1, <4>2
        <4>4. i - 1 \in 1..(Len(filter.todo) - 1) /\ (i - 1) + 1 = i
          BY <1>3, <4>3
        <4> QED BY <1>3, <4>2, <4>4
      <3>2. PathsAreStable' => PathsAreStable
        BY <1>1 DEF PathsAreStable, Deep
      <3> QED BY <1>1, <1>3, <2>1, <2>2, <3>1, <3>2 DEF AllTaken
    <2> QED BY <2>2, <2>3, <2>4, <2>5, <2>6, <2>7, <2>8 DEF AomInv, Removing
  <1>11. CASE ~(tree.up[n] = 0 \/ Covered(n))
    <2> DEFINE r == Without(tree, n)
               back == MayComeBack(task.reason)
    <2>1. /\ tree' = r
          /\ filter' = [filter EXCEPT !.todo = Tail(@), !.paths = @ \cup {path}, !.out = Append(@, task),
                          !.saved = IF back THEN Append(@, s) ELSE @]
      BY <1>11, Zenon DEF TakeOut, Without, Place, n, task
    <2> HIDE DEF back, s, path, r
    <2>2. /\ filter'.at = "remove" /\ filter'.todo = Tail(filter.todo) /\ filter'.paths = filter.paths \cup {path}
          /\ filter'.saved = IF back THEN Append(filter.saved, s) ELSE filter.saved
      BY <1>1, <2>1 DEF AomShape, Removing
    <2>3. AomShape'
      <3>1. filter' \in [at : {"collect", "remove", "done"}, todo : {filter'.todo}, paths : {filter'.paths},
                         saved : {filter'.saved}, out : {filter'.out}, back : {filter'.back}]
        BY <1>1, <2>1 DEF AomShape
      <3> QED BY <1>1, <3>1 DEF AomShape
    <2>4. \A m \in page.noise : tree.up[m] = 0 => m < n
      <3>1. 1 \in 1..Len(filter.todo)
        BY <1>3
      <3> QED BY <1>5, <1>6, <3>1
    <2>5. tree.up[n] # 0
      BY <1>11
    <2>6. /\ CutOff(r) /\ MayReturn(r) /\ \A m \in page.noise : r.up[m] = 0 => m <= n
          /\ SavedOf(s, d, r) /\ s \in SavedEntry
      BY <1>2, <1>4, <2>4, <2>5, CutNext DEF r, s
    <2>7. \A m \in Nodes(d) : r.up[m] = IF m = n THEN 0 ELSE tree.up[m]
      BY <1>2, <1>8, <2>5, WithoutElement DEF CutOff, r
    <2>8. CutOff(tree)'
      BY <1>1, <2>1, <2>6 DEF CutOff
    <2>9. Ahead(tree)'
      <3>1. ASSUME NEW i \in 1..(Len(filter.todo) - 1), NEW m \in page.noise, r.up[m] = 0
            PROVE  m < Tail(filter.todo)[i].node
        <4>1. Tail(filter.todo)[i] \in Tasks
          BY <1>3, <1>7, LenProperties
        <4>2. Tail(filter.todo)[i].node \in Nat
          <5> DEFINE x == Tail(filter.todo)[i]
          <5>1. PICK a \in page.noise : x = [node |-> a, reason |-> ReasonOf(d, a, page.schema)]
            BY <4>1 DEF Tasks
          <5> HIDE DEF x
          <5>2. x.node = a
            BY <5>1
          <5> QED BY <1>8, <5>2 DEF x
        <4>3. m <= n /\ n < Tail(filter.todo)[i].node /\ m \in Nat
          BY <1>7, <1>8, <2>6, <3>1
        <4> QED BY <1>8, <4>2, <4>3
      <3> QED BY <1>1, <1>3, <1>9, <2>1, <2>2, <3>1 DEF Ahead, Tasks
    <2>10. MayReturn(tree)'
      <3>1. CASE ~back
        BY <1>1, <2>1, <2>2, <2>6, <3>1 DEF MayReturn, SavedEntry
      <3>2. CASE back
        <4> DEFINE old == filter.saved
                   new == Append(old, s)
        <4>1. old \in Seq(SavedEntry) /\ s \in SavedEntry
          BY <2>6 DEF MayReturn
        <4>2. /\ new \in Seq(SavedEntry) /\ Len(new) = Len(old) + 1 /\ Len(old) \in Nat
              /\ new[Len(old) + 1] = s /\ \A i \in 1..Len(old) : new[i] = old[i]
          BY <4>1, AppendedList
        <4>3. DOMAIN old = 1..Len(old) /\ DOMAIN new = 1..(Len(old) + 1)
          BY <4>1, <4>2, LenProperties
        <4>4. filter'.saved = new
          BY <2>2, <3>2
        <4> HIDE DEF new, old
        <4>5. s.node = n
          BY DEF s
        <4>6. ReasonOf(d, n, page.schema) = "link-density"
          BY <1>4, <3>2 DEF MayComeBack, back
        <4>7. \A i \in 1..(Len(old) + 1) : i \in 1..Len(old) \/ i = Len(old) + 1
          BY <4>2
        <4>8. \A i \in DOMAIN new : SavedOf(new[i], d, r) /\ ReasonOf(d, new[i].node, page.schema) = "link-density"
          BY <2>6, <4>2, <4>3, <4>5, <4>6, <4>7 DEF MayReturn, old
        <4>9. \A i \in 1..Len(old) : old[i].node # n
          <5>1. \A i \in 1..Len(old) : tree.up[old[i].node] = 0
            BY <1>2, <4>3 DEF MayReturn, SavedOf, old
          <5> QED BY <2>5, <5>1
        <4>10. \A i, j \in 1..Len(old) : old[i].node = old[j].node => i = j
          BY <1>2, <4>3 DEF MayReturn, old
        <4>11. \A i, j \in DOMAIN new : new[i].node = new[j].node => i = j
          BY <4>2, <4>3, <4>5, <4>7, <4>9, <4>10
        <4> QED BY <1>1, <2>1, <4>2, <4>4, <4>8, <4>11 DEF MayReturn, SavedEntry
      <3> QED BY <3>1, <3>2
    <2>11. PathsGone(tree)'
      <3>1. ASSUME PathsAreStable, NEW P \in filter.paths \cup {path}
            PROVE  \E B : /\ Chain(B) /\ Len(P) = Len(B) /\ r.up[B[Len(B)]] = 0
                          /\ \A k \in 1..Len(B) : P[k] = StepOf(B[k])
        <4>1. CASE P = path
          <5> DEFINE B == LineOf(tree, n)
          <5>1. Chain(B) /\ B[Len(B)] = n
            BY <1>2, <1>8, LineChain
          <5>2. Len(path) = Len(B) /\ \A k \in 1..Len(B) : path[k] = StepOf(B[k])
            BY <1>2, <1>8, <3>1, StablePath DEF path
          <5>3. r.up[n] = 0
            BY <1>8, <2>7
          <5> HIDE DEF B
          <5> QED BY <4>1, <5>1, <5>2, <5>3
        <4>2. CASE P \in filter.paths
          <5>1. PICK B : /\ Chain(B) /\ Len(P) = Len(B) /\ tree.up[B[Len(B)]] = 0
                         /\ \A k \in 1..Len(B) : P[k] = StepOf(B[k])
            BY <1>2, <3>1, <4>2 DEF PathsGone
          <5>2. B[Len(B)] \in Nodes(d)
            BY <5>1, LenProperties DEF Chain
          <5>3. r.up[B[Len(B)]] = 0
            BY <2>7, <5>1, <5>2
          <5> QED BY <5>1, <5>3
        <4> QED BY <4>1, <4>2
      <3>2. PathsAreStable' => PathsAreStable
        BY <1>1 DEF PathsAreStable, Deep
      <3>3. \A B : Chain(B) => Chain(B)'
        BY <1>1 DEF Chain
      <3>4. \A m : StepOf(m)' = StepOf(m)
        BY <1>1 DEF StepOf
      <3> QED BY <1>1, <2>1, <2>2, <3>1, <3>2, <3>3, <3>4 DEF PathsGone
    <2>12. AllTaken(tree)'
      <3>1. ASSUME PathsAreStable, NEW m \in page.noise, r.up[m] # 0
            PROVE  \E i \in 1..(Len(filter.todo) - 1) : Tail(filter.todo)[i].node = m
        <4>1. m # n /\ tree.up[m] # 0
          BY <1>8, <2>7, <3>1
        <4>2. PICK i \in 1..Len(filter.todo) : filter.todo[i].node = m
          BY <1>2, <1>3, <3>1, <4>1 DEF AllTaken
        <4>3. i # 1
          BY <1>6, <4>1, <4>2
        <4>4. i - 1 \in 1..(Len(filter.todo) - 1) /\ (i - 1) + 1 = i
          BY <1>3, <4>3
        <4> QED BY <1>3, <4>2, <4>4
      <3>2. PathsAreStable' => PathsAreStable
        BY <1>1 DEF PathsAreStable, Deep
      <3> QED BY <1>1, <1>3, <2>1, <2>2, <3>1, <3>2 DEF AllTaken
    <2> QED BY <2>2, <2>3, <2>8, <2>9, <2>10, <2>11, <2>12 DEF AomInv, Removing
  <1> QED BY <1>10, <1>11

\* The trees after each saved element.
LEMMA RescueFold ==
  ASSUME CutOff(tree), MayReturn(tree)
  PROVE  \E f : LET N == Len(filter.saved)
                IN /\ f[0] = tree /\ f[N] = FoldLeft(PutBack, tree, filter.saved)
                   /\ \A k \in 1..N : f[k] = PutBack(f[k - 1], filter.saved[k])
  <1> DEFINE d == page.doc
             s == filter.saved
             N == Len(s)
             T == Trees(d)
             H == [p \in (1..N) \X T |-> PutBack(p[2], s[p[1]])]
             Is(it) == it = [S \in SUBSET (1..N) |-> IF S = {} THEN tree ELSE PutBack(it[S \ {Max(S)}], s[Max(S)])]
             c == CHOOSE it : Is(it)
  <1>1. N \in Nat /\ DOMAIN s = 1..N /\ tree \in T /\ \A k \in 1..N : s[k] \in SavedEntry /\ SavedOf(s[k], d, tree)
    <2>1. s \in Seq(SavedEntry)
      BY DEF MayReturn
    <2>2. N \in Nat /\ DOMAIN s = 1..N /\ \A k \in 1..N : s[k] \in SavedEntry
      BY <2>1, LenProperties
    <2> HIDE DEF T, N
    <2> QED BY <2>2 DEF CutOff, MayReturn, TreeOf, T
  <1>2. ASSUME NEW k \in 1..N, NEW t \in T PROVE PutBack(t, s[k]) \in T
    <2> DEFINE x == s[k]
               i == IF x.at - 1 < Len(t.kids[x.from]) THEN x.at ELSE Len(t.kids[x.from]) + 1
    <2>1. SavedOf(x, d, tree) /\ x \in SavedEntry
      BY <1>1
    <2> HIDE DEF x
    <2>2. PutBack(t, x) = With(t, x.node, x.from, i) \/ PutBack(t, x) = t
      BY Zenon DEF PutBack, With
    <2>3. d \in HtmlPages /\ x.node \in Nodes(d) /\ x.from \in Nodes(d) /\ x.at \in Nat
      BY <2>1 DEF CutOff, SavedOf, SavedEntry
    <2>4. x.at >= 1
      <3> DEFINE S == Children(tree, d, x.from)
      <3>1. S \in SUBSET Nat /\ IsFiniteSet(S)
        BY <2>3, ChildrenFinite
      <3> HIDE DEF S
      <3>2. Rank(S, x.node) \in 0..Cardinality(S) /\ Cardinality(S) \in Nat
        BY <3>1, RankType, FS_CardinalityType
      <3> QED BY <2>1, <3>2 DEF SavedOf, S
    <2>5. i \in 1..(Len(t.kids[x.from]) + 1)
      <3>1. t.kids[x.from] \in Seq(Nodes(d))
        BY <2>3 DEF Trees
      <3>2. Len(t.kids[x.from]) \in Nat
        BY <3>1, LenProperties
      <3> QED BY <2>3, <2>4, <3>2
    <2> HIDE DEF i
    <2>6. Puts(With(t, x.node, x.from, i), t, d, x.node, x.from, i)
      BY <2>3, <2>5, WithElement
    <2>7. PutBack(t, x) \in T
      BY <2>2, <2>6 DEF Puts
    <2> QED BY <2>7 DEF x
  <1>3. FoldLeft(PutBack, tree, s) = c[1..N]
    BY <1>1, Zenon DEF FoldLeft, MapThenFoldSet
  <1> HIDE DEF s, N, T
  <1>4. \A k \in 1..N, t \in T : H[<<k, t>>] = PutBack(t, s[k])
    OBVIOUS
  <1>5. H \in [(1..N) \X T -> T]
    <2>1. \A p \in (1..N) \X T : PutBack(p[2], s[p[1]]) \in T
      BY <1>2
    <2> QED BY <2>1
  <1> HIDE DEF H
  <1>6. PICK it \in [SUBSET (1..N) -> T] : Folds(it, tree, N, H)
    BY <1>1, <1>5, FoldExists
  <1>7. Is(it)
    <2>1. ASSUME NEW S \in SUBSET (1..N), S # {}
          PROVE  H[<<Max(S), it[S \ {Max(S)}]>>] = PutBack(it[S \ {Max(S)}], s[Max(S)])
      <3>1. Max(S) \in 1..N /\ S \ {Max(S)} \in SUBSET (1..N)
        BY <1>1, <2>1, MaxIsGreatest
      <3>2. it[S \ {Max(S)}] \in T
        BY <3>1
      <3> QED BY <1>4, <3>1, <3>2
    <2> QED BY <1>6, <2>1 DEF Folds
  <1>8. Is(c)
    BY <1>7, Zenon
  <1> HIDE DEF c
  <1>9. c[{}] = tree
    BY <1>8
  <1>10. ASSUME NEW k \in 1..N, c[1..(k - 1)] \in T PROVE c[1..k] = H[<<k, c[1..(k - 1)]>>]
    <2>1. 1..k \in SUBSET (1..N) /\ 1..k # {} /\ Max(1..k) = k /\ (1..k) \ {Max(1..k)} = 1..(k - 1)
      BY <1>1, Beginnings
    <2>2. c[1..k] = PutBack(c[(1..k) \ {Max(1..k)}], s[Max(1..k)])
      BY <1>8, <2>1
    <2>3. c[1..k] = PutBack(c[1..(k - 1)], s[k])
      BY <2>1, <2>2
    <2> QED BY <1>4, <1>10, <2>3
  <1> DEFINE f == Runs(c, N)
  <1>11. f \in [0..N -> T] /\ Goes(f, tree, N, H) /\ f[N] = c[1..N]
    <2>1. Takes(c, T, N, H)
      BY <1>10 DEF Takes
    <2> QED BY <1>1, <1>5, <1>9, <2>1, FoldSteps
  <1> HIDE DEF f
  <1>12. ASSUME NEW k \in 1..N PROVE f[k] = PutBack(f[k - 1], s[k])
    <2>1. k - 1 \in 0..N
      BY <1>1
    <2> QED BY <1>4, <1>11, <2>1 DEF Goes
  <1> QED BY <1>3, <1>11, <1>12 DEF s, N, Goes

LEMMA NothingBackYet ==
  ASSUME NEW t, CutOff(t) PROVE PartlyBack(t, t, page.doc)
  <1> DEFINE d == page.doc
  <1>1. d \in HtmlPages /\ TreeOf(t, d) /\ \A p \in Nodes(d) : Ordered(t, d, p)
    BY DEF CutOff
  <1>2. ASSUME NEW p \in Nodes(d) PROVE ToSet(t.kids[p]) = Children(t, d, p)
    <2> DEFINE S == Children(t, d, p)
               s == InOrder(S)
    <2>1. t.kids[p] = s /\ S \in SUBSET Nat /\ IsFiniteSet(S)
      BY <1>1, ChildrenFinite DEF Ordered
    <2> HIDE DEF S
    <2>2. s \in Seq(S) /\ \A x \in S : \E i \in DOMAIN s : s[i] = x
      BY <2>1, InOrderLists
    <2>3. \A i \in DOMAIN s : s[i] \in S
      BY <2>2, LenProperties
    <2> HIDE DEF s
    <2>4. ToSet(s) = S
      BY <2>2, <2>3 DEF ToSet
    <2> QED BY <2>1, <2>4 DEF S
  <1> QED BY <1>1, <1>2 DEF PartlyBack

LEMMA AllPutBack ==
  ASSUME CutOff(tree), MayReturn(tree)
  PROVE  LET after == FoldLeft(PutBack, tree, filter.saved)
         IN /\ PartlyBack(after, tree, page.doc)
            /\ \A n \in Nodes(page.doc) : tree.up[n] = 0 /\ after.up[n] # 0 => n \in SavedNodes
  <1> DEFINE d == page.doc
             s == filter.saved
             N == Len(s)
             after == FoldLeft(PutBack, tree, s)
  <1>1. PICK f : /\ f[0] = tree /\ f[N] = after
                 /\ \A k \in 1..N : f[k] = PutBack(f[k - 1], s[k])
    BY RescueFold
  <1>2. N \in Nat /\ DOMAIN s = 1..N
    BY LenProperties DEF MayReturn
  <1>3. /\ d \in HtmlPages /\ TreeOf(tree, d) /\ \A k \in 1..N : SavedOf(s[k], d, tree)
        /\ \A i, j \in 1..N : s[i].node = s[j].node => i = j
    BY <1>2 DEF CutOff, MayReturn
  <1> HIDE DEF s, N, after
  <1> DEFINE Good(k) == /\ PartlyBack(f[k], tree, d)
                        /\ \A n \in Nodes(d) : tree.up[n] = 0 /\ f[k].up[n] # 0 => \E j \in 1..k : s[j].node = n
             Bad == {k \in 0..N : ~Good(k)}
  <1>4. Good(0)
    <2>1. PartlyBack(tree, tree, d)
      BY NothingBackYet
    <2> QED BY <1>1, <2>1
  <1>5. ASSUME NEW k \in 1..N, Good(k - 1) PROVE Good(k)
    <2> DEFINE t == f[k - 1]
               x == s[k]
    <2>1. SavedOf(x, d, tree) /\ PartlyBack(t, tree, d) /\ x.node \in Nodes(d) /\ tree.up[x.node] = 0
      BY <1>3, <1>5 DEF SavedOf
    <2>2. t.up[x.node] = 0
      <3> SUFFICES ASSUME t.up[x.node] # 0 PROVE FALSE
        OBVIOUS
      <3>1. PICK j \in 1..(k - 1) : s[j].node = x.node
        BY <1>5, <2>1
      <3>2. j \in 1..N /\ j # k
        BY <1>2
      <3> QED BY <1>3, <3>1, <3>2
    <2>3. f[k] = PutBack(t, x)
      BY <1>1
    <2> HIDE DEF t, x
    <2>4. /\ PartlyBack(PutBack(t, x), tree, d)
          /\ \A m \in Nodes(d) : m # x.node => PutBack(t, x).up[m] = t.up[m]
      BY <1>3, <2>1, <2>2, PutBackKeeps
    <2>5. ASSUME NEW n \in Nodes(d), tree.up[n] = 0, f[k].up[n] # 0 PROVE \E j \in 1..k : s[j].node = n
      <3>1. CASE n = x.node
        BY <3>1 DEF x
      <3>2. CASE n # x.node
        <4>1. t.up[n] # 0
          BY <2>3, <2>4, <2>5, <3>2
        <4>2. PICK j \in 1..(k - 1) : s[j].node = n
          BY <1>5, <2>5, <4>1 DEF t
        <4> QED BY <4>2
      <3> QED BY <3>1, <3>2
    <2> QED BY <2>3, <2>4, <2>5
  <1> HIDE DEF Good
  <1>6. Bad = {}
    <2> SUFFICES ASSUME Bad # {} PROVE FALSE
      OBVIOUS
    <2>1. PICK k \in Bad : \A j \in Bad : k <= j
      <3>1. Bad \in SUBSET Nat
        OBVIOUS
      <3> HIDE DEF Bad
      <3> QED BY <3>1, LeastExists
    <2>2. k \in 0..N /\ ~Good(k) /\ k # 0
      BY <1>4
    <2>3. k \in 1..N /\ k - 1 \in 0..N /\ ~(k <= k - 1)
      BY <1>2, <2>2
    <2>4. Good(k - 1)
      BY <2>1, <2>3
    <2> QED BY <1>5, <2>2, <2>3, <2>4
  <1>7. Good(N)
    <2>1. N \in 0..N
      BY <1>2
    <2> QED BY <1>6, <2>1
  <1>8. ASSUME NEW n \in Nodes(d), tree.up[n] = 0, after.up[n] # 0 PROVE n \in SavedNodes
    <2>1. PICK j \in 1..N : s[j].node = n
      BY <1>1, <1>7, <1>8 DEF Good
    <2>2. s[j] \in ToSet(s)
      BY <1>2 DEF ToSet
    <2> QED BY <2>1, <2>2 DEF SavedNodes, s
  <1> QED BY <1>1, <1>7, <1>8 DEF Good, after, s

LEMMA RescueKeeps == AomInv /\ Rescue => AomInv'
  <1> SUFFICES ASSUME AomInv, Rescue PROVE AomInv'
    OBVIOUS
  <1> DEFINE d == page.doc
             may == TextLen(d, tree, 1) < 100 \/ page.schema = "Product"
             after == IF may THEN FoldLeft(PutBack, tree, filter.saved) ELSE tree
             back == {s.node : s \in ToSet(filter.saved)} \ {n \in Nodes(d) : after.up[n] = 0}
  <1>1. AomShape /\ Removing /\ filter.todo = <<>> /\ page' = page
    BY DEF AomInv, Rescue, Collecting, Over
  <1>2. CutOff(tree) /\ MayReturn(tree) /\ AllTaken(tree)
    BY <1>1 DEF Removing
  <1>3. tree' = after /\ filter' = [filter EXCEPT !.at = "done", !.back = back]
    BY Zenon DEF Rescue
  <1>4. /\ PartlyBack(after, tree, d)
        /\ \A n \in Nodes(d) : tree.up[n] = 0 /\ after.up[n] # 0 => n \in SavedNodes
    <2>1. CASE may
      BY <1>2, <2>1, AllPutBack
    <2>2. CASE ~may
      BY <1>2, <2>2, NothingBackYet
    <2> QED BY <2>1, <2>2
  <1>5. back = SavedNodes \ {n \in Nodes(d) : after.up[n] = 0}
    BY DEF SavedNodes
  <1> HIDE DEF after, back
  <1>6. /\ filter'.at = "done" /\ filter'.saved = filter.saved /\ filter'.back = back
    BY <1>1, <1>3 DEF AomShape
  <1>7. AomShape'
    <2>1. filter' \in [at : {"collect", "remove", "done"}, todo : {filter'.todo}, paths : {filter'.paths},
                       saved : {filter'.saved}, out : {filter'.out}, back : {filter'.back}]
      BY <1>1, <1>3 DEF AomShape
    <2> QED BY <1>1, <2>1 DEF AomShape
  <1>8. SavedNodes' = SavedNodes
    BY <1>6 DEF SavedNodes
  <1>9. \E t : /\ CutOff(t)' /\ MayReturn(t)' /\ Rescued(t)'
               /\ PathsAreStable' => \A n \in page'.noise : t.up[n] = 0
    <2> DEFINE G(t) == /\ CutOff(t)' /\ MayReturn(t)' /\ Rescued(t)'
                       /\ PathsAreStable' => \A n \in page'.noise : t.up[n] = 0
    <2> SUFFICES ASSUME NEW t, t = tree PROVE G(t)
      OBVIOUS
    <2>1. CutOff(t)'
      BY <1>1, <1>2 DEF CutOff
    <2>2. MayReturn(t)'
      BY <1>1, <1>2, <1>6 DEF MayReturn, SavedEntry
    <2>3. Rescued(t)'
      <3>1. PartlyBack(after, t, d)
        BY <1>4
      <3> QED BY <1>1, <1>3, <1>4, <1>5, <1>6, <1>8, <3>1 DEF Rescued
    <2>4. PathsAreStable' => \A n \in page'.noise : t.up[n] = 0
      <3>1. PathsAreStable' => PathsAreStable
        BY <1>1 DEF PathsAreStable, Deep
      <3>2. DOMAIN filter.todo = {}
        BY <1>1
      <3> QED BY <1>1, <1>2, <3>1, <3>2 DEF AllTaken
    <2> QED BY <2>1, <2>2, <2>3, <2>4
  <1>10. Over'
    BY <1>6, <1>9 DEF Over
  <1> QED BY <1>7, <1>10 DEF AomInv

LEMMA AomInvStep == AomInv /\ [AomNext]_fvars => AomInv'
  <1> SUFFICES ASSUME AomInv, [AomNext]_fvars PROVE AomInv'
    OBVIOUS
  <1>1. CASE Collect
    BY <1>1, CollectKeeps
  <1>2. CASE TakeOut
    BY <1>2, TakeOutKeeps
  <1>3. CASE Rescue
    BY <1>3, RescueKeeps
  <1>4. CASE UNCHANGED fvars
    <2>1. page' = page /\ tree' = tree /\ filter' = filter
      BY <1>4 DEF fvars
    <2>2. AomShape' = AomShape
      BY <2>1 DEF AomShape
    <2>3. PathsAreStable' = PathsAreStable
      BY <2>1 DEF PathsAreStable, Deep
    <2>4. \A t : CutOff(t)' = CutOff(t) /\ MayReturn(t)' = MayReturn(t) /\ Rescued(t)' = Rescued(t)
      BY <2>1 DEF CutOff, MayReturn, SavedEntry, Rescued, SavedNodes
    <2>5. CutOff(tree)' = CutOff(tree) /\ MayReturn(tree)' = MayReturn(tree) /\ Ahead(tree)' = Ahead(tree)
      BY <2>1 DEF CutOff, MayReturn, SavedEntry, Ahead, Tasks
    <2>6. PathsGone(tree)' = PathsGone(tree)
      <3>1. \A B : Chain(B)' = Chain(B)
        BY <2>1 DEF Chain
      <3>2. \A m : StepOf(m)' = StepOf(m)
        BY <2>1 DEF StepOf
      <3> QED BY <2>1, <2>3, <3>1, <3>2 DEF PathsGone
    <2>7. AllTaken(tree)' = AllTaken(tree)
      BY <2>1, <2>3 DEF AllTaken
    <2>8. Collecting' = Collecting
      BY <2>1 DEF Collecting
    <2>9. Removing' = Removing
      BY <2>1, <2>5, <2>6, <2>7 DEF Removing
    <2>10. Over' = Over
      BY <2>1, <2>3, <2>4 DEF Over
    <2> QED BY <2>2, <2>8, <2>9, <2>10 DEF AomInv
  <1> QED BY <1>1, <1>2, <1>3, <1>4 DEF AomNext

LEMMA AomInvariant == AomSpec => []AomInv
  <1>1. AomInit => AomInv
    BY AomInvInit
  <1>2. AomInv /\ [AomNext]_fvars => AomInv'
    BY AomInvStep
  <1> QED BY <1>1, <1>2, PTL DEF AomSpec

-----------------------------------------------------------------------------
(***************************************************************************)
(* AomFilter: what is gone, what is left, and the order of what came back.    *)
(***************************************************************************)
LEMMA Ancestry ==
  ASSUME NEW d \in HtmlPages, NEW t, TreeOf(t, d), NEW m \in Nodes(d)
  PROVE  LET o == Parsed(d)
         IN /\ \E r \in Nodes(d) : /\ t.up[r] = 0 /\ r \in {m} \cup Ancestors(t, m)
                                   /\ r \in {m} \cup Ancestors(o, m)
            /\ m = 1 \/ 1 \in Ancestors(t, m) => \A x \in {m} \cup Ancestors(o, m) : x = 1 \/ t.up[x] # 0
  <1> DEFINE o == Parsed(d)
             N == Len(d)
             Good(n) == /\ \E r \in Nodes(d) : /\ t.up[r] = 0 /\ r \in {n} \cup Ancestors(t, n)
                                               /\ r \in {n} \cup Ancestors(o, n)
                        /\ n = 1 \/ 1 \in Ancestors(t, n) => \A x \in {n} \cup Ancestors(o, n) : x = 1 \/ t.up[x] # 0
             Bad == {n \in Nodes(d) : ~Good(n)}
  <1>1. Nodes(d) = 1..N /\ N \in Nat /\ d[1].up = 0
    BY DocumentFacts
  <1>2. TreeOf(o, d) /\ \A n \in Nodes(d) : o.up[n] = d[n].up
    BY ParsedTree
  <1>3. Forest(o.up, N) /\ Forest(t.up, N)
    BY <1>2, TreeIsForest
  <1> HIDE DEF o, N
  <1>4. ASSUME NEW n \in Nodes(d), \A i \in Nodes(d) : i < n => Good(i) PROVE Good(n)
    <2>1. t.up[n] \in {0, d[n].up} /\ o.up[n] = d[n].up
      BY <1>2 DEF TreeOf
    <2>2. /\ Ancestors(t, n) = IF t.up[n] = 0 THEN {} ELSE {t.up[n]} \cup Ancestors(t, t.up[n])
          /\ Ancestors(o, n) = IF o.up[n] = 0 THEN {} ELSE {o.up[n]} \cup Ancestors(o, o.up[n])
      BY <1>1, <1>3, AncestorSteps
    <2>3. CASE t.up[n] = 0
      <3>1. Ancestors(t, n) = {}
        BY <2>2, <2>3
      <3>2. n = 1 => Ancestors(o, n) = {}
        BY <1>1, <2>1, <2>2
      <3> QED BY <2>3, <3>1, <3>2
    <2>4. CASE t.up[n] # 0
      <3> DEFINE p == t.up[n]
      <3>1. p \in Nodes(d) /\ p < n /\ o.up[n] = p
        <4>1. t.up[n] < n /\ t.up[n] \in 0..N
          BY <1>1, <1>3 DEF Forest
        <4> QED BY <1>1, <2>1, <2>4, <4>1
      <3> HIDE DEF p
      <3>2. Good(p)
        BY <1>4, <3>1
      <3>3. Ancestors(t, n) = {p} \cup Ancestors(t, p) /\ Ancestors(o, n) = {p} \cup Ancestors(o, p)
        BY <2>2, <2>4, <3>1 DEF p
      <3>4. PICK r \in Nodes(d) : t.up[r] = 0 /\ r \in {p} \cup Ancestors(t, p) /\ r \in {p} \cup Ancestors(o, p)
        BY <3>2
      <3>5. \E x \in Nodes(d) : t.up[x] = 0 /\ x \in {n} \cup Ancestors(t, n) /\ x \in {n} \cup Ancestors(o, n)
        BY <3>3, <3>4
      <3>6. n # 1
        BY <1>1, <2>1, <2>4
      <3>7. ASSUME 1 \in Ancestors(t, n), NEW x \in {n} \cup Ancestors(o, n) PROVE x = 1 \/ t.up[x] # 0
        <4>1. p = 1 \/ 1 \in Ancestors(t, p)
          BY <3>3, <3>7
        <4>2. \A y \in {p} \cup Ancestors(o, p) : y = 1 \/ t.up[y] # 0
          BY <3>2, <4>1
        <4> QED BY <2>4, <3>3, <3>7, <4>2
      <3> QED BY <3>5, <3>6, <3>7
    <2> QED BY <2>3, <2>4
  <1> HIDE DEF Good
  <1>5. Bad = {}
    <2> SUFFICES ASSUME Bad # {} PROVE FALSE
      OBVIOUS
    <2>1. PICK n \in Bad : \A j \in Bad : n <= j
      <3>1. Bad \in SUBSET Nat
        BY <1>1
      <3> HIDE DEF Bad
      <3> QED BY <3>1, LeastExists
    <2>2. n \in Nodes(d) /\ ~Good(n)
      OBVIOUS
    <2>3. ASSUME NEW i \in Nodes(d), i < n PROVE Good(i)
      <3>1. ~(n <= i)
        BY <1>1, <2>2, <2>3
      <3> QED BY <2>1, <3>1
    <2> QED BY <1>4, <2>2, <2>3
  <1>6. Good(m)
    BY <1>5
  <1> QED BY <1>6 DEF Good, o

LEMMA GoneIsNoise == AomInv => NoiseOnlyIsGone
  <1> DEFINE d == page.doc
             o == Parsed(d)
             noisy == {n \in Nodes(d) : ({n} \cup Ancestors(o, n)) \cap (page.noise \ filter.back) # {}}
  <1> SUFFICES ASSUME AomInv, filter.at = "done"
               PROVE  /\ \A n \in filter.back : Weight(d, o, n, page.schema).reason = "link-density"
                      /\ Nodes(d) \ Attached(tree) \subseteq noisy
                      /\ PathsAreStable => Attached(tree) \cap noisy = {}
    BY DEF NoiseOnlyIsGone
  <1>1. PICK t : /\ CutOff(t) /\ MayReturn(t) /\ Rescued(t)
                 /\ PathsAreStable => \A n \in page.noise : t.up[n] = 0
    BY DEF AomInv, Collecting, Removing, Over
  <1>2. /\ d \in HtmlPages /\ page.noise \in SUBSET Nodes(d) /\ 1 \notin page.noise /\ 1 \in Nodes(d)
        /\ \A n \in Nodes(d) : t.up[n] = 0 => n = 1 \/ n \in page.noise
    BY <1>1, NoiseFacts DEF CutOff
  <1>3. /\ TreeOf(tree, d) /\ \A n \in Nodes(d) : t.up[n] # 0 => tree.up[n] = t.up[n]
        /\ \A n \in Nodes(d) : t.up[n] = 0 /\ tree.up[n] # 0 => n \in SavedNodes
        /\ filter.back = SavedNodes \ {n \in Nodes(d) : tree.up[n] = 0}
    BY <1>1 DEF Rescued, PartlyBack
  <1>4. DOMAIN tree.up = Nodes(d)
    BY <1>3 DEF TreeOf, Trees
  <1>5. ASSUME NEW n \in filter.back PROVE Weight(d, o, n, page.schema).reason = "link-density"
    <2>1. n \in SavedNodes
      BY <1>3
    <2>2. PICK i \in DOMAIN filter.saved : filter.saved[i].node = n
      BY <2>1 DEF SavedNodes, ToSet
    <2> QED BY <1>1, <2>2 DEF MayReturn, ReasonOf
  <1> HIDE DEF o
  <1>6. ASSUME NEW m \in Nodes(d), m \notin Attached(tree) PROVE m \in noisy
    <2>1. m # 1 /\ 1 \notin Ancestors(tree, m)
      BY <1>4, <1>6 DEF Attached
    <2>2. PICK r \in Nodes(d) : tree.up[r] = 0 /\ r \in {m} \cup Ancestors(tree, m) /\ r \in {m} \cup Ancestors(o, m)
      BY <1>2, <1>3, Ancestry DEF o
    <2>3. r # 1
      BY <2>1, <2>2
    <2>4. r \in page.noise /\ r \notin filter.back
      BY <1>2, <1>3, <2>2, <2>3
    <2> QED BY <2>2, <2>4
  <1>7. ASSUME PathsAreStable, NEW m \in Attached(tree) PROVE m \notin noisy
    <2> SUFFICES ASSUME NEW x \in {m} \cup Ancestors(o, m), x \in page.noise, x \notin filter.back PROVE FALSE
      OBVIOUS
    <2>1. m \in Nodes(d) /\ (m = 1 \/ 1 \in Ancestors(tree, m))
      BY <1>4, <1>7 DEF Attached
    <2>2. x = 1 \/ tree.up[x] # 0
      BY <1>2, <1>3, <2>1, Ancestry DEF o
    <2>3. x \in Nodes(d) /\ tree.up[x] # 0 /\ t.up[x] = 0
      BY <1>1, <1>2, <1>7, <2>2
    <2> QED BY <1>3, <2>3
  <1> QED BY <1>5, <1>6, <1>7 DEF o

LEMMA BackInOrder == AomInv => RescueKeepsOrder
  <1> DEFINE d == page.doc
  <1> SUFFICES ASSUME AomInv, filter.at = "done", NEW p \in Nodes(d),
                      Cardinality(ToSet(tree.kids[p]) \cap filter.back) <= 1
               PROVE  \A i, j \in DOMAIN tree.kids[p] : i < j => tree.kids[p][i] < tree.kids[p][j]
    BY DEF RescueKeepsOrder
  <1>1. PICK t : CutOff(t) /\ MayReturn(t) /\ Rescued(t)
    BY DEF AomInv, Collecting, Removing, Over
  <1>2. d \in HtmlPages /\ 0 \notin Nodes(d)
    BY <1>1, NoiseFacts DEF CutOff
  <1>3. /\ ToSet(tree.kids[p]) = Children(tree, d, p)
        /\ (\A a, b \in Children(tree, d, p) : t.up[a] = 0 /\ t.up[b] = 0 => a = b) => Ordered(tree, d, p)
        /\ \A n \in Nodes(d) : t.up[n] = 0 /\ tree.up[n] # 0 => n \in SavedNodes
        /\ filter.back = SavedNodes \ {n \in Nodes(d) : tree.up[n] = 0}
    BY <1>1 DEF Rescued, PartlyBack
  <1> DEFINE S == Children(tree, d, p)
             X == S \cap filter.back
  <1>4. S \in SUBSET Nat /\ IsFiniteSet(S) /\ IsFiniteSet(X) /\ Cardinality(X) <= 1
    <2>1. S \in SUBSET Nat /\ IsFiniteSet(S)
      BY <1>2, ChildrenFinite
    <2>2. IsFiniteSet(X)
      BY <2>1, FS_Subset
    <2> QED BY <1>3, <2>1, <2>2
  <1>5. ASSUME NEW a \in S, NEW b \in S, t.up[a] = 0, t.up[b] = 0 PROVE a = b
    <2>1. a \in X /\ b \in X
      BY <1>2, <1>3, <1>5 DEF Children
    <2> SUFFICES ASSUME a # b PROVE FALSE
      OBVIOUS
    <2> HIDE DEF X, S
    <2>2. IsFiniteSet({a}) /\ Cardinality({a}) = 1
      BY FS_Singleton
    <2>3. IsFiniteSet({a} \cup {b}) /\ Cardinality({a} \cup {b}) = 2
      <3> DEFINE A == {a}
      <3>1. b \notin A /\ IsFiniteSet(A) /\ Cardinality(A) = 1
        BY <2>2
      <3> HIDE DEF A
      <3>2. IsFiniteSet(A \cup {b}) /\ Cardinality(A \cup {b}) = 1 + 1
        BY <3>1, FS_AddElement
      <3> QED BY <3>2 DEF A
    <2>4. {a} \cup {b} \in SUBSET X
      BY <2>1
    <2>5. Cardinality({a} \cup {b}) <= Cardinality(X) /\ Cardinality(X) \in Nat
      BY <1>4, <2>4, FS_Subset, FS_CardinalityType
    <2> QED BY <1>4, <2>3, <2>5
  <1>6. tree.kids[p] = InOrder(S)
    BY <1>3, <1>5 DEF Ordered
  <1> HIDE DEF S
  <1> QED BY <1>4, <1>6, InOrderLists

\* The AOM filter takes out noise and what is under it and, where paths are stable, leaves
\* neither; only link lists come back.
THEOREM OnlyNoiseIsGone == AomSpec => []NoiseOnlyIsGone
  <1>1. AomSpec => []AomInv
    BY AomInvariant
  <1>2. AomInv => NoiseOnlyIsGone
    BY GoneIsNoise
  <1> QED BY <1>1, <1>2, PTL

\* An element put back alone under its parent stands where it stood among its siblings.
THEOREM RescuedStayInOrder == AomSpec => []RescueKeepsOrder
  <1>1. AomSpec => []AomInv
    BY AomInvariant
  <1>2. AomInv => RescueKeepsOrder
    BY BackInOrder
  <1> QED BY <1>1, <1>2, PTL

-----------------------------------------------------------------------------
(***************************************************************************)
(* PrunedContext: lines and what the compressors make of them.               *)
(***************************************************************************)
LEMMA PickedType ==
  ASSUME NEW S, NEW s \in Seq(S), NEW P \in SUBSET (DOMAIN s)
  PROVE  Picked(s, P) \in Seq(S)
  <1>1. DOMAIN s = 1..Len(s) /\ Len(s) \in Nat /\ \A i \in DOMAIN s : s[i] \in S
    OBVIOUS
  <1>2. P \in SUBSET Nat /\ IsFiniteSet(P)
    <2>1. IsFiniteSet(1..Len(s))
      <3> DEFINE n == Len(s)
      <3>1. 1 \in Int /\ n \in Int
        BY <1>1
      <3> HIDE DEF n
      <3> QED BY <3>1, FS_Interval DEF n
    <2> QED BY <1>1, <2>1, FS_Subset
  <1> DEFINE o == InOrder(P)
             r == [k \in DOMAIN o |-> s[o[k]]]
  <1>3. o \in Seq(P) /\ DOMAIN o = 1..Len(o) /\ Len(o) \in Nat
    <2>1. o \in Seq(P)
      BY <1>2, InOrderLists
    <2> HIDE DEF o
    <2> QED BY <2>1
  <1> HIDE DEF o
  <1>4. \A k \in 1..Len(o) : s[o[k]] \in S
    BY <1>1, <1>3
  <1>5. r \in Seq(S)
    BY <1>3, <1>4
  <1> QED BY <1>5 DEF Picked, o

LEMMA FirstType ==
  ASSUME NEW S, NEW s \in Seq(S), NEW n \in Nat
  PROVE  /\ First(s, n) \in Seq(S) /\ Len(First(s, n)) = IF Len(s) < n THEN Len(s) ELSE n
         /\ \A i \in 1..Len(First(s, n)) : First(s, n)[i] = s[i]
  BY DEF First

Piece(l, m) == [l EXCEPT !.tok = m, !.len = 1]
LEMMA PieceType ==
  ASSUME NEW l \in Line, NEW m \in Nat \ {0}
  PROVE  Piece(l, m) \in Line /\ Piece(l, m).tok = m
  <1> DEFINE n == 1
  <1>1. n \in Nat \ {0}
    OBVIOUS
  <1> HIDE DEF n
  <1>2. [l EXCEPT !.tok = m, !.len = n] \in Line /\ [l EXCEPT !.tok = m, !.len = n].tok = m
    BY <1>1 DEF Line
  <1> QED BY <1>2 DEF Piece, n

LEMMA CutType ==
  ASSUME NEW l \in Line, NEW n \in Nat, n > 0
  PROVE  Cut(l, n) \in Line
  <1>1. l.len \in Nat \ {0} /\ l.tok \in Nat \ {0}
    BY DEF Line
  <1>2. CASE l.len <= n
    BY <1>2 DEF Cut
  <1>3. CASE ~(l.len <= n)
    <2>1. 1 + ((l.tok * n) \div l.len) \in Nat \ {0}
      <3>1. l.tok * n \in Nat
        BY <1>1
      <3> DEFINE a == l.tok * n
                 b == l.len
      <3> HIDE DEF a
      <3>2. a \div b \in Nat
        BY <1>1, <3>1 DEF a
      <3> QED BY <3>2 DEF a
    <2> DEFINE m == 1 + ((l.tok * n) \div l.len)
    <2> HIDE DEF m
    <2>2. n \in Nat \ {0} /\ m \in Nat \ {0} /\ Cut(l, n) = [l EXCEPT !.len = n, !.tok = m]
      BY <1>3, <2>1 DEF Cut, m
    <2> QED BY <2>2 DEF Line
  <1> QED BY <1>2, <1>3

LEMMA CutAllType ==
  ASSUME NEW s \in Seq(Line), NEW n \in Nat, n > 0
  PROVE  CutAll(s, n) \in Seq(Line)
  <1>1. \A i \in 1..Len(s) : Cut(s[i], n) \in Line
    BY CutType
  <1> QED BY <1>1 DEF CutAll

LEMMA MadeType == ASSUME NEW n \in Nat, n > 0 PROVE Made(n) \in Line
  <1>1. 5 * n \in Nat \ {0}
    OBVIOUS
  <1> QED BY <1>1 DEF Made, Line

LEMMA TokensType ==
  ASSUME NEW s \in Seq(Line)
  PROVE  /\ Tokens(s) \in Nat /\ Chars(s) \in Nat
         /\ s # <<>> => Tokens(s) > 0
  <1> DEFINE t == [i \in DOMAIN s |-> s[i].tok]
             c == [i \in DOMAIN s |-> Cost(s[i])]
  <1>1. DOMAIN s = 1..Len(s) /\ Len(s) \in Nat /\ \A i \in DOMAIN s : s[i] \in Line
    OBVIOUS
  <1>2. t \in Seq(Nat) /\ Len(t) = Len(s) /\ \A i \in 1..Len(s) : t[i] = s[i].tok /\ t[i] > 0
    BY <1>1 DEF Line
  <1>3. c \in Seq(Nat)
    BY <1>1 DEF Line, Cost
  <1> HIDE DEF t, c
  <1>4. Tokens(s) = SumOf(t) /\ Chars(s) = SumOf(c)
    BY DEF Tokens, Chars, t, c
  <1>5. ASSUME s # <<>> PROVE SumOf(t) > 0
    <2>1. Len(s) \in 1..Len(s)
      BY <1>1, <1>5
    <2>2. PICK f \in [0..Len(t) -> Nat] :
             f[0] = 0 /\ f[Len(t)] = SumOf(t) /\ \A k \in 1..Len(t) : f[k] = f[k - 1] + t[k]
      BY <1>2, SumSteps
    <2>3. f[Len(s)] = f[Len(s) - 1] + t[Len(s)] /\ t[Len(s)] > 0 /\ t[Len(s)] \in Nat
      BY <1>2, <2>1, <2>2
    <2>4. f[Len(s) - 1] \in Nat
      <3>1. Len(s) - 1 \in 0..Len(t)
        BY <1>1, <1>2, <2>1
      <3> QED BY <2>2, <3>1
    <2> QED BY <1>2, <2>2, <2>3, <2>4
  <1> QED BY <1>2, <1>3, <1>4, <1>5, SumType

LEMMA SumAppend ==
  ASSUME NEW s \in Seq(Nat), NEW x \in Nat
  PROVE  SumOf(Append(s, x)) = SumOf(s) + x
  <1> DEFINE t == Append(s, x)
             n == Len(s)
  <1>1. n \in Nat /\ t \in Seq(Nat) /\ Len(t) = n + 1 /\ t[n + 1] = x /\ \A i \in 1..n : t[i] = s[i] /\ s[i] \in Nat
    OBVIOUS
  <1> HIDE DEF t
  <1>2. PICK f \in [0..n -> Nat] : f[0] = 0 /\ f[n] = SumOf(s) /\ \A k \in 1..n : f[k] = f[k - 1] + s[k]
    BY SumSteps
  <1> HIDE DEF n
  <1>3. PICK g \in [0..(n + 1) -> Nat] :
          g[0] = 0 /\ g[n + 1] = SumOf(t) /\ \A k \in 1..(n + 1) : g[k] = g[k - 1] + t[k]
    <2>1. \E g \in [0..Len(t) -> Nat] :
             g[0] = 0 /\ g[Len(t)] = SumOf(t) /\ \A k \in 1..Len(t) : g[k] = g[k - 1] + t[k]
      BY <1>1, SumSteps
    <2> QED BY <1>1, <2>1
  <1> DEFINE Bad == {k \in 0..n : g[k] # f[k]}
  <1>4. Bad = {}
    <2> SUFFICES ASSUME Bad # {} PROVE FALSE
      OBVIOUS
    <2>1. PICK m \in Bad : \A k \in Bad : m <= k
      <3>1. Bad \in SUBSET Nat
        BY <1>1
      <3> QED BY <3>1, LeastExists
    <2>2. m \in 0..n /\ g[m] # f[m]
      OBVIOUS
    <2>3. m \in 1..n /\ m - 1 \in 0..n /\ m - 1 \notin Bad /\ m \in 1..(n + 1)
      BY <1>1, <1>2, <1>3, <2>1, <2>2
    <2>4. g[m - 1] = f[m - 1]
      BY <2>3
    <2> QED BY <1>1, <1>2, <1>3, <2>2, <2>3, <2>4
  <1>5. g[n] = f[n] /\ n + 1 \in 1..(n + 1) /\ (n + 1) - 1 = n
    <2>1. n \in 0..n /\ n + 1 \in 1..(n + 1) /\ (n + 1) - 1 = n
      BY <1>1
    <2>2. n \notin Bad
      BY <1>4
    <2> QED BY <2>1, <2>2
  <1>6. g[n + 1] = g[n] + t[n + 1]
    BY <1>3, <1>5
  <1> QED BY <1>1, <1>2, <1>3, <1>5, <1>6 DEF t

LEMMA NoTokens == Tokens(<<>>) = 0 /\ Chars(<<>>) = 0
  <1>1. PICK f \in [0..Len(<<>>) -> Nat] :
          f[0] = 0 /\ f[Len(<<>>)] = SumOf(<<>>) /\ \A k \in 1..Len(<<>>) : f[k] = f[k - 1] + <<>>[k]
    <2>1. <<>> \in Seq(Nat)
      OBVIOUS
    <2> QED BY <2>1, SumSteps
  <1>2. SumOf(<<>>) = 0
    BY <1>1
  <1>3. [i \in DOMAIN <<>> |-> <<>>[i].tok] = <<>> /\ [i \in DOMAIN <<>> |-> Cost(<<>>[i])] = <<>>
    OBVIOUS
  <1> QED BY <1>2, <1>3 DEF Tokens, Chars

LEMMA TokensAppend ==
  ASSUME NEW s \in Seq(Line), NEW l \in Line
  PROVE  Tokens(Append(s, l)) = Tokens(s) + l.tok
  <1> DEFINE t == [i \in DOMAIN s |-> s[i].tok]
             r == Append(s, l)
             u == [i \in DOMAIN r |-> r[i].tok]
  <1>1. /\ DOMAIN s = 1..Len(s) /\ Len(s) \in Nat /\ \A i \in DOMAIN s : s[i] \in Line
        /\ DOMAIN r = 1..(Len(s) + 1) /\ r[Len(s) + 1] = l /\ \A i \in DOMAIN s : r[i] = s[i]
    OBVIOUS
  <1> HIDE DEF r
  <1>2. l.tok \in Nat /\ t \in Seq(Nat) /\ Len(t) = Len(s)
    BY <1>1 DEF Line
  <1>3. u = Append(t, l.tok)
    <2>1. Append(t, l.tok) = [i \in 1..(Len(s) + 1) |-> IF i = Len(s) + 1 THEN l.tok ELSE t[i]]
      BY <1>2
    <2>2. \A i \in 1..(Len(s) + 1) : r[i].tok = IF i = Len(s) + 1 THEN l.tok ELSE t[i]
      BY <1>1
    <2> QED BY <1>1, <2>1, <2>2
  <1> HIDE DEF t, u
  <1>4. SumOf(u) = SumOf(t) + l.tok
    BY <1>2, <1>3, SumAppend
  <1> QED BY <1>4 DEF Tokens, t, u, r

LEMMA FirstSteps ==
  ASSUME NEW s \in Seq(Line), NEW n \in 0..(Len(s) - 1)
  PROVE  First(s, n + 1) = Append(First(s, n), s[n + 1])
  BY DEF First

\* What fits in a text: up to the first line that does not, whatever is left of it.
LEMMA TruncatedFits ==
  ASSUME NEW s \in Seq(Line)
  PROVE  /\ Truncated(s) \in Seq(Line) /\ Tokens(Truncated(s)) <= MaxTokens
         /\ Truncated(s) = s \/ Tokens(Truncated(s)) = MaxTokens
  <1> DEFINE T(k) == Tokens(First(s, k))
             Fit(k) == T(k) <= MaxTokens /\ (k = Len(s) \/ T(k + 1) > MaxTokens)
             n == CHOOSE k \in 0..Len(s) : Fit(k)
  <1>1. MaxTokens \in Nat \ {0} /\ Len(s) \in Nat
    BY ContextAssumption
  <1>2. \A k \in 0..Len(s) : First(s, k) \in Seq(Line) /\ T(k) \in Nat
    BY FirstType, TokensType
  <1>3. T(0) = 0
    <2>1. First(s, 0) = <<>>
      BY DEF First
    <2> QED BY <2>1, NoTokens
  <1>4. First(s, Len(s)) = s
    BY DEF First
  <1> HIDE DEF T
  <1>5. \E k \in 0..Len(s) : Fit(k)
    <2> DEFINE Past == {k \in 0..Len(s) : T(k) > MaxTokens}
    <2>1. CASE Past = {}
      <3>1. Len(s) \in 0..Len(s) /\ Len(s) \notin Past
        BY <1>1, <2>1
      <3> QED BY <1>1, <1>2, <3>1
    <2>2. CASE Past # {}
      <3>1. PICK m \in Past : \A k \in Past : m <= k
        <4>1. Past \in SUBSET Nat
          BY <1>1
        <4> QED BY <2>2, <4>1, LeastExists
      <3>2. m \in 0..Len(s) /\ T(m) > MaxTokens /\ m # 0
        BY <1>1, <1>3
      <3>3. m - 1 \in 0..Len(s) /\ m - 1 \notin Past /\ (m - 1) + 1 = m
        BY <1>1, <3>1, <3>2
      <3>4. T(m - 1) <= MaxTokens /\ T((m - 1) + 1) > MaxTokens
        BY <1>1, <1>2, <3>2, <3>3
      <3> QED BY <3>3, <3>4
    <2> QED BY <2>1, <2>2
  <1>6. n \in 0..Len(s) /\ Fit(n)
    BY <1>5
  <1> HIDE DEF n
  <1> DEFINE left == MaxTokens - T(n)
             part == Piece(s[n + 1], left)
  <1>7. Truncated(s) = IF n = Len(s) THEN s ELSE IF left = 0 THEN First(s, n) ELSE Append(First(s, n), part)
    BY DEF Truncated, n, T, Piece
  <1>8. CASE n = Len(s)
    BY <1>4, <1>6, <1>7, <1>8 DEF T
  <1>9. CASE n # Len(s) /\ left = 0
    <2>1. T(n) \in Nat /\ First(s, n) \in Seq(Line)
      BY <1>2, <1>6
    <2>2. T(n) = MaxTokens
      BY <1>1, <1>9, <2>1
    <2>3. Truncated(s) = First(s, n)
      BY <1>7, <1>9
    <2> QED BY <1>1, <2>1, <2>2, <2>3 DEF T
  <1>10. CASE n # Len(s) /\ left # 0
    <2>1. left \in Nat \ {0} /\ n + 1 \in 1..Len(s)
      BY <1>1, <1>2, <1>6, <1>10
    <2>2. s[n + 1] \in Line
      BY <2>1
    <2> HIDE DEF left
    <2>3. part \in Line /\ part.tok = left
      BY <2>1, <2>2, PieceType
    <2> HIDE DEF part
    <2>4. First(s, n) \in Seq(Line) /\ T(n) \in Nat /\ Tokens(Append(First(s, n), part)) = T(n) + left
      BY <1>2, <1>6, <2>3, TokensAppend DEF T
    <2>5. T(n) + left = MaxTokens
      BY <1>1, <2>4 DEF left
    <2>6. Truncated(s) = Append(First(s, n), part)
      BY <1>7, <1>10
    <2> QED BY <1>1, <2>3, <2>4, <2>5, <2>6
  <1> QED BY <1>8, <1>9, <1>10

\* The loops over lines take a beginning of them.
LEMMA TakenType ==
  ASSUME NEW s \in Seq(Line), NEW room \in Int
  PROVE  Taken(s, room) \in Seq(Line)
  <1> DEFINE C(k) == Chars(First(s, k))
             Stops(k) == (k = 0 \/ C(k) <= room) /\ (k = Len(s) \/ C(k + 1) > room)
             n == CHOOSE k \in 0..Len(s) : Stops(k)
  <1>1. Len(s) \in Nat
    OBVIOUS
  <1>2. \A k \in 0..Len(s) : First(s, k) \in Seq(Line) /\ C(k) \in Nat
    BY FirstType, TokensType
  <1> HIDE DEF C
  <1>3. \E k \in 0..Len(s) : Stops(k)
    <2> DEFINE Full == {k \in 0..Len(s) : k = Len(s) \/ C(k + 1) > room}
    <2>1. Full \in SUBSET Nat /\ Full # {}
      <3>1. Len(s) \in Full
        BY <1>1
      <3> QED BY <1>1, <3>1
    <2>2. PICK m \in Full : \A k \in Full : m <= k
      BY <2>1, LeastExists
    <2>3. m \in 0..Len(s) /\ (m = Len(s) \/ C(m + 1) > room)
      OBVIOUS
    <2>4. CASE m # 0
      <3>1. m - 1 \in 0..Len(s) /\ m - 1 \notin Full /\ (m - 1) + 1 = m
        BY <1>1, <2>2, <2>3, <2>4
      <3>2. ~(C((m - 1) + 1) > room)
        BY <3>1
      <3>3. C(m) <= room
        BY <1>2, <2>3, <3>1, <3>2
      <3> QED BY <2>3, <3>3
    <2>5. CASE m = 0
      BY <2>3, <2>5
    <2> QED BY <2>4, <2>5
  <1>4. n \in 0..Len(s)
    BY <1>3
  <1>5. Taken(s, room) = First(s, n)
    BY DEF Taken, C
  <1> HIDE DEF n
  <1> QED BY <1>2, <1>4, <1>5

LEMMA BudgetType ==
  ASSUME NEW s \in Seq(Line), NEW min, NEW cut \in Nat, cut > 0, NEW tokens \in Nat, NEW percent \in Nat
  PROVE  /\ Budget(s, min, cut, tokens, percent) \in Int
         /\ Budget(s, min, cut, tokens, percent) >= Floor(tokens, percent)
  <1> DEFINE long == {i \in DOMAIN s : s[i].len >= min}
             sample == CutAll(First(Picked(s, long), 20), cut)
             floor == (tokens * percent * 15) \div 1000
             scaled == (tokens * percent * (Chars(sample) - 1)) \div (100 * Tokens(sample))
  <1>1. sample \in Seq(Line)
    <2>1. long \in SUBSET (DOMAIN s)
      OBVIOUS
    <2> HIDE DEF long
    <2>2. Picked(s, long) \in Seq(Line)
      BY <2>1, PickedType
    <2>3. First(Picked(s, long), 20) \in Seq(Line)
      BY <2>2, FirstType
    <2> QED BY <2>3, CutAllType
  <1>2. Budget(s, min, cut, tokens, percent) =
          IF sample = <<>> THEN (tokens * percent * 4) \div 100 ELSE IF scaled > floor THEN scaled ELSE floor
    BY DEF Budget, Floor, Only
  <1> HIDE DEF sample
  <1> DEFINE tp == tokens * percent
  <1>3. tp \in Nat
    OBVIOUS
  <1> HIDE DEF tp
  <1>4. (tp * 4) \div 100 \in Int /\ (tp * 15) \div 1000 \in Int
    BY <1>3
  <1>5. sample # <<>> => (tp * (Chars(sample) - 1)) \div (100 * Tokens(sample)) \in Int
    <2> SUFFICES ASSUME sample # <<>> PROVE (tp * (Chars(sample) - 1)) \div (100 * Tokens(sample)) \in Int
      OBVIOUS
    <2> DEFINE a == tp * (Chars(sample) - 1)
               b == 100 * Tokens(sample)
    <2>1. Chars(sample) \in Nat /\ Tokens(sample) \in Nat /\ Tokens(sample) > 0
      BY <1>1, TokensType
    <2>2. a \in Int /\ b \in Nat /\ b > 0
      BY <1>3, <2>1
    <2> HIDE DEF a, b
    <2>3. a \div b \in Int
      BY <2>2
    <2> QED BY <2>3 DEF a, b
  <1>6. (tp * 4) \div 100 >= (tp * 15) \div 1000
    BY <1>3
  <1>7. Budget(s, min, cut, tokens, percent) \in Int
    BY <1>2, <1>4, <1>5 DEF tp
  <1>8. Budget(s, min, cut, tokens, percent) >= (tp * 15) \div 1000
    <2> DEFINE v == (tp * (Chars(sample) - 1)) \div (100 * Tokens(sample))
               w == (tp * 15) \div 1000
               u == (tp * 4) \div 100
    <2>1. Budget(s, min, cut, tokens, percent) = IF sample = <<>> THEN u ELSE IF v > w THEN v ELSE w
      BY <1>2 DEF tp
    <2>2. u \in Int /\ w \in Int /\ u >= w /\ (sample # <<>> => v \in Int)
      BY <1>4, <1>5, <1>6
    <2> HIDE DEF u, v, w
    <2>3. Budget(s, min, cut, tokens, percent) >= w
      BY <2>1, <2>2
    <2> QED BY <2>3 DEF w
  <1> QED BY <1>7, <1>8 DEF Floor, tp

-----------------------------------------------------------------------------
(***************************************************************************)
(* PrunedContext: the compressors.                                          *)
(***************************************************************************)
Texts == Seq(Line)
Reads(r) == r.head \in Texts /\ r.sections \in Seq(Texts)

LEMMA ReadingType ==
  ASSUME NEW head \in Texts, NEW sections \in Seq(Texts)
  PROVE  Reads(Reading(head, sections))
  BY DEF Reads, Reading

LEMMA OneSection ==
  ASSUME NEW head \in Texts, NEW s \in Texts
  PROVE  Reads(Reading(head, <<s>>)) /\ Reads(Reading(head, <<>>)) /\ <<>> \in Texts
  BY DEF Reads, Reading, Texts

LEMMA SimpleReads ==
  ASSUME NEW ls \in Texts
  PROVE  /\ Reads(Login(ls)) /\ Reads(Form(ls)) /\ Reads(Checkout(ls)) /\ Reads(HelpFaq(ls)) /\ Reads(Settings(ls))
         /\ Reads(ErrorPage(ls)) /\ Reads(Documentation(ls)) /\ Reads(Landing(ls)) /\ Reads(Dashboard(ls))
         /\ Reads(Reading(<<>>, Default(ls)))
  <1>1. \A P \in SUBSET (DOMAIN ls) : Picked(ls, P) \in Texts
    BY PickedType DEF Texts
  <1>2. \A s \in Texts : CutAll(s, 150) \in Texts /\ CutAll(s, 200) \in Texts /\ CutAll(s, 300) \in Texts
    <2> SUFFICES ASSUME NEW s \in Seq(Line)
                 PROVE  CutAll(s, 150) \in Seq(Line) /\ CutAll(s, 200) \in Seq(Line) /\ CutAll(s, 300) \in Seq(Line)
      BY DEF Texts
    <2>1. ASSUME NEW n \in {150, 200, 300} PROVE CutAll(s, n) \in Seq(Line)
      <3>1. n \in Nat /\ n > 0
        OBVIOUS
      <3> QED BY <3>1, CutAllType
    <2> QED BY <2>1
  <1>3. \A s \in Texts : Reads(Kept(s, 200)) /\ Reads(Kept(s, 300))
    <2>1. <<>> \in Texts
      BY OneSection
    <2> QED BY <1>2, <2>1, OneSection DEF Kept
  <1>4. Reads(Checkout(ls)) /\ Reads(HelpFaq(ls)) /\ Reads(Settings(ls)) /\ Reads(ErrorPage(ls))
    BY <1>1, <1>3 DEF Only, Checkout, HelpFaq, Settings, ErrorPage
  <1>5. Reads(Documentation(ls)) /\ Reads(Landing(ls)) /\ Reads(Dashboard(ls))
    BY <1>1, <1>3 DEF Only, Documentation, Landing, Dashboard
  <1>6. \A s, t \in Texts : Reads(ErrorsThen(s, t))
    BY <1>2, OneSection DEF ErrorsThen
  <1>7. Reads(Login(ls)) /\ Reads(Form(ls))
    BY <1>1, <1>6 DEF Only, Login, Form
  <1>8. Reads(Reading(<<>>, Default(ls)))
    BY <1>1, <1>2, OneSection DEF Only, Default
  <1> QED BY <1>4, <1>5, <1>7, <1>8

LEMMA TextsTypes ==
  /\ <<>> \in Texts /\ \A l \in Line : <<l>> \in Texts
  /\ \A s, t \in Texts : s \o t \in Texts
  /\ \A s \in Texts : DOMAIN s = 1..Len(s) /\ Len(s) \in Nat /\ \A i \in DOMAIN s : s[i] \in Line
  /\ \A s \in Texts : \A P \in SUBSET (DOMAIN s) : Picked(s, P) \in Texts
  /\ \A s \in Texts, n \in Nat : First(s, n) \in Texts
  /\ \A s \in Texts, n \in {100, 150, 200, 300} : CutAll(s, n) \in Texts
  /\ \A s \in Texts, m \in Nat, n \in Int : m > 0 /\ n <= Len(s) => SubSeq(s, m, n) \in Texts
  /\ \A n \in {2, 3, 4, 5, 30} : Made(n) \in Line
  <1>1. <<>> \in Texts /\ \A l \in Line : <<l>> \in Texts
    BY DEF Texts
  <1>2. \A s, t \in Texts : s \o t \in Texts
    BY DEF Texts
  <1>3. \A s \in Texts : DOMAIN s = 1..Len(s) /\ Len(s) \in Nat /\ \A i \in DOMAIN s : s[i] \in Line
    BY DEF Texts
  <1>4. \A s \in Texts : \A P \in SUBSET (DOMAIN s) : Picked(s, P) \in Texts
    BY PickedType DEF Texts
  <1>5. \A s \in Texts, n \in Nat : First(s, n) \in Texts
    BY FirstType DEF Texts
  <1>6. ASSUME NEW s \in Texts, NEW n \in {100, 150, 200, 300} PROVE CutAll(s, n) \in Texts
    <2>1. n \in Nat /\ n > 0 /\ s \in Seq(Line)
      BY DEF Texts
    <2> QED BY <2>1, CutAllType DEF Texts
  <1>7. ASSUME NEW s \in Texts, NEW m \in Nat, NEW n \in Int, m > 0, n <= Len(s) PROVE SubSeq(s, m, n) \in Texts
    <2>1. \A i \in m..n : s[i] \in Line
      BY <1>3, <1>7
    <2> DEFINE k == IF m <= n + 1 THEN n - m + 1 ELSE 0
    <2>2. k \in Nat /\ 1..k = 1..(n - m + 1)
      OBVIOUS
    <2>3. SubSeq(s, m, n) = [i \in 1..k |-> s[m + i - 1]]
      BY <1>7, <2>2 DEF Texts
    <2>4. \A i \in 1..k : s[m + i - 1] \in Line
      BY <2>1
    <2> QED BY <2>2, <2>3, <2>4 DEF Texts
  <1>8. ASSUME NEW n \in {2, 3, 4, 5, 30} PROVE Made(n) \in Line
    <2>1. n \in Nat /\ n > 0
      OBVIOUS
    <2> QED BY <2>1, MadeType
  <1> QED BY <1>1, <1>2, <1>3, <1>4, <1>5, <1>6, <1>7, <1>8

LEMMA CopiesType ==
  ASSUME NEW l \in Line, NEW n \in Nat
  PROVE  [i \in 1..n |-> l] \in Texts
  BY DEF Texts

LEMMA MetaType ==
  ASSUME NEW d, d.meta \in SUBSET MetaFields, NEW fields
  PROVE  Meta(d, fields) \in Texts
  <1>1. IsFiniteSet(MetaFields)
    <2>1. IsFiniteSet({"title"} \cup {"price"} \cup {"rating"} \cup {"author"} \cup {"description"})
      BY FS_Singleton, FS_Union
    <2> QED BY <2>1 DEF MetaFields
  <1> DEFINE n == Cardinality(d.meta \cap fields)
  <1>2. n \in Nat
    <2>1. IsFiniteSet(d.meta \cap fields)
      BY <1>1, FS_Subset
    <2> QED BY <2>1, FS_CardinalityType
  <1> HIDE DEF n
  <1>3. Made(4) \in Line
    BY TextsTypes
  <1>4. [i \in 1..n |-> Made(4)] \in Texts
    BY <1>2, <1>3, CopiesType
  <1> QED BY <1>4 DEF Meta, n

LEMMA FilterLinesType == ASSUME NEW ls \in Texts PROVE FilterLines(ls) \in Texts
  BY TextsTypes DEF FilterLines, Only

LEMMA OfTermType ==
  ASSUME NEW ls \in Texts, NEW terms, NEW t
  PROVE  OfTerm(ls, terms, t) \in Texts
  BY TextsTypes DEF OfTerm, Only

LEMMA OfNoneType ==
  ASSUME NEW ls \in Texts, NEW terms, NEW min
  PROVE  OfNone(ls, terms, min) \in Texts
  BY TextsTypes DEF OfNone, Only

LEMMA NewsReads ==
  ASSUME NEW ls \in Texts, NEW d, d.lines \in Texts, NEW parsed
  PROVE  Reads(NewsPortal(d, ls, parsed))
  <1>1. Headlines(d, ls, parsed) \in Texts
    BY TextsTypes DEF Headlines, Only
  <1>2. CutAll(Headlines(d, ls, parsed), 200) \in Texts /\ <<>> \in Texts
    BY <1>1, TextsTypes
  <1> QED BY <1>2, OneSection DEF NewsPortal, Kept

LEMMA OutlineType ==
  ASSUME NEW chunks \in Texts, NEW blocks
  PROVE  Outline(chunks, blocks) \in Texts
  <1> SUFFICES ASSUME NEW P \in SUBSET (DOMAIN chunks),
                      NEW kept, kept = Picked(chunks, P)
               PROVE  [k \in DOMAIN kept |-> IF kept[k].chunk = "block" THEN Cut(kept[k], 300) ELSE kept[k]] \in Texts
    BY DEF Outline
  <1>1. kept \in Texts /\ DOMAIN kept = 1..Len(kept) /\ Len(kept) \in Nat /\ \A k \in DOMAIN kept : kept[k] \in Line
    BY TextsTypes
  <1>2. \A k \in DOMAIN kept : Cut(kept[k], 300) \in Line
    <2> DEFINE n == 300
    <2>1. n \in Nat /\ n > 0
      OBVIOUS
    <2> HIDE DEF n
    <2>2. \A k \in DOMAIN kept : Cut(kept[k], n) \in Line
      BY <1>1, <2>1, CutType
    <2> QED BY <2>2 DEF n
  <1> QED BY <1>1, <1>2 DEF Texts

LEMMA CutLines ==
  ASSUME NEW ls \in Texts, NEW first
  PROVE  [i \in DOMAIN ls |-> IF i = first THEN ls[i] ELSE Cut(ls[i], 300)] \in Texts
  <1> DEFINE n == 300
  <1>1. n \in Nat /\ n > 0
    OBVIOUS
  <1> HIDE DEF n
  <1>2. DOMAIN ls = 1..Len(ls) /\ Len(ls) \in Nat /\ \A i \in DOMAIN ls : ls[i] \in Line
    BY TextsTypes
  <1>3. \A i \in DOMAIN ls : Cut(ls[i], n) \in Line
    BY <1>1, <1>2, CutType
  <1>4. [i \in DOMAIN ls |-> IF i = first THEN ls[i] ELSE Cut(ls[i], n)] \in Texts
    BY <1>2, <1>3 DEF Texts
  <1> QED BY <1>4 DEF n

LEMMA ArticleReads ==
  ASSUME NEW d, d.meta \in SUBSET MetaFields, NEW ls \in Texts, NEW chunks \in Texts
  PROVE  Reads(Article(d, ls, chunks))
  <1>1. ASSUME NEW titled PROVE ArticleLines(ls, titled) \in Texts
    <2> DEFINE title == {i \in DOMAIN ls : ls[i].len > 10}
               first == IF titled \/ title = {} THEN 0 ELSE CHOOSE i \in title : \A j \in title : i <= j
               after(i) == titled \/ (first # 0 /\ i > first)
               told(i) == ls[i].len >= 3 /\ (Tells(ls[i], "date") \/ (after(i) /\ ls[i].len > 30))
               P == {i \in DOMAIN ls : i = first \/ told(i)}
               r == [i \in DOMAIN ls |-> IF i = first THEN ls[i] ELSE Cut(ls[i], 300)]
    <2>1. r \in Texts /\ DOMAIN r = DOMAIN ls
      <3> HIDE DEF first
      <3> QED BY CutLines
    <2> HIDE DEF r
    <2>2. Picked(r, P) \in Texts
      <3>1. P \in SUBSET (DOMAIN ls)
        OBVIOUS
      <3> HIDE DEF P
      <3> QED BY <2>1, <3>1, TextsTypes
    <2>3. ArticleLines(ls, titled) = Picked(r, P)
      BY Zenon DEF ArticleLines, r
    <2> QED BY <2>2, <2>3
  <1>2. Meta(d, {"title", "author"}) \in Texts
    BY MetaType
  <1>3. Outline(chunks, 3) \in Texts
    BY OutlineType
  <1> QED BY <1>1, <1>2, <1>3, OneSection DEF Article

LEMMA WikiReads ==
  ASSUME NEW d, d.meta \in SUBSET MetaFields, NEW ls \in Texts, NEW chunks \in Texts, NEW budget \in Int
  PROVE  Reads(Wiki(d, ls, chunks, budget))
  <1> DEFINE head == Meta(d, {"title", "description"})
             room == budget - Chars(head)
             long == {i \in DOMAIN ls : ls[i].len >= 80}
             summary == First(Picked(ls, long), 2)
             taken == Taken(CutAll(summary, 300), room)
  <1>1. head \in Texts
    BY MetaType
  <1>2. room \in Int
    BY <1>1, TokensType DEF Texts
  <1> HIDE DEF head, room
  <1>3. taken \in Texts
    <2>1. Picked(ls, long) \in Texts
      BY TextsTypes
    <2>2. summary \in Texts
      BY <2>1, TextsTypes
    <2>3. CutAll(summary, 300) \in Texts
      BY <2>2, TextsTypes
    <2> HIDE DEF summary
    <2> QED BY <1>2, <2>3, TakenType DEF Texts
  <1>4. WikiSections(ls, room) \in Seq(Texts)
    <2> HIDE DEF taken
    <2>1. ASSUME NEW P \in SUBSET (DOMAIN ls), NEW Q \in SUBSET (DOMAIN ls)
          PROVE  <<taken, First(Picked(ls, P), 10), First(Picked(ls, Q), 5)>> \in Seq(Texts)
      <3>1. Picked(ls, P) \in Texts /\ Picked(ls, Q) \in Texts
        BY TextsTypes
      <3>2. First(Picked(ls, P), 10) \in Texts /\ First(Picked(ls, Q), 5) \in Texts
        BY <3>1, TextsTypes
      <3> QED BY <1>3, <3>2
    <2>2. \E P, Q \in SUBSET (DOMAIN ls) :
             WikiSections(ls, room) = <<taken, First(Picked(ls, P), 10), First(Picked(ls, Q), 5)>>
      <3> DEFINE nth(i) == Cardinality({j \in 1..i : ls[j].len >= 80})
                 read == {i \in DOMAIN ls : Len(taken) = Len(summary) \/ nth(i) <= Len(taken)}
                 candidate(i) == i \in read /\ ls[i].len >= 80 /\ nth(i) > 2 /\ ls[i].len <= 300
                 body(i) == candidate(i) /\ \E j \in 1..i : /\ ls[j].len \in 5..79
                                                           /\ \A k \in j..(i - 1) : ~candidate(k)
                 P == {i \in read : ls[i].len \in 5..79}
                 Q == {i \in DOMAIN ls : body(i)}
      <3>1. WikiSections(ls, room) = <<taken, First(Picked(ls, P), 10), First(Picked(ls, Q), 5)>>
        BY Zenon DEF WikiSections, taken, Only
      <3>2. P \in SUBSET (DOMAIN ls) /\ Q \in SUBSET (DOMAIN ls)
        OBVIOUS
      <3> HIDE DEF P, Q
      <3> QED BY <3>1, <3>2
    <2> QED BY <2>1, <2>2
  <1>5. <<Outline(chunks, 2)>> \in Seq(Texts)
    BY OutlineType
  <1> QED BY <1>1, <1>4, <1>5, ReadingType DEF Wiki, head, room

LEMMA VideoReads ==
  ASSUME NEW d, d.meta \in SUBSET MetaFields, NEW budget \in Int
  PROVE  Reads(Video(d, budget))
  <1> DEFINE head == Meta(d, {"title", "author", "rating"})
             room == budget - Chars(head)
  <1>1. head \in Texts
    BY MetaType
  <1>2. room \in Int
    BY <1>1, TokensType DEF Texts
  <1> HIDE DEF head, room
  <1>3. room > 50 => <<Cut(Made(30), room)>> \in Texts
    <2> SUFFICES ASSUME room > 50 PROVE Cut(Made(30), room) \in Line
      BY TextsTypes
    <2>1. room \in Nat /\ room > 0 /\ Made(30) \in Line
      BY <1>2, TextsTypes
    <2> QED BY <2>1, CutType
  <1>4. ASSUME NEW said \in Texts PROVE Reads(Reading(head \o said, <<>>))
    <2>1. head \o said \in Texts
      BY <1>1, TextsTypes
    <2> QED BY <2>1, OneSection
  <1>5. <<>> \in Texts
    BY TextsTypes
  <1> QED BY <1>3, <1>4, <1>5 DEF Video, head, room

LEMMA TitledType ==
  ASSUME NEW ls \in Texts, NEW parts \in Texts, NEW budget
  PROVE  Titled(ls, parts, budget).parts \in Texts /\ Titled(ls, parts, budget).rest \in Texts
  <1> DEFINE fit == {i \in DOMAIN ls : ls[i].len > 10 /\ Cost(ls[i]) <= budget}
             at == IF parts # <<>> THEN 0 ELSE IF fit = {} THEN Len(ls) + 1 ELSE CHOOSE i \in fit : \A j \in fit : i <= j
             before == {i \in DOMAIN SubSeq(ls, 1, at - 1) : SubSeq(ls, 1, at - 1)[i].len \in 5..10}
             after == {i \in DOMAIN SubSeq(ls, at + 1, Len(ls)) : SubSeq(ls, at + 1, Len(ls))[i].len >= 5}
  <1>1. DOMAIN ls = 1..Len(ls) /\ Len(ls) \in Nat /\ \A i \in DOMAIN ls : ls[i] \in Line
    BY TextsTypes
  <1>2. at \in 0..(Len(ls) + 1)
    <2>1. fit # {} => \E i \in fit : \A j \in fit : i <= j
      <3>1. fit \in SUBSET Nat
        BY <1>1
      <3> QED BY <3>1, LeastExists
    <2> HIDE DEF fit
    <2>2. fit \in SUBSET (1..Len(ls))
      BY <1>1 DEF fit
    <2> DEFINE least == CHOOSE i \in fit : \A j \in fit : i <= j
    <2>3. fit # {} => least \in fit
      BY <2>1
    <2> HIDE DEF least
    <2>4. at = IF parts # <<>> THEN 0 ELSE IF fit = {} THEN Len(ls) + 1 ELSE least
      BY DEF least
    <2> HIDE DEF at
    <2> QED BY <1>1, <2>2, <2>3, <2>4
  <1>3. at \in fit => <<ls[at]>> \in Texts
    BY <1>1, TextsTypes
  <1> HIDE DEF at, fit
  <1>4. SubSeq(ls, 1, at - 1) \in Texts /\ SubSeq(ls, at + 1, Len(ls)) \in Texts
    <2>1. /\ 1 \in Nat /\ 1 > 0 /\ at - 1 \in Int /\ at - 1 <= Len(ls)
          /\ at + 1 \in Nat /\ at + 1 > 0 /\ Len(ls) \in Int /\ Len(ls) <= Len(ls)
      BY <1>1, <1>2
    <2> QED BY <2>1, TextsTypes
  <1>5. Picked(SubSeq(ls, 1, at - 1), before) \in Texts /\ Picked(SubSeq(ls, at + 1, Len(ls)), after) \in Texts
    BY <1>4, TextsTypes
  <1>6. Titled(ls, parts, budget) = [parts |-> IF at \in fit THEN <<ls[at]>> ELSE parts,
                                     rest |-> Picked(SubSeq(ls, 1, at - 1), before)
                                                \o Picked(SubSeq(ls, at + 1, Len(ls)), after)]
    BY Zenon DEF Titled, Only, at, fit
  <1> HIDE DEF before, after
  <1>7. Picked(SubSeq(ls, 1, at - 1), before) \o Picked(SubSeq(ls, at + 1, Len(ls)), after) \in Texts
    BY <1>5, TextsTypes
  <1> QED BY <1>3, <1>6, <1>7

LEMMA TwoSections ==
  ASSUME NEW head \in Texts, NEW s \in Texts, NEW t \in Texts, NEW u \in Texts
  PROVE  Reads(Reading(head, <<s, t>>)) /\ Reads(Reading(head, <<s, t, u>>))
  BY DEF Reads, Reading

LEMMA SaasReads ==
  ASSUME NEW d, d.meta \in SUBSET MetaFields, NEW ls \in Texts, NEW budget
  PROVE  Reads(Saas(d, ls, budget))
  <1> DEFINE t == Titled(ls, Meta(d, {"title", "description"}), budget)
             terms == <<"pricing", "feature">>
  <1>1. t.parts \in Texts /\ t.rest \in Texts
    BY MetaType, TitledType
  <1> HIDE DEF t
  <1>2. /\ OfTerm(t.rest, terms, "pricing") \in Texts /\ OfTerm(t.rest, terms, "feature") \in Texts
        /\ OfNone(t.rest, terms, 50) \in Texts
    BY <1>1, OfTermType, OfNoneType
  <1>3. /\ First(OfTerm(t.rest, terms, "pricing"), 5) \in Texts /\ First(OfTerm(t.rest, terms, "feature"), 5) \in Texts
        /\ CutAll(First(OfNone(t.rest, terms, 50), 3), 200) \in Texts
    BY <1>2, TextsTypes
  <1> HIDE DEF terms
  <1> QED BY <1>1, <1>3, TwoSections DEF Saas, t, terms

LEMMA GovernmentReads ==
  ASSUME NEW d, d.meta \in SUBSET MetaFields, NEW ls \in Texts, NEW budget
  PROVE  Reads(Government(d, ls, budget))
  <1> DEFINE t == Titled(ls, Meta(d, {"title", "description"}), budget)
             terms == <<"department", "date", "contact", "service">>
             some(w, n) == First(OfTerm(t.rest, terms, w), n)
             body == CutAll(First(OfNone(t.rest, terms, 30), 3), 300)
  <1>1. t.parts \in Texts /\ t.rest \in Texts
    BY MetaType, TitledType
  <1> HIDE DEF t, terms
  <1>2. ASSUME NEW w, NEW n \in Nat PROVE some(w, n) \in Texts
    BY <1>1, OfTermType, TextsTypes
  <1>3. body \in Texts
    <2>1. OfNone(t.rest, terms, 30) \in Texts
      BY <1>1, OfNoneType
    <2> QED BY <2>1, TextsTypes
  <1> HIDE DEF some, body
  <1>4. some("department", 3) \o some("date", 2) \o some("contact", 3) \o some("service", 5) \in Texts
    BY <1>2, TextsTypes
  <1>5. Reads(Reading(t.parts, <<some("department", 3) \o some("date", 2) \o some("contact", 3) \o some("service", 5), body>>))
    BY <1>1, <1>3, <1>4, TwoSections
  <1> QED BY <1>5 DEF Government, t, terms, some, body

LEMMA ProductReads ==
  ASSUME NEW d, d.meta \in SUBSET MetaFields, d.selects \in Nat, NEW lines \in Texts
  PROVE  Reads(Product(d, lines))
  <1> DEFINE ls == Only(FilterLines(lines), LAMBDA l : l.len >= 2)
             has(f) == f \in d.meta
             prices == Only(ls, LAMBDA l : Tells(l, "price") /\ (has("price") => Tells(l, "was")))
             rest == Only(ls, LAMBDA l : ~Tells(l, "price") /\ ~Tells(l, "promotion"))
             terms == IF has("rating") THEN <<"discount", "option">> ELSE <<"discount", "rating", "option">>
             plain == OfNone(rest, terms, 2)
             titles == {i \in DOMAIN plain : ~has("title") /\ plain[i].len \in 11..199}
             title == IF titles = {} THEN 0 ELSE CHOOSE i \in titles : \A j \in titles : i <= j
             options == OfTerm(rest, terms, "option")
             others == SubSeq(plain, 1, title - 1) \o SubSeq(plain, title + 1, Len(plain))
             info == CutAll(Only(First(others, 10), LAMBDA l : l.len > 8), 200)
             a == Meta(d, {"title", "price", "rating"})
             b == IF title = 0 THEN <<>> ELSE <<plain[title]>>
             c == First(prices, IF has("price") THEN 1 ELSE 5)
             e == IF has("rating") THEN <<>> ELSE First(OfTerm(rest, terms, "rating"), 2)
             f == First(OfTerm(rest, terms, "discount"), 1)
             g == First(IF options # <<>> THEN options ELSE [i \in 1..d.selects |-> Made(3)], 5)
             h == IF ~has("price") /\ prices = <<>> /\ d.priced THEN <<Made(2)>> ELSE <<>>
  <1>1. ls \in Texts
    <2>1. FilterLines(lines) \in Texts
      BY FilterLinesType
    <2> QED BY <2>1, TextsTypes DEF Only
  <1> HIDE DEF ls
  <1>2. prices \in Texts /\ rest \in Texts
    BY <1>1, TextsTypes DEF Only
  <1> HIDE DEF prices, rest, terms
  <1>3. plain \in Texts /\ options \in Texts
    BY <1>2, OfNoneType, OfTermType
  <1> HIDE DEF plain, options
  <1>4. DOMAIN plain = 1..Len(plain) /\ Len(plain) \in Nat /\ \A i \in DOMAIN plain : plain[i] \in Line
    BY <1>3, TextsTypes
  <1>5. title \in 0..Len(plain) /\ (title # 0 => title \in DOMAIN plain)
    <2>1. titles \in SUBSET (1..Len(plain))
      BY <1>4
    <2> HIDE DEF titles
    <2>2. titles # {} => \E i \in titles : \A j \in titles : i <= j
      <3>1. titles \in SUBSET Nat
        BY <1>4, <2>1
      <3> QED BY <3>1, LeastExists
    <2> DEFINE least == CHOOSE i \in titles : \A j \in titles : i <= j
    <2>3. titles # {} => least \in titles
      BY <2>2
    <2> HIDE DEF least
    <2>4. title = IF titles = {} THEN 0 ELSE least
      BY DEF least
    <2> HIDE DEF title
    <2> QED BY <1>4, <2>1, <2>3, <2>4
  <1> HIDE DEF title
  <1>6. others \in Texts
    <2>1. /\ 1 \in Nat /\ 1 > 0 /\ title - 1 \in Int /\ title - 1 <= Len(plain)
          /\ title + 1 \in Nat /\ title + 1 > 0 /\ Len(plain) \in Int /\ Len(plain) <= Len(plain)
      BY <1>4, <1>5
    <2>2. SubSeq(plain, 1, title - 1) \in Texts /\ SubSeq(plain, title + 1, Len(plain)) \in Texts
      BY <1>3, <2>1, TextsTypes
    <2> QED BY <2>2, TextsTypes
  <1> HIDE DEF others
  <1>7. info \in Texts
    <2>1. First(others, 10) \in Texts
      BY <1>6, TextsTypes
    <2> QED BY <2>1, TextsTypes DEF Only
  <1>8. a \in Texts
    BY MetaType
  <1>9. b \in Texts /\ h \in Texts
    BY <1>4, <1>5, TextsTypes
  <1>10. c \in Texts
    BY <1>2, TextsTypes
  <1>11. e \in Texts /\ f \in Texts
    BY <1>2, OfTermType, TextsTypes
  <1>12. g \in Texts
    <2>1. [i \in 1..d.selects |-> Made(3)] \in Texts
      BY TextsTypes, CopiesType
    <2> QED BY <1>3, <2>1, TextsTypes
  <1> HIDE DEF info, a, b, c, e, f, g, h
  <1>13. a \o b \o c \o e \o f \o g \o info \o h \in Texts
    BY <1>7, <1>8, <1>9, <1>10, <1>11, <1>12, TextsTypes
  <1>14. Product(d, lines) = Reading(a \o b \o c \o e \o f \o g \o info \o h, <<>>)
    BY Zenon DEF Product, ls, prices, rest, terms, plain, titles, title, options, others, info, a, b, c, e, f, g, h
  <1> HIDE DEF has
  <1> QED BY <1>13, <1>14, OneSection

LEMMA CardsType ==
  ASSUME NEW d, d.items \in Nat, NEW ls \in Texts, NEW chunks \in Texts, NEW parsed
  PROVE  Cards(d, ls, chunks, parsed) \in Nat
  <1>1. GridCards(ls) \in Nat
    <2> DEFINE n == Len(Only(ls, LAMBDA l : Tells(l, "price") /\ l.chunk = "list"))
    <2>1. Only(ls, LAMBDA l : Tells(l, "price") /\ l.chunk = "list") \in Texts
      BY TextsTypes DEF Only
    <2>2. n \in Nat
      BY <2>1, TextsTypes
    <2> HIDE DEF n
    <2> QED BY <2>2 DEF GridCards, n
  <1>2. ChunkCards(chunks) \in Nat
    <2> DEFINE some == Only(chunks, LAMBDA l : l.chunk = "list" /\ Tells(l, "price") /\ l.len >= 5)
               listed == Len(some)
               priced(i) == Tells(chunks[i], "price")
               pairs == {i \in DOMAIN chunks : ~priced(i) /\ chunks[i].len \in 4..199 /\ i + 1 \in DOMAIN chunks /\ priced(i + 1)}
               alone == {i \in DOMAIN chunks : priced(i) /\ i - 1 \notin pairs /\ chunks[i].len > 15}
    <2>1. listed \in Nat
      <3>1. some \in Texts
        BY TextsTypes DEF Only
      <3> QED BY <3>1, TextsTypes
    <2>2. Cardinality(pairs \cup alone) \in Nat
      <3>1. pairs \cup alone \in SUBSET (1..Len(chunks)) /\ Len(chunks) \in Nat
        BY TextsTypes
      <3> HIDE DEF pairs, alone
      <3>2. IsFiniteSet(1..Len(chunks))
        <4> DEFINE n == Len(chunks)
        <4>1. 1 \in Int /\ n \in Int
          BY <3>1
        <4> HIDE DEF n
        <4> QED BY <4>1, FS_Interval DEF n
      <3> QED BY <3>1, <3>2, FS_Subset, FS_CardinalityType
    <2>3. ChunkCards(chunks) = IF listed > 0 THEN listed ELSE Cardinality(pairs \cup alone)
      BY Zenon DEF ChunkCards
    <2> HIDE DEF listed, pairs, alone
    <2> QED BY <2>1, <2>2, <2>3
  <1> QED BY <1>1, <1>2 DEF Cards

LEMMA CardReads ==
  ASSUME NEW ls \in Texts, NEW n \in Nat
  PROVE  Reads(CardOutput(ls, n))
  <1> DEFINE head == First(Only(First(ls, 15), LAMBDA l : Tells(l, "listing") \/ Tells(l, "count")), 1)
             status == Only(First(ls, 20), LAMBDA l : (Tells(l, "count") \/ Tells(l, "filter")) /\ head # <<l>>)
             cards == [i \in 1..(IF n > 15 THEN 16 ELSE n) |-> Made(5)]
  <1>1. First(ls, 15) \in Texts /\ First(ls, 20) \in Texts
    BY TextsTypes
  <1>2. head \in Texts /\ Len(head) \in {0, 1}
    <2>1. Only(First(ls, 15), LAMBDA l : Tells(l, "listing") \/ Tells(l, "count")) \in Texts
      BY <1>1, TextsTypes DEF Only
    <2> DEFINE some == Only(First(ls, 15), LAMBDA l : Tells(l, "listing") \/ Tells(l, "count"))
    <2> HIDE DEF some
    <2>2. some \in Seq(Line) /\ Len(some) \in Nat
      BY <2>1 DEF Texts, some
    <2>3. First(some, 1) \in Seq(Line) /\ Len(First(some, 1)) = IF Len(some) < 1 THEN Len(some) ELSE 1
      BY <2>2, FirstType
    <2>4. head = First(some, 1)
      BY DEF some
    <2> HIDE DEF head
    <2> QED BY <2>2, <2>3, <2>4 DEF Texts
  <1> HIDE DEF head
  <1>3. status \in Texts
    BY <1>1, TextsTypes DEF Only
  <1> HIDE DEF status
  <1>4. First(status, 3 - Len(head)) \in Texts
    <2>1. 3 - Len(head) \in Nat
      BY <1>2
    <2> QED BY <1>3, <2>1, TextsTypes
  <1>5. CutAll(head \o First(status, 3 - Len(head)), 150) \in Texts
    <2>1. head \o First(status, 3 - Len(head)) \in Texts
      BY <1>2, <1>4, TextsTypes
    <2> QED BY <2>1, TextsTypes
  <1>6. cards \in Texts
    <2>1. (IF n > 15 THEN 16 ELSE n) \in Nat /\ Made(5) \in Line
      BY TextsTypes
    <2> QED BY <2>1, CopiesType
  <1> HIDE DEF cards
  <1>7. CutAll(head \o First(status, 3 - Len(head)), 150) \o cards \in Texts
    BY <1>5, <1>6, TextsTypes
  <1> QED BY <1>7, OneSection DEF CardOutput, head, status, cards

LEMMA ListReads ==
  ASSUME NEW lines \in Texts, NEW head
  PROVE  Reads(ListLines(lines, head))
  <1> DEFINE ls == Only(FilterLines(lines), LAMBDA l : l.len >= 2)
             terms == <<head, "price", "filter">>
             a == First(OfTerm(ls, terms, head), 2)
             b == CutAll(First(OfTerm(ls, terms, "price"), 10), 150)
             c == CutAll(First(OfTerm(ls, terms, "filter"), 3), 100)
  <1>1. ls \in Texts
    <2>1. FilterLines(lines) \in Texts
      BY FilterLinesType
    <2> QED BY <2>1, TextsTypes DEF Only
  <1> HIDE DEF ls, terms
  <1>2. OfTerm(ls, terms, head) \in Texts /\ OfTerm(ls, terms, "price") \in Texts /\ OfTerm(ls, terms, "filter") \in Texts
    BY <1>1, OfTermType
  <1>3. a \in Texts /\ b \in Texts /\ c \in Texts
    BY <1>2, TextsTypes
  <1> HIDE DEF a, b, c
  <1>4. a \o b \o c \in Texts
    BY <1>3, TextsTypes
  <1> QED BY <1>4, OneSection DEF ListLines, ls, terms, a, b, c

\* What a page is to its compressor.
Sound(d) == d.lines \in Texts /\ d.meta \in SUBSET MetaFields /\ d.items \in Nat /\ d.selects \in Nat
Names == {"wiki", "video", "product_detail", "search_results", "listing", "article", "login", "checkout", "form",
          "dashboard", "news_portal", "help_faq", "settings", "error", "documentation", "landing", "saas",
          "government", "default"}

LEMMA CompressedReads ==
  ASSUME NEW d, Sound(d), NEW ls \in Texts, NEW chunks \in Texts, NEW parsed, NEW budget \in Int, NEW name \in Names
  PROVE  Reads(Compressed(name, d, ls, chunks, parsed, budget))
  <1>1. d.lines \in Texts /\ d.meta \in SUBSET MetaFields /\ d.items \in Nat /\ d.selects \in Nat
    BY DEF Sound
  <1>2. \A head : Reads(Cardable(ls, Cards(d, ls, chunks, parsed), head))
    <2>1. Cards(d, ls, chunks, parsed) \in Nat
      BY <1>1, CardsType
    <2> QED BY <2>1, CardReads, ListReads DEF Cardable
  <1>3. Reads(Wiki(d, ls, chunks, budget)) /\ Reads(Video(d, budget)) /\ Reads(Article(d, ls, chunks))
    BY <1>1, WikiReads, VideoReads, ArticleReads
  <1>4. Reads(Product(d, ls)) /\ Reads(NewsPortal(d, ls, parsed)) /\ Reads(Saas(d, ls, budget)) /\ Reads(Government(d, ls, budget))
    BY <1>1, ProductReads, NewsReads, SaasReads, GovernmentReads
  <1> QED BY <1>2, <1>3, <1>4, SimpleReads, Zenon DEF Compressed, Names

LEMMA CompressorNames ==
  ASSUME NEW d, NEW type, NEW schema, NEW ls, NEW parsed
  PROVE  Compressor(d, type, schema, ls, parsed) \in Names
  BY Zenon DEF Compressor, Names

-----------------------------------------------------------------------------
(***************************************************************************)
(* PrunedContext: the folds over sections, lines and pages.                  *)
(***************************************************************************)
\* A fold whose steps stay in T ends in T: a function that takes the largest place out of a
\* set of places, member by member.
LEMMA StepsStay ==
  ASSUME NEW T, NEW a \in T, NEW N \in Nat, NEW H \in [(1..N) \X T -> T], NEW it, it[{}] = a, Takes(it, T, N, H)
  PROVE  it[1..N] \in T
  <1>1. Runs(it, N) \in [0..N -> T]
    BY FoldSteps
  <1>2. Runs(it, N)[N] = it[1..N]
    BY FoldSteps
  <1>3. N \in 0..N
    OBVIOUS
  <1> QED BY <1>1, <1>2, <1>3

LEMMA SectionsType ==
  ASSUME NEW r, Reads(r), NEW budget \in Int
  PROVE  Sections(r, budget) \in Texts
  <1> DEFINE s == r.sections
             N == Len(s)
             H == [p \in (1..N) \X Texts |-> p[2] \o Taken(s[p[1]], budget - Chars(p[2]))]
             Is(it) == it = [S \in SUBSET (1..N) |->
                               IF S = {} THEN r.head ELSE it[S \ {Max(S)}] \o Taken(s[Max(S)], budget - Chars(it[S \ {Max(S)}]))]
             c == CHOOSE it : Is(it)
  <1>1. s \in Seq(Texts) /\ r.head \in Texts
    BY DEF Reads
  <1>2. N \in Nat /\ DOMAIN s = 1..N /\ \A k \in 1..N : s[k] \in Texts
    BY <1>1
  <1>3. ASSUME NEW k \in 1..N, NEW t \in Texts PROVE t \o Taken(s[k], budget - Chars(t)) \in Texts
    <2>1. budget - Chars(t) \in Int
      BY TokensType DEF Texts
    <2>2. Taken(s[k], budget - Chars(t)) \in Texts
      BY <1>2, <2>1, TakenType DEF Texts
    <2> QED BY <2>2, TextsTypes
  <1>4. H \in [(1..N) \X Texts -> Texts] /\ \A k \in 1..N, t \in Texts : H[<<k, t>>] = t \o Taken(s[k], budget - Chars(t))
    BY <1>3
  <1>5. Sections(r, budget) = c[1..N]
    BY <1>2, Zenon DEF Sections, FoldLeft, MapThenFoldSet
  <1> HIDE DEF N, H, s
  <1>6. PICK it \in [SUBSET (1..N) -> Texts] : Folds(it, r.head, N, H)
    BY <1>1, <1>2, <1>4, FoldExists
  <1>7. Is(it)
    <2>1. ASSUME NEW S \in SUBSET (1..N), S # {}
          PROVE  H[<<Max(S), it[S \ {Max(S)}]>>] = it[S \ {Max(S)}] \o Taken(s[Max(S)], budget - Chars(it[S \ {Max(S)}]))
      <3>1. Max(S) \in 1..N /\ S \ {Max(S)} \in SUBSET (1..N)
        BY <1>2, <2>1, MaxIsGreatest
      <3>2. it[S \ {Max(S)}] \in Texts
        BY <3>1
      <3> QED BY <1>4, <3>1, <3>2
    <2> QED BY <1>6, <2>1 DEF Folds
  <1>8. Is(c)
    BY <1>7
  <1> HIDE DEF c
  <1>9. c[{}] = r.head
    BY <1>8
  <1>10. ASSUME NEW k \in 1..N, c[1..(k - 1)] \in Texts PROVE c[1..k] = H[<<k, c[1..(k - 1)]>>]
    <2>1. 1..k \in SUBSET (1..N) /\ 1..k # {} /\ Max(1..k) = k /\ (1..k) \ {Max(1..k)} = 1..(k - 1)
      BY <1>2, Beginnings
    <2>2. c[1..k] = c[1..(k - 1)] \o Taken(s[k], budget - Chars(c[1..(k - 1)]))
      BY <1>8, <2>1
    <2> QED BY <1>4, <1>10, <2>2
  <1>11. Takes(c, Texts, N, H)
    BY <1>10 DEF Takes
  <1>12. c[1..N] \in Texts
    BY <1>1, <1>2, <1>4, <1>9, <1>11, StepsStay
  <1> QED BY <1>5, <1>12

\* A line is added, unless the budget was reached before.
AddLine(s, l, budget) ==
  LET p == IF l.len > 10 THEN Append(s.parts, l) ELSE s.parts IN
  IF s.full THEN s ELSE [parts |-> p, full |-> Chars(p) >= budget]

\* Line by line, what is topped up is f[0], f[1], ...
LEMMA ToppedSteps ==
  ASSUME NEW parts \in Texts, NEW lines \in Texts
  PROVE  \E f \in [0..Len(lines) -> [parts : Texts, full : BOOLEAN]] :
           /\ f[0] = [parts |-> parts, full |-> FALSE]
           /\ \A k \in 1..Len(lines) :
                f[k] = AddLine(f[k - 1], lines[k], Budget(lines, 10, 300, MaxTokens \div 2, 100))
           /\ Topped(parts, lines) = IF Tokens(parts) >= MCG_MIN_TOKENS THEN parts ELSE f[Len(lines)].parts
  <1> DEFINE budget == Budget(lines, 10, 300, MaxTokens \div 2, 100)
             step(s, l) == LET p == IF l.len > 10 THEN Append(s.parts, l) ELSE s.parts IN
                           IF s.full THEN s ELSE [parts |-> p, full |-> Chars(p) >= budget]
             T == [parts : Texts, full : BOOLEAN]
             a == [parts |-> parts, full |-> FALSE]
             N == Len(lines)
             H == [p \in (1..N) \X T |-> step(p[2], lines[p[1]])]
             Is(it) == it = [S \in SUBSET (1..N) |-> IF S = {} THEN a ELSE step(it[S \ {Max(S)}], lines[Max(S)])]
             c == CHOOSE it : Is(it)
  <1>1. N \in Nat /\ DOMAIN lines = 1..N /\ \A k \in 1..N : lines[k] \in Line
    BY TextsTypes
  <1>2. a \in T
    OBVIOUS
  <1>3. ASSUME NEW l \in Line, NEW t \in T PROVE step(t, l) \in T
    <2>1. t.parts \in Texts /\ Append(t.parts, l) \in Texts
      BY DEF Texts
    <2> QED BY <2>1
  <1>4. Topped(parts, lines) = IF Tokens(parts) >= MCG_MIN_TOKENS THEN parts ELSE c[1..N].parts
    <2>1. Topped(parts, lines) = IF Tokens(parts) >= MCG_MIN_TOKENS THEN parts ELSE FoldLeft(step, a, lines).parts
      BY Zenon DEF Topped
    <2>2. FoldLeft(step, a, lines) = c[1..N]
      BY <1>1, Zenon DEF FoldLeft, MapThenFoldSet
    <2> QED BY <2>1, <2>2
  <1> HIDE DEF step, a, T
  <1>5. H \in [(1..N) \X T -> T] /\ \A k \in 1..N, t \in T : H[<<k, t>>] = step(t, lines[k])
    BY <1>1, <1>3
  <1> HIDE DEF N, H
  <1>6. PICK it \in [SUBSET (1..N) -> T] : Folds(it, a, N, H)
    BY <1>1, <1>2, <1>5, FoldExists
  <1>7. Is(it)
    <2>1. ASSUME NEW S \in SUBSET (1..N), S # {}
          PROVE  H[<<Max(S), it[S \ {Max(S)}]>>] = step(it[S \ {Max(S)}], lines[Max(S)])
      <3>1. Max(S) \in 1..N /\ S \ {Max(S)} \in SUBSET (1..N)
        BY <1>1, <2>1, MaxIsGreatest
      <3>2. it[S \ {Max(S)}] \in T
        BY <3>1
      <3> QED BY <1>5, <3>1, <3>2
    <2> QED BY <1>6, <2>1 DEF Folds
  <1>8. Is(c)
    BY <1>7
  <1> HIDE DEF c
  <1>9. c[{}] = a
    BY <1>8
  <1>10. ASSUME NEW k \in 1..N, c[1..(k - 1)] \in T PROVE c[1..k] = H[<<k, c[1..(k - 1)]>>]
    <2>1. 1..k \in SUBSET (1..N) /\ 1..k # {} /\ Max(1..k) = k /\ (1..k) \ {Max(1..k)} = 1..(k - 1)
      BY <1>1, Beginnings
    <2>2. c[1..k] = step(c[1..(k - 1)], lines[k])
      BY <1>8, <2>1
    <2> QED BY <1>5, <1>10, <2>2
  <1>11. Takes(c, T, N, H)
    BY <1>10 DEF Takes
  <1> DEFINE f == Runs(c, N)
  <1>12. f \in [0..N -> T] /\ f[0] = a /\ f[N] = c[1..N] /\ \A k \in 1..N : f[k] = H[<<k, f[k - 1]>>]
    <2> HIDE DEF f
    <2>1. Runs(c, N) \in [0..N -> T] /\ Goes(Runs(c, N), a, N, H) /\ Runs(c, N)[N] = c[1..N]
      <3>1. Runs(c, N) \in [0..N -> T]
        BY <1>1, <1>2, <1>5, <1>9, <1>11, FoldSteps
      <3>2. Runs(c, N)[N] = c[1..N]
        BY <1>1, <1>2, <1>5, <1>9, <1>11, FoldSteps
      <3>3. Goes(Runs(c, N), a, N, H)
        BY <1>1, <1>2, <1>5, <1>9, <1>11, FoldSteps
      <3> QED BY <3>1, <3>2, <3>3
    <2>2. f \in [0..N -> T] /\ Goes(f, a, N, H) /\ f[N] = c[1..N]
      BY <2>1, Zenon DEF f
    <2> QED BY <2>2, Zenon DEF Goes
  <1> HIDE DEF f
  <1>13. ASSUME NEW k \in 1..N PROVE f[k] = AddLine(f[k - 1], lines[k], budget)
    <2>1. k - 1 \in 0..N
      BY <1>1
    <2>2. f[k - 1] \in T
      BY <1>12, <2>1
    <2>3. f[k] = step(f[k - 1], lines[k])
      BY <1>5, <1>12, <2>2
    <2> QED BY <2>3 DEF AddLine, step
  <1> QED BY <1>4, <1>12, <1>13 DEF T, N, a

LEMMA ToppedType ==
  ASSUME NEW parts \in Texts, NEW lines \in Texts
  PROVE  Topped(parts, lines) \in Texts
  <1>1. PICK f \in [0..Len(lines) -> [parts : Texts, full : BOOLEAN]] :
           Topped(parts, lines) = IF Tokens(parts) >= MCG_MIN_TOKENS THEN parts ELSE f[Len(lines)].parts
    BY ToppedSteps
  <1>2. Len(lines) \in 0..Len(lines)
    BY TextsTypes
  <1>3. f[Len(lines)] \in [parts : Texts, full : BOOLEAN]
    BY <1>2
  <1> QED BY <1>1, <1>3

\* In a text of lines that reach half of the budget with ten tokens, or have fewer characters
\* to each token.
DenseText(s) == s \in Texts /\ \A i \in 1..Len(s) : Dense(s[i])

LEMMA DenseAppend ==
  ASSUME NEW s, DenseText(s), NEW l \in Line, Dense(l)
  PROVE  DenseText(Append(s, l))
  <1> DEFINE t == Append(s, l)
  <1>1. t \in Texts /\ Len(t) = Len(s) + 1 /\ t[Len(s) + 1] = l /\ Len(s) \in Nat /\ \A i \in 1..Len(s) : t[i] = s[i]
    BY DEF DenseText, Texts
  <1> HIDE DEF t
  <1>2. ASSUME NEW i \in 1..Len(t) PROVE Dense(t[i])
    <2>1. CASE i = Len(s) + 1
      BY <1>1, <2>1
    <2>2. CASE i # Len(s) + 1
      <3>1. i \in 1..Len(s)
        BY <1>1, <2>2
      <3> QED BY <1>1, <3>1 DEF DenseText
    <2> QED BY <2>1, <2>2
  <1> QED BY <1>1, <1>2 DEF DenseText, t

LEMMA HalfBudgetType == HalfBudget \in Nat /\ (MaxTokens >= 80 => HalfBudget >= 60)
  <1>1. MaxTokens \in Nat
    BY ContextAssumption
  <1> DEFINE h == MaxTokens \div 2
  <1>2. h \in Nat /\ (MaxTokens >= 80 => h >= 40)
    BY <1>1
  <1> HIDE DEF h
  <1>3. (h * 100 * 15) \div 1000 \in Nat /\ (h >= 40 => (h * 100 * 15) \div 1000 >= 60)
    BY <1>2
  <1> QED BY <1>2, <1>3 DEF HalfBudget, Floor, h

\* Added up over the lines of a text.
LEMMA DenseSum ==
  ASSUME NEW s, DenseText(s)
  PROVE  MCG_MIN_TOKENS * Chars(s) <= HalfBudget * Tokens(s)
  <1> DEFINE t == [i \in DOMAIN s |-> s[i].tok]
             c == [i \in DOMAIN s |-> Cost(s[i])]
             n == Len(s)
             h == HalfBudget
  <1>1. /\ DOMAIN s = 1..n /\ n \in Nat
        /\ \A i \in 1..n : s[i] \in Line /\ 10 * Cost(s[i]) <= h * s[i].tok
    BY DEF DenseText, Texts, Dense, MCG_MIN_TOKENS
  <1>2. t \in Seq(Nat) /\ Len(t) = n /\ \A i \in 1..n : t[i] = s[i].tok /\ t[i] \in Nat
    BY <1>1 DEF Line
  <1>3. c \in Seq(Nat) /\ Len(c) = n /\ \A i \in 1..n : c[i] = Cost(s[i]) /\ c[i] \in Nat
    BY <1>1 DEF Line, Cost
  <1>4. Tokens(s) = SumOf(t) /\ Chars(s) = SumOf(c)
    BY DEF Tokens, Chars
  <1>5. h \in Nat
    BY HalfBudgetType
  <1> HIDE DEF t, c, h
  <1>6. PICK f \in [0..n -> Nat] : f[0] = 0 /\ f[n] = SumOf(t) /\ \A k \in 1..n : f[k] = f[k - 1] + t[k]
    BY <1>2, SumSteps
  <1>7. PICK g \in [0..n -> Nat] : g[0] = 0 /\ g[n] = SumOf(c) /\ \A k \in 1..n : g[k] = g[k - 1] + c[k]
    BY <1>3, SumSteps
  <1> HIDE DEF n
  <1> DEFINE Bad == {k \in 0..n : ~(10 * g[k] <= h * f[k])}
  <1>8. Bad = {}
    <2> SUFFICES ASSUME Bad # {} PROVE FALSE
      OBVIOUS
    <2>1. PICK m \in Bad : \A k \in Bad : m <= k
      <3>1. Bad \in SUBSET Nat
        BY <1>1
      <3> QED BY <3>1, LeastExists
    <2>2. m \in 0..n /\ ~(10 * g[m] <= h * f[m])
      OBVIOUS
    <2>3. m # 0
      BY <1>5, <1>6, <1>7, <2>2
    <2>4. m \in 1..n /\ m - 1 \in 0..n /\ m - 1 \notin Bad
      BY <1>1, <2>1, <2>2, <2>3
    <2>5. 10 * g[m - 1] <= h * f[m - 1]
      BY <2>4
    <2> DEFINE x == f[m - 1]
               y == t[m]
               u == g[m - 1]
               v == c[m]
    <2>6. /\ x \in Nat /\ y \in Nat /\ u \in Nat /\ v \in Nat /\ f[m] = x + y /\ g[m] = u + v
          /\ 10 * u <= h * x /\ 10 * v <= h * y
      BY <1>1, <1>2, <1>3, <1>6, <1>7, <2>4, <2>5
    <2> HIDE DEF x, y, u, v
    <2>7. h * (x + y) = h * x + h * y /\ h * x \in Nat /\ h * y \in Nat
      BY <1>5, <2>6
    <2>8. 10 * (u + v) <= h * (x + y)
      BY <2>6, <2>7
    <2> QED BY <2>2, <2>6, <2>8
  <1>9. n \in 0..n /\ n \notin Bad
    BY <1>1, <1>8
  <1>10. 10 * g[n] <= h * f[n]
    BY <1>9
  <1> QED BY <1>4, <1>6, <1>7, <1>10 DEF h, MCG_MIN_TOKENS

\* OG data, topped up with pruned lines, then with raw ones.
OgParts(d, og) == IF og /\ d.og THEN <<Made(2), Made(4)>> ELSE <<>>

LEMMA OgType == ASSUME NEW d, NEW og PROVE OgParts(d, og) \in Texts
  <1>1. Made(2) \in Line /\ Made(4) \in Line /\ <<>> \in Texts
    BY TextsTypes
  <1>2. <<Made(2), Made(4)>> \in Texts
    BY <1>1 DEF Texts
  <1> QED BY <1>1, <1>2 DEF OgParts

LEMMA MinimumIs ==
  ASSUME NEW d, d.lines \in Texts, NEW ls \in Texts, NEW og
  PROVE  Minimum(d, ls, og) = Topped(Topped(OgParts(d, og), ls), d.lines)
  <1> DEFINE s == <<ls, d.lines>>
             a == IF og /\ d.og THEN <<Made(2), Made(4)>> ELSE <<>>
             N == 2
             H == [p \in (1..N) \X Texts |-> Topped(p[2], s[p[1]])]
             Is(it) == it = [S \in SUBSET (1..N) |-> IF S = {} THEN a ELSE Topped(it[S \ {Max(S)}], s[Max(S)])]
             c == CHOOSE it : Is(it)
  <1>1. N \in Nat /\ DOMAIN s = 1..N /\ \A k \in 1..N : s[k] \in Texts
    OBVIOUS
  <1>2. a \in Texts
    BY OgType DEF OgParts
  <1>3. Minimum(d, ls, og) = c[1..N]
    BY <1>1, Zenon DEF Minimum, PagesAsked, FoldLeft, MapThenFoldSet
  <1> HIDE DEF a, s, N
  <1>4. H \in [(1..N) \X Texts -> Texts] /\ \A k \in 1..N, t \in Texts : H[<<k, t>>] = Topped(t, s[k])
    BY <1>1, ToppedType
  <1> HIDE DEF H
  <1>5. PICK it \in [SUBSET (1..N) -> Texts] : Folds(it, a, N, H)
    BY <1>1, <1>2, <1>4, FoldExists
  <1>6. Is(it)
    <2>1. ASSUME NEW S \in SUBSET (1..N), S # {}
          PROVE  H[<<Max(S), it[S \ {Max(S)}]>>] = Topped(it[S \ {Max(S)}], s[Max(S)])
      <3>1. Max(S) \in 1..N /\ S \ {Max(S)} \in SUBSET (1..N)
        BY <1>1, <2>1, MaxIsGreatest
      <3>2. it[S \ {Max(S)}] \in Texts
        BY <3>1
      <3> QED BY <1>4, <3>1, <3>2
    <2> QED BY <1>5, <2>1 DEF Folds
  <1>7. Is(c)
    BY <1>6
  <1> HIDE DEF c
  <1>8. c[{}] = a
    BY <1>7
  <1>9. ASSUME NEW k \in 1..N PROVE c[1..k] = Topped(c[1..(k - 1)], s[k])
    <2>1. 1..k \in SUBSET (1..N) /\ 1..k # {} /\ Max(1..k) = k /\ (1..k) \ {Max(1..k)} = 1..(k - 1)
      BY <1>1, Beginnings
    <2> QED BY <1>7, <2>1
  <1>10. c[1..1] = Topped(c[1..0], s[1]) /\ c[1..2] = Topped(c[1..1], s[2])
    <2>1. 1 \in 1..N /\ 2 \in 1..N /\ 1 - 1 = 0 /\ 2 - 1 = 1
      BY DEF N
    <2> QED BY <1>9, <2>1
  <1>11. 1..0 = {} /\ s[1] = ls /\ s[2] = d.lines /\ N = 2
    BY DEF s, N
  <1> QED BY <1>3, <1>8, <1>10, <1>11 DEF a, OgParts

LEMMA MinimumType ==
  ASSUME NEW d, d.lines \in Texts, NEW ls \in Texts, NEW og
  PROVE  Minimum(d, ls, og) \in Texts
  <1>1. Topped(OgParts(d, og), ls) \in Texts
    BY OgType, ToppedType
  <1> QED BY <1>1, MinimumIs, ToppedType

\* What is topped up has ten tokens if the lines have as many in lines worth adding: either all
\* of those were added, or half of the budget was reached.
LEMMA ToppedEnough ==
  ASSUME NEW parts, DenseText(parts), NEW lines, DenseText(lines), MaxTokens >= 80
  PROVE  /\ DenseText(Topped(parts, lines))
         /\ Substance(lines) >= 10 => Tokens(Topped(parts, lines)) >= 10
  <1> DEFINE n == Len(lines)
             budget == Budget(lines, 10, 300, MaxTokens \div 2, 100)
             w == [i \in DOMAIN lines |-> IF lines[i].len > 10 THEN lines[i].tok ELSE 0]
             T == [parts : Texts, full : BOOLEAN]
  <1>1. /\ parts \in Texts /\ lines \in Texts /\ n \in Nat /\ DOMAIN lines = 1..n
        /\ \A k \in 1..n : lines[k] \in Line /\ lines[k].tok \in Nat /\ Dense(lines[k])
    <2>1. parts \in Texts /\ lines \in Texts /\ \A k \in 1..n : Dense(lines[k])
      BY DEF DenseText
    <2>2. n \in Nat /\ DOMAIN lines = 1..n /\ \A k \in 1..n : lines[k] \in Line
      BY <2>1, TextsTypes
    <2>3. \A l \in Line : l.tok \in Nat
      BY DEF Line
    <2> QED BY <2>1, <2>2, <2>3
  <1>2. PICK f \in [0..n -> T] :
          /\ f[0] = [parts |-> parts, full |-> FALSE]
          /\ \A k \in 1..n : f[k] = AddLine(f[k - 1], lines[k], budget)
          /\ Topped(parts, lines) = IF Tokens(parts) >= MCG_MIN_TOKENS THEN parts ELSE f[n].parts
    BY <1>1, ToppedSteps
  <1>3. HalfBudget \in Nat /\ HalfBudget >= 60 /\ budget \in Int /\ budget >= HalfBudget
    <2> DEFINE half == MaxTokens \div 2
    <2>1. half \in Nat
      BY ContextAssumption
    <2>2. 300 \in Nat /\ 300 > 0 /\ 100 \in Nat /\ lines \in Seq(Line)
      BY <1>1 DEF Texts
    <2> HIDE DEF half
    <2>3. Budget(lines, 10, 300, half, 100) \in Int /\ Budget(lines, 10, 300, half, 100) >= Floor(half, 100)
      BY <2>1, <2>2, BudgetType
    <2> QED BY <2>3, HalfBudgetType DEF HalfBudget, half
  <1> HIDE DEF budget
  <1>4. w \in Seq(Nat) /\ Len(w) = n /\ \A k \in 1..n : w[k] = IF lines[k].len > 10 THEN lines[k].tok ELSE 0
    BY <1>1
  <1>5. SumOf(w) = Substance(lines)
    BY DEF Substance
  <1> HIDE DEF w
  <1>6. PICK g \in [0..n -> Nat] : g[0] = 0 /\ g[n] = SumOf(w) /\ \A k \in 1..n : g[k] = g[k - 1] + w[k]
    BY <1>4, SumSteps
  <1> HIDE DEF n
  <1> DEFINE Good(s, k) == /\ DenseText(s.parts)
                           /\ s.full => Chars(s.parts) >= budget
                           /\ ~s.full => Tokens(s.parts) >= g[k]
             Bad == {k \in 0..n : ~Good(f[k], k)}
  <1>7. Good(f[0], 0)
    <2>1. Tokens(parts) \in Nat
      BY <1>1, TokensType DEF Texts
    <2> QED BY <1>2, <1>6, <2>1
  <1>8. ASSUME NEW k \in 1..n, NEW s \in T, Good(s, k - 1)
        PROVE  Good(AddLine(s, lines[k], budget), k)
    <2> DEFINE p == IF lines[k].len > 10 THEN Append(s.parts, lines[k]) ELSE s.parts
    <2>1. CASE s.full
      BY <1>8, <2>1 DEF AddLine
    <2>2. CASE ~s.full
      <3>1. AddLine(s, lines[k], budget) = [parts |-> p, full |-> Chars(p) >= budget]
        BY <2>2 DEF AddLine
      <3>2. DenseText(p)
        BY <1>1, <1>8, DenseAppend
      <3>3. Tokens(p) >= g[k]
        <4>1. g[k] = g[k - 1] + w[k] /\ g[k - 1] \in Nat /\ Tokens(s.parts) >= g[k - 1] /\ Tokens(s.parts) \in Nat
          <5>1. k - 1 \in 0..n
            BY <1>1
          <5>2. Tokens(s.parts) \in Nat
            BY <1>8, TokensType DEF DenseText, Texts
          <5> QED BY <1>6, <1>8, <2>2, <5>1, <5>2
        <4>2. CASE lines[k].len > 10
          <5>1. Tokens(p) = Tokens(s.parts) + lines[k].tok
            BY <1>1, <1>8, <4>2, TokensAppend DEF DenseText, Texts
          <5> QED BY <1>1, <1>4, <4>1, <4>2, <5>1
        <4>3. CASE ~(lines[k].len > 10)
          BY <1>4, <4>1, <4>3
        <4> QED BY <4>2, <4>3
      <3> HIDE DEF p
      <3> DEFINE r == AddLine(s, lines[k], budget)
      <3>4. r.parts = p /\ (r.full => Chars(p) >= budget)
        <4> DEFINE reached == Chars(p) >= budget
        <4>1. r = [parts |-> p, full |-> reached]
          BY <3>1
        <4> HIDE DEF r, reached
        <4>2. r.parts = p /\ r.full = reached
          BY <4>1
        <4> QED BY <4>2, Zenon DEF reached
      <3> HIDE DEF r
      <3>5. Good(r, k)
        BY <3>2, <3>3, <3>4
      <3> QED BY <3>5 DEF r
    <2> QED BY <2>1, <2>2
  <1>9. Bad = {}
    <2> SUFFICES ASSUME Bad # {} PROVE FALSE
      OBVIOUS
    <2>1. PICK m \in Bad : \A k \in Bad : m <= k
      <3>1. Bad \in SUBSET Nat
        BY <1>1
      <3> QED BY <3>1, LeastExists
    <2>2. m \in 0..n /\ ~Good(f[m], m)
      BY Zenon
    <2>3. m # 0
      BY <1>7, <2>2
    <2>4. m \in 1..n /\ m - 1 \in 0..n /\ ~(m <= m - 1)
      BY <1>1, <2>2, <2>3
    <2>5. Good(f[m - 1], m - 1)
      BY <2>1, <2>4, Zenon
    <2>6. f[m - 1] \in T /\ f[m] = AddLine(f[m - 1], lines[m], budget)
      BY <1>2, <2>4
    <2> HIDE DEF Good
    <2> QED BY <1>8, <2>2, <2>4, <2>5, <2>6
  <1>10. Good(f[n], n)
    <2>1. n \in 0..n
      BY <1>1
    <2> QED BY <1>9, <2>1, Zenon
  <1>11. Substance(lines) >= 10 => Tokens(f[n].parts) >= 10
    <2> DEFINE x == Tokens(f[n].parts)
               y == Chars(f[n].parts)
               h == HalfBudget
    <2>1. x \in Nat /\ y \in Nat /\ 10 * y <= h * x
      BY <1>10, DenseSum, TokensType DEF DenseText, Texts, MCG_MIN_TOKENS
    <2>2. f[n].full => y >= budget
      BY <1>10
    <2>3. ~f[n].full => x >= Substance(lines)
      BY <1>5, <1>6, <1>10
    <2>4. Substance(lines) \in Nat
      <3>1. n \in 0..n
        BY <1>1
      <3> QED BY <1>5, <1>6, <3>1
    <2> HIDE DEF x, y, h
    <2>5. h \in Nat /\ h >= 60 /\ budget >= h /\ budget \in Int
      BY <1>3 DEF h
    <2>6. ASSUME f[n].full, ~(x >= 10) PROVE FALSE
      <3>1. x \in 0..9
        BY <2>1, <2>6
      <3>2. h * x <= h * 9
        BY <2>5, <3>1
      <3>3. 10 * y >= 10 * h
        BY <2>1, <2>2, <2>5, <2>6
      <3> QED BY <2>1, <2>5, <3>2, <3>3
    <2> QED BY <2>3, <2>4, <2>1, <2>6 DEF x
  <1> QED BY <1>2, <1>10, <1>11 DEF MCG_MIN_TOKENS

-----------------------------------------------------------------------------
(***************************************************************************)
(* PrunedContext: the call.                                                 *)
(***************************************************************************)
Room == MaxTokens + (IF context.paged THEN PagesLine.tok ELSE 0)

ContextInv ==
  /\ DOMAIN context = {"at", "doc", "type", "pruned", "name", "lines", "budget", "paged", "parts"}
  /\ context.at # "idle" => Sound(context.doc) /\ context.lines \in Texts /\ context.budget \in Int
  /\ context.at = "read" => context.name \in Names
  /\ context.at \in {"cut", "check", "done"} => context.parts \in Texts
  /\ context.at \in {"check", "done"} => Tokens(context.parts) <= Room

LEMMA DocumentsAreSound ==
  ASSUME NEW d \in Documents
  PROVE  Sound(d) /\ Sound([d EXCEPT !.meta = {}, !.items = 0])
  <1>1. d \in Document
    BY ContextAssumption
  <1> DEFINE e == [d EXCEPT !.meta = {}, !.items = 0]
  <1>2. /\ d.lines \in Texts /\ d.meta \in SUBSET MetaFields /\ d.items \in Nat /\ d.selects \in Nat
        /\ DOMAIN d = {"lines", "meta", "items", "priced", "selects", "og", "paged", "articles", "long"}
    BY <1>1 DEF Document, Texts
  <1>3. e.lines = d.lines /\ e.meta = {} /\ e.items = 0 /\ e.selects = d.selects
    BY <1>2
  <1> HIDE DEF e
  <1>4. Sound(e)
    BY <1>2, <1>3 DEF Sound
  <1> QED BY <1>2, <1>4 DEF Sound, e

LEMMA ContextInvStep == ContextInv /\ [ContextNext]_context => ContextInv'
  <1> SUFFICES ASSUME ContextInv, [ContextNext]_context PROVE ContextInv'
    OBVIOUS
  <1> DEFINE Fields == {"at", "doc", "type", "pruned", "name", "lines", "budget", "paged", "parts"}
  <1>1. DOMAIN context = Fields
    BY DEF ContextInv
  <1>2. MaxTokens \in Nat
    BY ContextAssumption
  <1>3. CASE CallBuild
    <2>1. PICK d \in Documents, r \in Requests, pruned \in BOOLEAN, extracted \in BOOLEAN :
            LET ls == IF pruned THEN Only(d.lines, LAMBDA l : ~l.dropped) ELSE d.lines
                name == Compressor(d, r[1], r[2], ls, pruned)
            IN context' = [context EXCEPT !.at = "read", !.type = r[1], !.pruned = pruned, !.name = name, !.lines = ls,
                             !.doc = IF pruned /\ extracted THEN d ELSE [d EXCEPT !.meta = {}, !.items = 0],
                             !.budget = Budget(ls, Sampled(name).min, Sampled(name).cut, MaxTokens, Sampled(name).percent)]
      BY <1>3, Zenon DEF CallBuild
    <2> DEFINE ls == IF pruned THEN Only(d.lines, LAMBDA l : ~l.dropped) ELSE d.lines
               name == Compressor(d, r[1], r[2], ls, pruned)
               doc == IF pruned /\ extracted THEN d ELSE [d EXCEPT !.meta = {}, !.items = 0]
               budget == Budget(ls, Sampled(name).min, Sampled(name).cut, MaxTokens, Sampled(name).percent)
    <2>2. ls \in Texts
      <3>1. d.lines \in Texts
        BY DocumentsAreSound DEF Sound
      <3> QED BY <3>1, TextsTypes DEF Only
    <2> HIDE DEF ls
    <2>3. name \in Names
      BY CompressorNames
    <2> HIDE DEF name
    <2>4. Sound(doc)
      BY DocumentsAreSound
    <2> HIDE DEF doc
    <2>5. budget \in Int
      <3>1. Sampled(name).cut \in Nat /\ Sampled(name).cut > 0 /\ Sampled(name).percent \in Nat
        BY DEF Sampled
      <3> QED BY <1>2, <2>2, <3>1, BudgetType DEF Texts
    <2> HIDE DEF budget
    <2>6. /\ DOMAIN context' = Fields /\ context'.at = "read" /\ context'.doc = doc /\ context'.lines = ls
          /\ context'.budget = budget /\ context'.name = name
      BY <1>1, <2>1 DEF ls, name, doc, budget
    <2> HIDE DEF Fields
    <2> QED BY <2>2, <2>3, <2>4, <2>5, <2>6 DEF ContextInv, Fields
  <1>4. CASE ReadLines
    <2> DEFINE ls == context.lines
               chunks == IF context.pruned THEN Only(ls, LAMBDA l : l.chunk # "none") ELSE <<>>
               reading == Compressed(context.name, context.doc, ls, chunks, context.pruned, context.budget)
               parts == Sections(reading, context.budget)
    <2>1. /\ Sound(context.doc) /\ ls \in Texts /\ context.budget \in Int /\ context.name \in Names
          /\ context' = [context EXCEPT !.at = "cut", !.parts = parts]
      BY <1>4 DEF ReadLines, ContextInv
    <2>2. chunks \in Texts
      BY <2>1, TextsTypes DEF Only
    <2> HIDE DEF chunks
    <2>3. Reads(reading)
      BY <2>1, <2>2, CompressedReads
    <2> HIDE DEF reading
    <2>4. parts \in Texts
      BY <2>1, <2>3, SectionsType
    <2> HIDE DEF parts
    <2>5. /\ DOMAIN context' = Fields /\ context'.at = "cut" /\ context'.doc = context.doc /\ context'.lines = ls
          /\ context'.budget = context.budget /\ context'.parts = parts
      BY <1>1, <2>1
    <2> HIDE DEF Fields
    <2> QED BY <2>1, <2>4, <2>5 DEF ContextInv, Fields
  <1>5. CASE Fallback
    <2> DEFINE reading == Reading(<<>>, Default(context.lines))
               budget == Budget(context.lines, 5, 300, MaxTokens, 95)
               parts == Sections(reading, budget)
    <2>1. /\ Sound(context.doc) /\ context.lines \in Texts /\ context.budget \in Int /\ context.at = "cut"
          /\ context' = [context EXCEPT !.name = "default", !.parts = parts]
      BY <1>5 DEF Fallback, ContextInv
    <2>2. Reads(reading)
      BY <2>1, SimpleReads
    <2> HIDE DEF reading
    <2>3. budget \in Int
      BY <1>2, <2>1, BudgetType DEF Texts
    <2> HIDE DEF budget
    <2>4. parts \in Texts
      BY <2>2, <2>3, SectionsType
    <2> HIDE DEF parts
    <2>5. /\ DOMAIN context' = Fields /\ context'.at = "cut" /\ context'.doc = context.doc
          /\ context'.lines = context.lines /\ context'.budget = context.budget /\ context'.parts = parts
      BY <1>1, <2>1
    <2> HIDE DEF Fields
    <2> QED BY <2>1, <2>4, <2>5 DEF ContextInv, Fields
  <1>6. CASE CutToBudget
    <2> DEFINE paged == context.type \in {"listing", "search_results"} /\ context.doc.paged
               text == Truncated(context.parts)
               parts == IF paged THEN Append(text, PagesLine) ELSE text
    <2>1. /\ Sound(context.doc) /\ context.lines \in Texts /\ context.budget \in Int /\ context.parts \in Texts
          /\ context' = [context EXCEPT !.at = "check", !.paged = paged, !.parts = parts]
      BY <1>6 DEF CutToBudget, ContextInv
    <2>2. text \in Seq(Line) /\ Tokens(text) <= MaxTokens
      BY <2>1, TruncatedFits DEF Texts
    <2> HIDE DEF text, paged
    <2>3. PagesLine \in Line
      <3>1. 6 \in Nat /\ 6 > 0
        OBVIOUS
      <3> QED BY <3>1, MadeType DEF PagesLine
    <2>4. Append(text, PagesLine) \in Texts /\ Tokens(Append(text, PagesLine)) = Tokens(text) + PagesLine.tok
      BY <2>2, <2>3, TokensAppend DEF Texts
    <2>5. PagesLine.tok \in Nat /\ Tokens(text) \in Nat
      BY <2>2, <2>3, TokensType DEF Line
    <2>6. parts \in Texts /\ Tokens(parts) <= MaxTokens + (IF paged THEN PagesLine.tok ELSE 0)
      BY <1>2, <2>2, <2>4, <2>5 DEF Texts
    <2> HIDE DEF parts
    <2>7. /\ DOMAIN context' = Fields /\ context'.at = "check" /\ context'.doc = context.doc /\ context'.paged = paged
          /\ context'.lines = context.lines /\ context'.budget = context.budget /\ context'.parts = parts
      BY <1>1, <2>1
    <2> HIDE DEF Fields
    <2> QED BY <2>1, <2>6, <2>7 DEF ContextInv, Room, Fields
  <1>7. CASE GuaranteeMinimum
    <2> DEFINE short == /\ Tokens(context.parts) < MCG_MIN_TOKENS
                        /\ context.type \notin MCG_SKIP_TYPES
                        /\ context.doc.long
               text == Minimum(context.doc, context.lines, context.pruned)
               parts == IF short THEN Truncated(text) ELSE context.parts
    <2>1. /\ Sound(context.doc) /\ context.lines \in Texts /\ context.budget \in Int
          /\ context.parts \in Texts /\ Tokens(context.parts) <= Room
          /\ context' = [context EXCEPT !.at = "done", !.paged = @ /\ ~short, !.parts = parts]
      BY <1>7 DEF GuaranteeMinimum, ContextInv
    <2>2. text \in Texts
      BY <2>1, MinimumType DEF Sound
    <2> HIDE DEF text
    <2>3. Truncated(text) \in Texts /\ Tokens(Truncated(text)) <= MaxTokens
      BY <2>2, TruncatedFits DEF Texts
    <2> DEFINE paged == context.paged /\ ~short
    <2> HIDE DEF short
    <2>4. parts \in Texts /\ Tokens(parts) <= MaxTokens + (IF paged THEN PagesLine.tok ELSE 0)
      BY <1>2, <2>1, <2>3 DEF Room
    <2> HIDE DEF parts
    <2>5. /\ DOMAIN context' = Fields /\ context'.at = "done" /\ context'.doc = context.doc /\ context'.paged = paged
          /\ context'.lines = context.lines /\ context'.budget = context.budget /\ context'.parts = parts
      BY <1>1, <2>1
    <2> HIDE DEF Fields, paged
    <2> QED BY <2>1, <2>4, <2>5 DEF ContextInv, Room, Fields
  <1>8. CASE UNCHANGED context
    BY <1>8 DEF ContextInv, Room
  <1> QED BY <1>3, <1>4, <1>5, <1>6, <1>7, <1>8 DEF ContextNext

\* However a page is compressed, and whatever its estimate of characters per token, the text is
\* within the budget, but for the line on pagination: the text of every compressor and that of
\* the minimum content guarantee go through _truncate_to_tokens (core/pruned_context_builder.py).
THEOREM ContextFitsBudget == ContextSpec => []ContextWithinBudget
  <1>1. ContextInit => ContextInv
    BY DEF ContextInit, ContextInv
  <1>2. ContextInv => ContextWithinBudget
    BY DEF ContextInv, ContextWithinBudget, Room
  <1> QED BY <1>1, <1>2, ContextInvStep, PTL DEF ContextSpec

-----------------------------------------------------------------------------
(***************************************************************************)
(* PrunedContext: the minimum content.                                      *)
(***************************************************************************)
FromPage(ls, lines) == \A i \in DOMAIN ls : \E j \in DOMAIN lines : ls[i] = lines[j]

\* What a compressor read is of the page, so that a guarantee for the lines of the page holds
\* for the pruned ones too.
MinimumInv == MinimumContent /\ (context.at # "idle" => FromPage(context.lines, context.doc.lines))

LEMMA PickedFrom ==
  ASSUME NEW s \in Texts, NEW P \in SUBSET (DOMAIN s)
  PROVE  FromPage(Picked(s, P), s)
  <1>1. P \in SUBSET Nat /\ IsFiniteSet(P)
    <2> DEFINE n == Len(s)
    <2>1. DOMAIN s = 1..n /\ n \in Nat
      BY TextsTypes
    <2> HIDE DEF n
    <2>2. IsFiniteSet(1..n)
      BY <2>1, FS_Interval
    <2> QED BY <2>1, <2>2, FS_Subset
  <1> DEFINE o == InOrder(P)
  <1>2. \A k \in DOMAIN o : o[k] \in P
    <2>1. o \in Seq(P)
      BY <1>1, InOrderLists
    <2> HIDE DEF o
    <2> QED BY <2>1
  <1>3. Picked(s, P) = [k \in DOMAIN o |-> s[o[k]]]
    BY DEF Picked
  <1> HIDE DEF o
  <1> QED BY <1>2, <1>3 DEF FromPage

\* A text that is long enough stays so when it is cut to the budget.
LEMMA TruncatedKeeps ==
  ASSUME NEW s \in Texts, Tokens(s) >= 10, MaxTokens >= 10
  PROVE  Tokens(Truncated(s)) >= 10
  <1>1. Truncated(s) = s \/ Tokens(Truncated(s)) = MaxTokens
    BY TruncatedFits DEF Texts
  <1> QED BY <1>1

LEMMA MinimumEnough ==
  ASSUME NEW d, DenseText(d.lines), NEW ls \in Texts, FromPage(ls, d.lines), NEW og, MaxTokens >= 80,
         Substance(d.lines) >= 10
  PROVE  Tokens(Truncated(Minimum(d, ls, og))) >= 10
  <1> DEFINE first == Topped(OgParts(d, og), ls)
  <1>1. DenseText(ls)
    <2>1. DOMAIN ls = 1..Len(ls) /\ DOMAIN d.lines = 1..Len(d.lines)
      BY TextsTypes DEF DenseText
    <2> QED BY <2>1 DEF DenseText, FromPage
  <1>2. DenseText(OgParts(d, og))
    <2>1. Dense(Made(2)) /\ Dense(Made(4))
      <3>1. HalfBudget \in Nat /\ HalfBudget >= 60
        BY HalfBudgetType
      <3>2. Cost(Made(2)) = 11 /\ Made(2).tok = 2 /\ Cost(Made(4)) = 21 /\ Made(4).tok = 4
        BY DEF Made, Cost
      <3> QED BY <3>1, <3>2 DEF Dense, MCG_MIN_TOKENS
    <2>2. OgParts(d, og) \in Texts
      BY OgType
    <2>3. CASE OgParts(d, og) = <<>>
      BY <2>2, <2>3 DEF DenseText
    <2>4. CASE OgParts(d, og) = <<Made(2), Made(4)>>
      BY <2>1, <2>2, <2>4 DEF DenseText
    <2> QED BY <2>3, <2>4 DEF OgParts
  <1>3. DenseText(first)
    BY <1>1, <1>2, ToppedEnough
  <1> HIDE DEF first
  <1>4. DenseText(Topped(first, d.lines)) /\ Tokens(Topped(first, d.lines)) >= 10
    BY <1>3, ToppedEnough
  <1>5. Minimum(d, ls, og) = Topped(first, d.lines)
    BY MinimumIs DEF first, DenseText
  <1>6. MaxTokens >= 10
    BY ContextAssumption
  <1>7. Tokens(Truncated(Topped(first, d.lines))) >= 10
    BY <1>4, <1>6, TruncatedKeeps DEF DenseText
  <1> QED BY <1>5, <1>7

LEMMA MinimumInvStep == ContextInv /\ MinimumInv /\ [ContextNext]_context => MinimumInv'
  <1> SUFFICES ASSUME ContextInv, MinimumInv, [ContextNext]_context PROVE MinimumInv'
    OBVIOUS
  <1> DEFINE Fields == {"at", "doc", "type", "pruned", "name", "lines", "budget", "paged", "parts"}
  <1>1. DOMAIN context = Fields
    BY DEF ContextInv
  <1>2. ASSUME context'.at \in {"cut", "check"}, context.at # "idle",
               context'.lines = context.lines, context'.doc = context.doc
        PROVE  MinimumInv'
    BY <1>2 DEF MinimumInv, MinimumContent
  <1>3. CASE CallBuild
    <2>1. PICK d \in Documents, r \in Requests, pruned \in BOOLEAN, extracted \in BOOLEAN :
            LET ls == IF pruned THEN Only(d.lines, LAMBDA l : ~l.dropped) ELSE d.lines
                name == Compressor(d, r[1], r[2], ls, pruned)
            IN context' = [context EXCEPT !.at = "read", !.type = r[1], !.pruned = pruned, !.name = name, !.lines = ls,
                             !.doc = IF pruned /\ extracted THEN d ELSE [d EXCEPT !.meta = {}, !.items = 0],
                             !.budget = Budget(ls, Sampled(name).min, Sampled(name).cut, MaxTokens, Sampled(name).percent)]
      BY <1>3, Zenon DEF CallBuild
    <2> DEFINE ls == IF pruned THEN Only(d.lines, LAMBDA l : ~l.dropped) ELSE d.lines
               doc == IF pruned /\ extracted THEN d ELSE [d EXCEPT !.meta = {}, !.items = 0]
    <2>2. context'.at = "read" /\ context'.lines = ls /\ context'.doc = doc
      BY <1>1, <2>1
    <2>3. d \in Document /\ d.lines \in Texts
      BY ContextAssumption, DocumentsAreSound DEF Sound
    <2>4. doc.lines = d.lines
      BY <2>3 DEF Document
    <2>5. FromPage(ls, d.lines)
      <3>1. CASE pruned
        BY <2>3, <3>1, PickedFrom DEF Only
      <3>2. CASE ~pruned
        BY <3>2 DEF FromPage
      <3> QED BY <3>1, <3>2
    <2> HIDE DEF ls, doc
    <2> QED BY <2>2, <2>4, <2>5 DEF MinimumInv, MinimumContent
  <1>4. CASE ReadLines
    <2>1. /\ context'.at = "cut" /\ context'.lines = context.lines /\ context'.doc = context.doc
          /\ context.at # "idle"
      BY <1>1, <1>4 DEF ReadLines
    <2> QED BY <1>2, <2>1
  <1>5. CASE Fallback
    <2>1. /\ context'.at = "cut" /\ context'.lines = context.lines /\ context'.doc = context.doc
          /\ context.at # "idle"
      BY <1>1, <1>5 DEF Fallback
    <2> QED BY <1>2, <2>1
  <1>6. CASE CutToBudget
    <2>1. /\ context'.at = "check" /\ context'.lines = context.lines /\ context'.doc = context.doc
          /\ context.at # "idle"
      BY <1>1, <1>6 DEF CutToBudget
    <2> QED BY <1>2, <2>1
  <1>7. CASE GuaranteeMinimum
    <2> DEFINE short == /\ Tokens(context.parts) < MCG_MIN_TOKENS
                        /\ context.type \notin MCG_SKIP_TYPES
                        /\ context.doc.long
               text == Truncated(Minimum(context.doc, context.lines, context.pruned))
               parts == IF short THEN text ELSE context.parts
    <2>1. /\ context.doc.lines \in Texts /\ context.lines \in Texts /\ context.parts \in Texts
          /\ FromPage(context.lines, context.doc.lines)
          /\ context' = [context EXCEPT !.at = "done", !.paged = @ /\ ~short, !.parts = parts]
      BY <1>7 DEF GuaranteeMinimum, ContextInv, Sound, MinimumInv
    <2>2. /\ context'.lines = context.lines /\ context'.doc = context.doc /\ context'.type = context.type
          /\ context'.parts = parts
      BY <1>1, <2>1
    <2>3. ASSUME context.type \notin MCG_SKIP_TYPES, context.doc.long, MaxTokens >= 80,
                 \A i \in DOMAIN context.doc.lines : Dense(context.doc.lines[i]),
                 Substance(context.doc.lines) >= MCG_MIN_TOKENS
          PROVE  Tokens(parts) >= MCG_MIN_TOKENS
      <3>1. CASE short
        <4>1. DenseText(context.doc.lines)
          <5>1. DOMAIN context.doc.lines = 1..Len(context.doc.lines)
            BY <2>1, TextsTypes
          <5> QED BY <2>1, <2>3, <5>1 DEF DenseText
        <4>2. Tokens(text) >= 10
          BY <2>1, <2>3, <4>1, MinimumEnough DEF MCG_MIN_TOKENS
        <4> QED BY <3>1, <4>2 DEF MCG_MIN_TOKENS
      <3>2. CASE ~short
        <4>1. Tokens(context.parts) \in Nat
          BY <2>1, TokensType DEF Texts
        <4> QED BY <2>3, <3>2, <4>1 DEF MCG_MIN_TOKENS
      <3> QED BY <3>1, <3>2
    <2> HIDE DEF parts
    <2> QED BY <2>1, <2>2, <2>3 DEF MinimumInv, MinimumContent
  <1>8. CASE UNCHANGED context
    BY <1>8 DEF MinimumInv, MinimumContent
  <1> QED BY <1>3, <1>4, <1>5, <1>6, <1>7, <1>8 DEF ContextNext

\* However a page is compressed, pruned or failed to be, a page of some length whose own lines
\* have ten tokens comes out with ten: where a compressor finds nothing of its kind, and pruning
\* drops every line, the guarantee adds OG data, pruned and then raw lines, and the cut that
\* follows it cannot take them back (_extract_minimum_content, core/pruned_context_builder.py).
THEOREM ContextKeepsMinimum == ContextSpec => []MinimumContent
  <1>1. ContextInit => ContextInv /\ MinimumInv
    BY DEF ContextInit, ContextInv, MinimumInv, MinimumContent
  <1>2. MinimumInv => MinimumContent
    BY DEF MinimumInv
  <1> QED BY <1>1, <1>2, ContextInvStep, MinimumInvStep, PTL DEF ContextSpec

=============================================================================
