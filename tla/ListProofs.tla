----------------------------- MODULE ListProofs -----------------------------
(***************************************************************************)
(* Lemmas on what the agents' algorithms are built from: a stable order, a *)
(* selection, sums, the least and the greatest of a set, and induction     *)
(* over the naturals as a fact about sets.                                 *)
(***************************************************************************)
EXTENDS StableOrder, SequencesExt, FiniteSetsExt, FiniteSetTheorems, SequenceTheorems,
        WellFoundedInduction, TLAPS

-----------------------------------------------------------------------------
(* Naturals *)

LEMMA SmallestExists ==
    ASSUME NEW T, T \subseteq Nat, T # {}
    PROVE  \E d \in T : \A e \in T : d <= e
<1>1. IsWellFoundedOn(OpToRel(<, Nat), Nat)
  BY NatLessThanWellFounded
<1>2. PICK d \in T : \A e \in T : <<e, d>> \notin OpToRel(<, Nat)
  BY <1>1, WFMin
<1>3. \A e \in T : ~(e < d)
  BY <1>2 DEF OpToRel
<1> QED BY <1>3

(* A set that has 0 and the successor of each of its members up to a bound *)
(* has all up to the bound.                                                *)
LEMMA UpTo ==
    ASSUME NEW b \in Nat, NEW S, 0 \in S, \A n \in 0..(b - 1) : n \in S => n + 1 \in S
    PROVE  0..b \subseteq S
<1> SUFFICES ASSUME ~(0..b \subseteq S) PROVE FALSE
  OBVIOUS
<1> DEFINE T == (0..b) \ S
<1>1. T \subseteq Nat /\ T # {}
  OBVIOUS
<1>2. PICK d \in T : \A e \in T : d <= e
  BY <1>1, SmallestExists
<1>3. d # 0 /\ d - 1 \in 0..(b - 1) /\ d - 1 \notin T
  BY <1>2
<1>4. d - 1 \in S
  BY <1>3
<1> QED BY <1>2, <1>3, <1>4

(* The least and the greatest of what lies between two bounds.             *)
LEMMA LeastIs ==
    ASSUME NEW a \in Int, NEW b \in Int, NEW S, S \subseteq a..b, S # {}
    PROVE  Min(S) \in S /\ \A y \in S : Min(S) <= y
<1> DEFINE T == {x - a : x \in S}
<1>1. T \subseteq Nat /\ T # {}
  <2>1. \A x \in S : x - a \in Nat
    OBVIOUS
  <2>2. PICK x \in S : TRUE
    OBVIOUS
  <2>3. x - a \in T
    BY <2>2
  <2> QED BY <2>1, <2>3
<1>2. PICK d \in T : \A e \in T : d <= e
  BY <1>1, SmallestExists
<1>3. PICK m \in S : d = m - a
  BY <1>2
<1>4. \A y \in S : m <= y
  <2> SUFFICES ASSUME NEW y \in S PROVE m <= y
    OBVIOUS
  <2>1. y - a \in T
    OBVIOUS
  <2>2. m - a <= y - a
    BY <2>1, <1>2, <1>3
  <2> QED BY <2>2
<1>5. Min(S) \in S /\ \A y \in S : Min(S) <= y
  BY <1>4 DEF Min
<1> QED BY <1>5

LEMMA GreatestIs ==
    ASSUME NEW a \in Int, NEW b \in Int, NEW S, S \subseteq a..b, S # {}
    PROVE  Max(S) \in S /\ \A y \in S : y <= Max(S)
<1> DEFINE T == {b - x : x \in S}
<1>1. T \subseteq Nat /\ T # {}
  <2>1. \A x \in S : b - x \in Nat
    OBVIOUS
  <2>2. PICK x \in S : TRUE
    OBVIOUS
  <2>3. b - x \in T
    BY <2>2
  <2> QED BY <2>1, <2>3
<1>2. PICK d \in T : \A e \in T : d <= e
  BY <1>1, SmallestExists
<1>3. PICK m \in S : d = b - m
  BY <1>2
<1>4. \A y \in S : y <= m
  <2> SUFFICES ASSUME NEW y \in S PROVE y <= m
    OBVIOUS
  <2>1. b - y \in T
    OBVIOUS
  <2>2. b - m <= b - y
    BY <2>1, <1>2, <1>3
  <2> QED BY <2>2
<1>5. Max(S) \in S /\ \A y \in S : Max(S) >= y
  BY <1>4 DEF Max
<1> QED BY <1>5

LEMMA GreatestUpTo ==
    ASSUME NEW b \in Nat, NEW S, S \subseteq 0..b, S # {}
    PROVE  Max(S) \in S /\ \A y \in S : y <= Max(S)
<1>1. PICK a \in Int, c \in Int : a = 0 /\ c = b
  OBVIOUS
<1>2. S \subseteq a..c
  BY <1>1
<1> QED BY <1>2, GreatestIs

-----------------------------------------------------------------------------
(* Orders *)

IsInOrder(o, keys) ==
    /\ Cardinality(DOMAIN keys) \in Nat
    /\ o \in [1..Cardinality(DOMAIN keys) -> DOMAIN keys]
    /\ \A j, k \in 1..Cardinality(DOMAIN keys) : j < k => Before(keys, o[j], o[k])
    /\ \A n \in DOMAIN keys : \E k \in 1..Cardinality(DOMAIN keys) : o[k] = n

(* Where the keys are numbers, each place comes once, and in their order:  *)
(* as many places are before a place as its own place says, and no two     *)
(* places have equally many before them.                                   *)
LEMMA OrderIs ==
    ASSUME NEW D, IsFiniteSet(D), D \subseteq Int, NEW keys \in [D -> Int]
    PROVE  IsInOrder(InOrder(keys), keys)
<1>0. /\ \A m \in D : ~Before(keys, m, m)
      /\ \A m, n \in D : m # n => Before(keys, m, n) \/ Before(keys, n, m)
      /\ \A l, m, n \in D : Before(keys, l, m) /\ Before(keys, m, n) => Before(keys, l, n)
  <2>1. \A m \in D : keys[m] \in Int /\ m \in Int
    OBVIOUS
  <2> QED BY <2>1 DEF Before
<1> DEFINE N == Cardinality(D)
           under(n) == {m \in D : Before(keys, m, n)}
           rank == [n \in D |-> Cardinality(under(n)) + 1]
<1>1. N \in Nat /\ DOMAIN keys = D
  BY FS_CardinalityType
<1>2. ASSUME NEW n \in D
      PROVE  /\ IsFiniteSet(under(n)) /\ Cardinality(under(n)) \in Nat
             /\ Cardinality(under(n)) + 1 <= N
  <2>1. under(n) \subseteq D \ {n}
    BY <1>0
  <2>2. IsFiniteSet(D \ {n}) /\ Cardinality(D \ {n}) = N - 1
    BY FS_RemoveElement
  <2>3. IsFiniteSet(under(n)) /\ Cardinality(under(n)) <= N - 1
    BY <2>1, <2>2, FS_Subset
  <2> QED BY <1>1, <2>3, FS_CardinalityType
<1>3. ASSUME NEW m \in D, NEW n \in D, Before(keys, m, n) PROVE rank[m] < rank[n]
  <2>1. under(m) \cup {m} \subseteq under(n) /\ m \notin under(m)
    BY <1>0, <1>3
  <2>2. IsFiniteSet(under(m) \cup {m}) /\ Cardinality(under(m) \cup {m}) = Cardinality(under(m)) + 1
    BY <1>2, <2>1, FS_AddElement
  <2>3. Cardinality(under(m)) + 1 <= Cardinality(under(n))
    BY <1>2, <2>1, <2>2, FS_Subset
  <2> QED BY <1>2, <2>3
<1>4. rank \in [D -> 1..N]
  BY <1>1, <1>2
<1>5. \A m, n \in D : rank[m] < rank[n] => Before(keys, m, n)
  <2> SUFFICES ASSUME NEW m \in D, NEW n \in D, rank[m] < rank[n] PROVE Before(keys, m, n)
    OBVIOUS
  <2> HIDE DEF rank
  <2>1. rank[m] \in Int /\ rank[n] \in Int
    BY <1>1, <1>4
  <2>2. ~(rank[n] < rank[m]) /\ m # n
    BY <2>1
  <2>3. ~Before(keys, n, m)
    BY <1>3, <2>2
  <2> QED BY <1>0, <2>2, <2>3
<1>6. rank \in Injection(D, 1..N)
  <2>1. ASSUME NEW m \in D, NEW n \in D, rank[m] = rank[n] PROVE m = n
    <3> HIDE DEF rank
    <3>1. rank[m] \in Int /\ rank[n] \in Int
      BY <1>1, <1>4
    <3>2. ~Before(keys, m, n) /\ ~Before(keys, n, m)
      BY <1>3, <2>1, <3>1
    <3> QED BY <1>0, <3>2
  <2> HIDE DEF rank
  <2> QED BY <1>4, <2>1 DEF Injection, IsInjective
<1>7. rank \in Surjection(D, 1..N)
  <2>1. IsFiniteSet(1..N) /\ Cardinality(1..N) = N
    BY <1>1, FS_Interval
  <2> QED BY <1>6, <2>1, FS_Injection
<1>8. \A k \in 1..N : \E n \in D : rank[n] = k
  <2> HIDE DEF rank
  <2> QED BY <1>7 DEF Surjection
<1>9. \A k \in 1..N : InOrder(keys)[k] \in D /\ rank[InOrder(keys)[k]] = k
  <2> SUFFICES ASSUME NEW k \in 1..N PROVE InOrder(keys)[k] \in D /\ rank[InOrder(keys)[k]] = k
    OBVIOUS
  <2>1. InOrder(keys)[k] = CHOOSE n \in D : Cardinality(under(n)) = k - 1
    BY <1>1 DEF InOrder
  <2>2. \E n \in D : Cardinality(under(n)) = k - 1
    BY <1>2, <1>8
  <2>3. InOrder(keys)[k] \in D /\ Cardinality(under(InOrder(keys)[k])) = k - 1
    BY <2>1, <2>2
  <2> QED BY <2>3
<1>10. InOrder(keys) \in [1..N -> D]
  BY <1>1, <1>9 DEF InOrder
<1> HIDE DEF rank
<1>11. \A j, k \in 1..N : j < k => Before(keys, InOrder(keys)[j], InOrder(keys)[k])
  BY <1>5, <1>9
<1>12. \A n \in D : \E k \in 1..N : InOrder(keys)[k] = n
  <2> SUFFICES ASSUME NEW n \in D PROVE InOrder(keys)[rank[n]] = n /\ rank[n] \in 1..N
    OBVIOUS
  <2>1. rank[n] \in 1..N
    BY <1>4
  <2>2. rank[InOrder(keys)[rank[n]]] = rank[n] /\ InOrder(keys)[rank[n]] \in D
    BY <1>9, <2>1
  <2> QED BY <1>6, <2>1, <2>2 DEF Injection, IsInjective
<1> QED BY <1>1, <1>10, <1>11, <1>12 DEF IsInOrder

(* A list of places in rising order, and all of a set of them.             *)
Enumerates(o, N, P) ==
    /\ N \in Nat /\ o \in [1..N -> P]
    /\ \A j, k \in 1..N : j < k => o[j] < o[k]
    /\ \A p \in P : \E k \in 1..N : o[k] = p

LEMMA KeptIs ==
    ASSUME NEW n \in Nat, NEW P, P \subseteq 1..n, NEW s
    PROVE  \E N, o : Enumerates(o, N, P) /\ N <= n /\ Kept(s, P) = At(s, o)
<1> DEFINE keys == [p \in P |-> 0]
           N == Cardinality(P)
           o == InOrder(keys)
<1>1. IsFiniteSet(P) /\ N \in Nat /\ N <= n
  <2>1. IsFiniteSet(1..n) /\ Cardinality(1..n) = n
    BY FS_Interval
  <2> QED BY <2>1, FS_Subset, FS_CardinalityType
<1>2. P \subseteq Int /\ keys \in [P -> Int] /\ DOMAIN keys = P
  OBVIOUS
<1>3. IsInOrder(o, keys)
  BY <1>1, <1>2, OrderIs
<1>4. /\ o \in [1..N -> P]
      /\ \A j, k \in 1..N : j < k => Before(keys, o[j], o[k])
      /\ \A p \in P : \E k \in 1..N : o[k] = p
  BY <1>2, <1>3 DEF IsInOrder
<1>5. \A j, k \in 1..N : j < k => o[j] < o[k]
  <2> SUFFICES ASSUME NEW j \in 1..N, NEW k \in 1..N, j < k PROVE o[j] < o[k]
    OBVIOUS
  <2>1. Before(keys, o[j], o[k]) /\ o[j] \in P /\ o[k] \in P
    BY <1>4
  <2>2. keys[o[j]] = 0 /\ keys[o[k]] = 0
    BY <2>1
  <2> QED BY <2>1, <2>2 DEF Before
<1>6. Kept(s, P) = At(s, o)
  BY DEF Kept
<1>7. Enumerates(o, N, P)
  BY <1>1, <1>4, <1>5 DEF Enumerates
<1> HIDE DEF keys, N, o
<1> QED BY <1>1, <1>6, <1>7

(* What a selection has and how much, and that it is a list.               *)
LEMMA KeptHas ==
    ASSUME NEW n \in Nat, NEW P, P \subseteq 1..n, NEW s, NEW S, \A p \in P : s[p] \in S
    PROVE  /\ Kept(s, P) \in Seq(S) /\ Len(Kept(s, P)) <= n /\ Len(Kept(s, P)) \in Nat
           /\ \A k \in 1..Len(Kept(s, P)) : \E p \in P : Kept(s, P)[k] = s[p]
           /\ \A p \in P : \E k \in 1..Len(Kept(s, P)) : Kept(s, P)[k] = s[p]
<1>1. PICK N, o : Enumerates(o, N, P) /\ N <= n /\ Kept(s, P) = At(s, o)
  BY KeptIs
<1>2. N \in Nat /\ o \in [1..N -> P]
  BY <1>1 DEF Enumerates
<1>3. \A k \in 1..N : o[k] \in P /\ s[o[k]] \in S
  BY <1>2
<1>4. Kept(s, P) \in Seq(S) /\ Len(Kept(s, P)) = N
  BY <1>1, <1>2, <1>3 DEF At
<1>5. \A k \in 1..N : Kept(s, P)[k] = s[o[k]]
  BY <1>1, <1>2 DEF At
<1>6. \A p \in P : \E k \in 1..N : o[k] = p
  BY <1>1 DEF Enumerates
<1>7. \A k \in 1..N : \E p \in P : Kept(s, P)[k] = s[p]
  BY <1>3, <1>5
<1>8. \A p \in P : \E k \in 1..N : Kept(s, P)[k] = s[p]
  BY <1>5, <1>6
<1> QED BY <1>1, <1>2, <1>4, <1>7, <1>8

(* A list in the order of its keys.                                        *)
Sorts(o, keys, n) ==
    /\ o \in [1..n -> 1..n]
    /\ \A j, k \in 1..n : j < k => Before(keys, o[j], o[k])
    /\ \A p \in 1..n : \E k \in 1..n : o[k] = p

LEMMA SortedIs ==
    ASSUME NEW n \in Nat, NEW keys \in [1..n -> Int], NEW s
    PROVE  \E o : Sorts(o, keys, n) /\ At(s, InOrder(keys)) = At(s, o)
<1>1. IsFiniteSet(1..n) /\ Cardinality(1..n) = n
  BY FS_Interval
<1>2. 1..n \subseteq Int /\ DOMAIN keys = 1..n
  OBVIOUS
<1>3. IsInOrder(InOrder(keys), keys)
  BY <1>1, <1>2, OrderIs
<1>4. InOrder(keys) \in [1..n -> 1..n] /\ DOMAIN InOrder(keys) = 1..n
  BY <1>1, <1>2, <1>3 DEF IsInOrder
<1>5. Sorts(InOrder(keys), keys, n)
  BY <1>1, <1>2, <1>3, <1>4 DEF IsInOrder, Sorts
<1> QED BY <1>5

-----------------------------------------------------------------------------
(* Lists *)

LEMMA ListOf == ASSUME NEW S, NEW s \in Seq(S) PROVE IsList(s)
<1>1. Len(s) \in Nat /\ DOMAIN s = 1..Len(s) /\ s = [n \in 1..Len(s) |-> s[n]]
  OBVIOUS
<1>2. \A n \in 1..Len(s) : s[n] \in {s[m] : m \in DOMAIN s}
  BY <1>1
<1> QED BY <1>1, <1>2 DEF IsList

LEMMA ListIs ==
    ASSUME NEW s, IsList(s)
    PROVE  /\ Len(s) \in Nat /\ DOMAIN s = 1..Len(s) /\ s \in Seq(ToSet(s))
           /\ \A n \in 1..Len(s) : s[n] \in ToSet(s)
<1>1. s \in Seq(ToSet(s))
  BY DEF IsList, ToSet
<1> QED BY <1>1

LEMMA ListFrom ==
    ASSUME NEW n \in Nat, NEW s, DOMAIN s = 1..n, s = [i \in 1..n |-> s[i]]
    PROVE  IsList(s) /\ Len(s) = n
<1>1. \A i \in 1..n : s[i] \in {s[m] : m \in DOMAIN s}
  OBVIOUS
<1>2. s \in Seq({s[m] : m \in DOMAIN s}) /\ Len(s) = n
  BY <1>1
<1> QED BY <1>2 DEF IsList

LEMMA AppendedIs ==
    ASSUME NEW s, IsList(s), NEW x
    PROVE  /\ IsList(Append(s, x)) /\ Len(Append(s, x)) = Len(s) + 1
           /\ Append(s, x)[Len(s) + 1] = x /\ \A n \in 1..Len(s) : Append(s, x)[n] = s[n]
<1> DEFINE S == ToSet(s) \cup {x}
<1>1. ToSet(s) \subseteq S /\ x \in S /\ s \in Seq(ToSet(s))
  BY ListIs
<1> HIDE DEF S
<1>2. s \in Seq(S)
  BY <1>1, SeqMonotonic
<1>3. Append(s, x) \in Seq(S) /\ Len(Append(s, x)) = Len(s) + 1
      /\ Append(s, x)[Len(s) + 1] = x /\ \A n \in 1..Len(s) : Append(s, x)[n] = s[n]
  BY <1>1, <1>2
<1> QED BY <1>3, ListOf

LEMMA RemovedIs ==
    ASSUME NEW s, IsList(s), NEW i \in 1..Len(s)
    PROVE  /\ IsList(RemoveAt(s, i)) /\ Len(RemoveAt(s, i)) = Len(s) - 1
           /\ \A n \in 1..(Len(s) - 1) : RemoveAt(s, i)[n] = s[IF n < i THEN n ELSE n + 1]
<1> DEFINE S == ToSet(s)
           a == SubSeq(s, 1, i - 1)
           b == SubSeq(s, i + 1, Len(s))
<1>1. Len(s) \in Nat /\ \A n \in 1..Len(s) : s[n] \in S
  BY ListIs
<1> HIDE DEF S
<1>2. /\ a \in Seq(S) /\ Len(a) = i - 1 /\ \A n \in 1..(i - 1) : a[n] = s[n]
  <2>1. \A n \in 1..(i - 1) : s[n] \in S
    BY <1>1
  <2>2. /\ SubSeq(s, 1, i - 1) \in Seq(S)
        /\ Len(SubSeq(s, 1, i - 1)) = IF 1 <= i - 1 THEN i - 1 - 1 + 1 ELSE 0
        /\ \A n \in 1..(i - 1 - 1 + 1) : SubSeq(s, 1, i - 1)[n] = s[1 + n - 1]
    BY <1>1, <2>1, SubSeqProperties
  <2> QED BY <1>1, <2>2
<1>3. /\ b \in Seq(S) /\ Len(b) = Len(s) - i /\ \A n \in 1..(Len(s) - i) : b[n] = s[i + n]
  <2>1. \A n \in (i + 1)..Len(s) : s[n] \in S
    BY <1>1
  <2>2. /\ SubSeq(s, i + 1, Len(s)) \in Seq(S)
        /\ Len(SubSeq(s, i + 1, Len(s))) = IF i + 1 <= Len(s) THEN Len(s) - (i + 1) + 1 ELSE 0
        /\ \A n \in 1..(Len(s) - (i + 1) + 1) : SubSeq(s, i + 1, Len(s))[n] = s[i + 1 + n - 1]
    BY <1>1, <2>1, SubSeqProperties
  <2> QED BY <1>1, <2>2
<1>4. RemoveAt(s, i) = a \o b
  BY DEF RemoveAt
<1> HIDE DEF a, b
<1>5. /\ a \o b \in Seq(S) /\ Len(a \o b) = Len(a) + Len(b)
      /\ \A n \in 1..(Len(a) + Len(b)) : (a \o b)[n] = IF n <= Len(a) THEN a[n] ELSE b[n - Len(a)]
  BY <1>2, <1>3, ConcatProperties
<1>6. Len(a \o b) = Len(s) - 1
  BY <1>1, <1>2, <1>3, <1>5
<1>7. ASSUME NEW n \in 1..(Len(s) - 1) PROVE (a \o b)[n] = s[IF n < i THEN n ELSE n + 1]
  <2>1. CASE n < i
    BY <1>1, <1>2, <1>3, <1>5, <2>1
  <2>2. CASE ~(n < i)
    <3>1. (a \o b)[n] = b[n - Len(a)] /\ n - Len(a) \in 1..(Len(s) - i) /\ i + (n - Len(a)) = n + 1
      BY <1>1, <1>2, <1>3, <1>5, <2>2
    <3> QED BY <1>3, <2>2, <3>1
  <2> QED BY <2>1, <2>2
<1> QED BY <1>4, <1>5, <1>6, <1>7, ListOf

(* The first that fits, and that there is none.                            *)
LEMMA FirstIs ==
    ASSUME NEW n \in Nat, NEW I, I \subseteq 1..n, I # {}
    PROVE  Min(I) \in I /\ Min(I) \in 1..n /\ \A i \in I : Min(I) <= i
<1>1. Min(I) \in I /\ \A i \in I : Min(I) <= i
  <2>1. 1 \in Int /\ n \in Int
    OBVIOUS
  <2> QED BY <2>1, LeastIs
<1> QED BY <1>1

-----------------------------------------------------------------------------
(* Runs *)

LEMMA InitialSegments ==
    ASSUME NEW k \in Nat \ {0}
    PROVE  Max(1..k) = k /\ (1..k) \ {k} = 1..(k - 1) /\ 1..k # {}
<1>1. 1..k \subseteq 0..k /\ 1..k # {} /\ k \in 1..k
  OBVIOUS
<1>2. Max(1..k) \in 1..k /\ \A y \in 1..k : y <= Max(1..k)
  BY <1>1, GreatestUpTo
<1>3. Max(1..k) = k
  BY <1>1, <1>2
<1> QED BY <1>1, <1>3

(* A fold over the places of a list exists where the operator is one on    *)
(* its states, as a function says.                                         *)
Folds(g, base, seq, F, k, S) ==
    /\ g \in [SUBSET (1..k) -> S] /\ g[{}] = base
    /\ \A P \in SUBSET (1..k) : P # {} => g[P] = F[<<g[P \ {Max(P)}], seq[Max(P)]>>]

LEMMA FoldExists ==
    ASSUME NEW n \in Nat, NEW S, NEW base \in S, NEW F, NEW seq,
           \A x \in S : \A k \in 1..n : F[<<x, seq[k]>>] \in S
    PROVE  \E g : Folds(g, base, seq, F, n, S)
<1> DEFINE K == {k \in 0..n : \E g : Folds(g, base, seq, F, k, S)}
<1>1. 0 \in K
  <2>1. 1..0 = {} /\ SUBSET {} = {{}}
    OBVIOUS
  <2>2. Folds([P \in {{}} |-> base], base, seq, F, 0, S)
    BY <2>1 DEF Folds
  <2> QED BY <2>2
<1>2. ASSUME NEW k \in 0..(n - 1), k \in K PROVE k + 1 \in K
  <2>1. PICK g : Folds(g, base, seq, F, k, S)
    BY <1>2
  <2>2. /\ g \in [SUBSET (1..k) -> S] /\ g[{}] = base
        /\ \A P \in SUBSET (1..k) : P # {} => g[P] = F[<<g[P \ {Max(P)}], seq[Max(P)]>>]
    BY <2>1 DEF Folds
  <2> DEFINE h == [P \in SUBSET (1..(k + 1)) |-> IF k + 1 \in P THEN F[<<g[P \ {k + 1}], seq[k + 1]>>] ELSE g[P]]
  <2>3. ASSUME NEW P \in SUBSET (1..(k + 1)), k + 1 \in P
        PROVE  h[P] \in S /\ h[P] = F[<<h[P \ {Max(P)}], seq[Max(P)]>>]
    <3>1. P \ {k + 1} \in SUBSET (1..k) /\ P \ {k + 1} \in SUBSET (1..(k + 1)) /\ k + 1 \notin P \ {k + 1}
      BY <2>3
    <3>2. Max(P) = k + 1
      <4>1. k + 1 \in Nat /\ P \subseteq 0..(k + 1) /\ P # {}
        BY <2>3
      <4>2. Max(P) \in P /\ \A y \in P : y <= Max(P)
        BY <4>1, GreatestUpTo
      <4>3. Max(P) \in 0..(k + 1) /\ k + 1 <= Max(P)
        BY <2>3, <4>1, <4>2
      <4>4. \A m \in 0..(k + 1) : k + 1 <= m => m = k + 1
        OBVIOUS
      <4> QED BY <4>3, <4>4
    <3>3. h[P \ {k + 1}] = g[P \ {k + 1}] /\ g[P \ {k + 1}] \in S
      BY <2>2, <3>1
    <3>4. h[P] = F[<<g[P \ {k + 1}], seq[k + 1]>>]
      BY <2>3
    <3>5. k + 1 \in 1..n
      BY <1>2
    <3> QED BY <3>2, <3>3, <3>4, <3>5
  <2>4. ASSUME NEW P \in SUBSET (1..(k + 1)), k + 1 \notin P
        PROVE  h[P] \in S /\ (P # {} => h[P] = F[<<h[P \ {Max(P)}], seq[Max(P)]>>])
    <3>0. \A x \in P : x \in 1..k
      BY <2>4
    <3>1. \A m : /\ P \in SUBSET (1..k) /\ P \ {m} \in SUBSET (1..k) /\ P \ {m} \in SUBSET (1..(k + 1))
                 /\ k + 1 \notin P \ {m}
      BY <2>4, <3>0
    <3>2. h[P] = g[P] /\ h[P \ {Max(P)}] = g[P \ {Max(P)}]
      BY <2>4, <3>1
    <3> QED BY <2>2, <3>1, <3>2
  <2>5. h[{}] = base
    BY <2>2
  <2>6. h \in [SUBSET (1..(k + 1)) -> S]
    BY <2>3, <2>4
  <2> HIDE DEF h
  <2>7. Folds(h, base, seq, F, k + 1, S)
    BY <2>3, <2>4, <2>5, <2>6 DEF Folds
  <2> QED BY <1>2, <2>7
<1> HIDE DEF K
<1>3. 0..n \subseteq K
  BY <1>1, <1>2, UpTo
<1>4. n \in K
  BY <1>3
<1> QED BY <1>4 DEF K

(* The fold over the first places is in the set of its place, if each step *)
(* leads from one to the next.                                             *)
LEMMA FoldGoes ==
    ASSUME NEW n \in Nat, NEW S, NEW T, NEW base \in T[0], NEW F, NEW seq, NEW g,
           \A k \in 0..n : T[k] \subseteq S,
           \A k \in 1..n : \A x \in T[k - 1] : F[<<x, seq[k]>>] \in T[k],
           g[{}] = base,
           \A P \in SUBSET (1..n) :
               P # {} /\ g[P \ {Max(P)}] \in S => g[P] = F[<<g[P \ {Max(P)}], seq[Max(P)]>>]
    PROVE  g[1..n] \in T[n]
<1> DEFINE K == {k \in 0..n : g[1..k] \in T[k]}
<1>1. 0 \in K
  <2>1. 1..0 = {}
    OBVIOUS
  <2> QED BY <2>1
<1>2. ASSUME NEW k \in 0..(n - 1), k \in K PROVE k + 1 \in K
  <2>1. Max(1..(k + 1)) = k + 1 /\ (1..(k + 1)) \ {k + 1} = 1..k /\ 1..(k + 1) # {}
    <3>1. k + 1 \in Nat \ {0} /\ k + 1 - 1 = k
      OBVIOUS
    <3> QED BY <3>1, InitialSegments
  <2>2. 1..(k + 1) \in SUBSET (1..n) /\ k + 1 \in 1..n /\ k + 1 \in 0..n /\ k + 1 - 1 = k
    OBVIOUS
  <2>3. g[1..k] \in T[k] /\ T[k] \subseteq S
    BY <1>2
  <2>4. g[1..(k + 1)] = F[<<g[1..k], seq[k + 1]>>]
    BY <2>1, <2>2, <2>3
  <2>5. g[1..(k + 1)] \in T[k + 1]
    BY <2>2, <2>3, <2>4
  <2> QED BY <2>2, <2>5
<1> HIDE DEF K
<1>3. 0..n \subseteq K
  BY <1>1, <1>2, UpTo
<1>4. n \in K
  BY <1>3
<1> QED BY <1>4 DEF K

-----------------------------------------------------------------------------
(* What is kept from some place on.                                        *)

LEMMA KeptFrom ==
    ASSUME NEW n \in Nat, NEW c \in 0..n, NEW s
    PROVE  Kept(s, (c + 1)..n) = [k \in 1..(n - c) |-> s[c + k]]
<1> DEFINE P == (c + 1)..n
           keys == [p \in P |-> 0]
<1>1. IsFiniteSet(P) /\ Cardinality(P) = n - c /\ DOMAIN keys = P
  <2>1. c + 1 \in Int /\ n \in Int
    OBVIOUS
  <2>2. IsFiniteSet((c + 1)..n) /\ Cardinality((c + 1)..n) = IF c + 1 > n THEN 0 ELSE n - (c + 1) + 1
    BY <2>1, FS_Interval
  <2> QED BY <2>2
<1>2. ASSUME NEW p \in P PROVE Cardinality({m \in P : Before(keys, m, p)}) = p - c - 1
  <2>1. {m \in P : Before(keys, m, p)} = (c + 1)..(p - 1)
    BY DEF Before
  <2>2. c + 1 \in Int /\ p - 1 \in Int
    OBVIOUS
  <2>3. Cardinality((c + 1)..(p - 1)) = IF c + 1 > p - 1 THEN 0 ELSE p - 1 - (c + 1) + 1
    BY <2>2, FS_Interval
  <2>4. (IF c + 1 > p - 1 THEN 0 ELSE p - 1 - (c + 1) + 1) = p - c - 1
    OBVIOUS
  <2> QED BY <2>1, <2>3, <2>4
<1> DEFINE o == InOrder(keys)
<1>3. ASSUME NEW k \in 1..(n - c) PROVE o[k] = c + k
  <2>1. o[k] = CHOOSE p \in P : Cardinality({m \in P : Before(keys, m, p)}) = k - 1
    BY <1>1 DEF InOrder
  <2>2. c + k \in P /\ \A p \in P : p - c - 1 = k - 1 <=> p = c + k
    OBVIOUS
  <2> HIDE DEF P, keys, o
  <2> QED BY <1>2, <2>1, <2>2
<1>4. DOMAIN o = 1..(n - c) /\ o = [k \in 1..(n - c) |-> o[k]]
  <2>1. P \subseteq Int /\ keys \in [P -> Int]
    OBVIOUS
  <2>2. IsInOrder(o, keys)
    BY <1>1, <2>1, OrderIs
  <2> QED BY <1>1, <2>2 DEF IsInOrder
<1>5. Kept(s, P) = [k \in DOMAIN o |-> s[o[k]]]
  BY DEF Kept, At
<1> HIDE DEF P, keys, o
<1>6. [k \in DOMAIN o |-> s[o[k]]] = [k \in 1..(n - c) |-> s[c + k]]
  BY <1>3, <1>4
<1> QED BY <1>5, <1>6 DEF P

-----------------------------------------------------------------------------
(* Sums *)

(* As many elements as the numbers add up to.                              *)
Units(f, S) == UNION {{x} \X (1..f[x]) : x \in S}

(* One number more, or less, to add up.                                    *)
LEMMA UnitsSplit ==
    ASSUME NEW S, IsFiniteSet(S), NEW f, \A x \in S : f[x] \in Nat
    PROVE  /\ IsFiniteSet(Units(f, S)) /\ Cardinality(Units(f, S)) \in Nat
           /\ \A Q \in SUBSET S : /\ IsFiniteSet(Units(f, Q)) /\ Cardinality(Units(f, Q)) \in Nat
                                  /\ \A x \in Q : Cardinality(Units(f, Q)) = f[x] + Cardinality(Units(f, Q \ {x}))
<1> DEFINE n == Cardinality(S)
           K == {k \in 0..n : \A Q \in SUBSET S : Cardinality(Q) <= k => IsFiniteSet(Units(f, Q))}
<1>0. n \in Nat
  BY FS_CardinalityType
<1>1. ASSUME NEW Q \in SUBSET S
      PROVE  /\ IsFiniteSet(Q) /\ Cardinality(Q) \in Nat /\ Cardinality(Q) <= n
             /\ Cardinality(Q) = 0 => Q = {}
             /\ \A x \in Q : Cardinality(Q \ {x}) = Cardinality(Q) - 1
  <2>1. IsFiniteSet(Q) /\ Cardinality(Q) <= n
    BY FS_Subset
  <2> QED BY <2>1, FS_CardinalityType, FS_EmptySet, FS_RemoveElement
<1>2. ASSUME NEW Q \in SUBSET S, NEW x \in Q
      PROVE  /\ Units(f, Q) = Units(f, Q \ {x}) \cup ({x} \X (1..f[x]))
             /\ Units(f, Q \ {x}) \cap ({x} \X (1..f[x])) = {}
  <2>1. \A y \in Q \ {x} : ({y} \X (1..f[y])) \cap ({x} \X (1..f[x])) = {}
    OBVIOUS
  <2> QED BY <2>1 DEF Units
<1>3. ASSUME NEW x \in S
      PROVE  IsFiniteSet({x} \X (1..f[x])) /\ Cardinality({x} \X (1..f[x])) = f[x]
  <2>1. PICK m \in Nat : m = f[x]
    OBVIOUS
  <2>2. IsFiniteSet(1..m) /\ Cardinality(1..m) = m
    BY FS_Interval
  <2>3. IsFiniteSet({x}) /\ Cardinality({x}) = 1
    BY FS_Singleton
  <2>4. IsFiniteSet({x} \X (1..m)) /\ Cardinality({x} \X (1..m)) = 1 * m
    BY <2>2, <2>3, FS_Product
  <2> QED BY <2>1, <2>4
<1> HIDE DEF n
<1>4. 0 \in K
  <2>1. ASSUME NEW Q \in SUBSET S, Cardinality(Q) <= 0 PROVE IsFiniteSet(Units(f, Q))
    <3>1. Q = {}
      BY <1>1, <2>1
    <3>2. Units(f, Q) = {}
      BY <3>1 DEF Units
    <3> QED BY <3>2, FS_EmptySet
  <2> QED BY <1>0, <2>1
<1>5. ASSUME NEW k \in 0..(n - 1), k \in K PROVE k + 1 \in K
  <2>1. ASSUME NEW Q \in SUBSET S, Cardinality(Q) <= k + 1, Q # {} PROVE IsFiniteSet(Units(f, Q))
    <3>1. PICK x \in Q : TRUE
      BY <2>1
    <3>2. Cardinality(Q \ {x}) <= k /\ Q \ {x} \in SUBSET S
      BY <1>1, <2>1
    <3>3. IsFiniteSet(Units(f, Q \ {x}))
      BY <1>5, <3>2
    <3>4. IsFiniteSet({x} \X (1..f[x])) /\ Units(f, Q) = Units(f, Q \ {x}) \cup ({x} \X (1..f[x]))
      BY <1>2, <1>3
    <3>5. PICK A, B : A = Units(f, Q \ {x}) /\ B = {x} \X (1..f[x])
      OBVIOUS
    <3>6. IsFiniteSet(A \cup B)
      BY <3>3, <3>4, <3>5, FS_Union
    <3> QED BY <3>4, <3>5, <3>6
  <2>2. ASSUME NEW Q \in SUBSET S, Cardinality(Q) <= k + 1, Q = {} PROVE IsFiniteSet(Units(f, Q))
    <3>1. Units(f, Q) = {}
      BY <2>2 DEF Units
    <3> QED BY <3>1, FS_EmptySet
  <2> QED BY <1>0, <2>1, <2>2
<1> HIDE DEF K
<1>6. n \in K
  <2>1. 0..n \subseteq K
    BY <1>0, <1>4, <1>5, UpTo
  <2> QED BY <1>0, <2>1
<1>7. ASSUME NEW Q \in SUBSET S PROVE IsFiniteSet(Units(f, Q)) /\ Cardinality(Units(f, Q)) \in Nat
  BY <1>1, <1>6, FS_CardinalityType DEF K
<1>8. ASSUME NEW Q \in SUBSET S, NEW x \in Q
      PROVE  Cardinality(Units(f, Q)) = f[x] + Cardinality(Units(f, Q \ {x}))
  <2> DEFINE A == Units(f, Q \ {x})
             B == {x} \X (1..f[x])
  <2>1. IsFiniteSet(A) /\ Cardinality(A) \in Nat /\ f[x] \in Nat /\ IsFiniteSet(B) /\ Cardinality(B) = f[x]
    BY <1>3, <1>7
  <2>2. Units(f, Q) = A \cup B /\ A \cap B = {}
    BY <1>2
  <2> HIDE DEF A, B
  <2>3. Cardinality(A \cup B) = Cardinality(A) + Cardinality(B) - Cardinality(A \cap B)
    BY <2>1, FS_Union
  <2>4. Cardinality({}) = 0
    BY FS_EmptySet
  <2>5. Cardinality(Units(f, Q)) = Cardinality(A) + Cardinality(B) - 0
    BY <2>2, <2>3, <2>4
  <2>6. Cardinality(Units(f, Q)) = f[x] + Cardinality(A)
    BY <2>1, <2>5
  <2> QED BY <2>6 DEF A
<1>9. S \in SUBSET S
  OBVIOUS
<1> QED BY <1>7, <1>8, <1>9

(* A sum of numbers of a finite set.                                       *)
LEMMA SumIs ==
    ASSUME NEW S, IsFiniteSet(S), NEW f, \A x \in S : f[x] \in Nat
    PROVE  SumFunctionOnSet(f, S) = Cardinality(Units(f, S))
<1> DEFINE n == Cardinality(S)
           Is(g) == g = [Q \in SUBSET S |-> IF Q = {} THEN 0
                                            ELSE f[CHOOSE x \in Q : TRUE] + g[Q \ {CHOOSE x \in Q : TRUE}]]
           iter == CHOOSE g : Is(g)
<1>1. SumFunctionOnSet(f, S) = iter[S]
  BY DEF SumFunctionOnSet, FoldFunctionOnSet, MapThenFoldSet
<1>2. /\ \A Q \in SUBSET S : Cardinality(Units(f, Q)) \in Nat
      /\ \A Q \in SUBSET S : \A x \in Q : Cardinality(Units(f, Q)) = f[x] + Cardinality(Units(f, Q \ {x}))
  BY UnitsSplit
<1>3. Cardinality(Units(f, {})) = 0
  <2>1. Units(f, {}) = {}
    BY DEF Units
  <2> QED BY <2>1, FS_EmptySet
<1>4. \E g : Is(g)
  <2> DEFINE w == [Q \in SUBSET S |-> Cardinality(Units(f, Q))]
  <2>1. ASSUME NEW Q \in SUBSET S
        PROVE  w[Q] = IF Q = {} THEN 0 ELSE f[CHOOSE x \in Q : TRUE] + w[Q \ {CHOOSE x \in Q : TRUE}]
    <3>1. CASE Q = {}
      BY <1>3, <3>1
    <3>2. CASE Q # {}
      <4>1. PICK x \in Q : x = CHOOSE y \in Q : TRUE
        BY <3>2
      <4>2. Cardinality(Units(f, Q)) = f[x] + Cardinality(Units(f, Q \ {x}))
        BY <1>2
      <4>3. Q \ {x} \in SUBSET S
        OBVIOUS
      <4> QED BY <3>2, <4>1, <4>2, <4>3
    <3> QED BY <3>1, <3>2
  <2>2. w = [Q \in SUBSET S |-> w[Q]]
    OBVIOUS
  <2> HIDE DEF w
  <2>3. Is(w)
    BY <2>1, <2>2
  <2> QED BY <2>3
<1>5. Is(iter)
  BY <1>4
<1> HIDE DEF iter
<1>6. /\ iter[{}] = 0
      /\ \A Q \in SUBSET S : Q # {} => \E x \in Q : iter[Q] = f[x] + iter[Q \ {x}]
  BY <1>5
<1>7. n \in Nat
  BY FS_CardinalityType
<1>8. ASSUME NEW Q \in SUBSET S
      PROVE  /\ Cardinality(Q) \in Nat /\ Cardinality(Q) <= n
             /\ Cardinality(Q) = 0 => Q = {}
             /\ \A x \in Q : Cardinality(Q \ {x}) = Cardinality(Q) - 1
  <2>1. IsFiniteSet(Q) /\ Cardinality(Q) <= n
    BY FS_Subset
  <2> QED BY <2>1, FS_CardinalityType, FS_EmptySet, FS_RemoveElement
<1> DEFINE K == {k \in 0..n : \A Q \in SUBSET S : Cardinality(Q) <= k => iter[Q] = Cardinality(Units(f, Q))}
<1> HIDE DEF n
<1>9. 0 \in K
  <2>1. ASSUME NEW Q \in SUBSET S, Cardinality(Q) <= 0 PROVE iter[Q] = Cardinality(Units(f, Q))
    <3>1. Q = {}
      BY <1>8, <2>1
    <3> QED BY <1>3, <1>6, <3>1
  <2> QED BY <1>7, <2>1
<1>10. ASSUME NEW k \in 0..(n - 1), k \in K PROVE k + 1 \in K
  <2>1. ASSUME NEW Q \in SUBSET S, Cardinality(Q) <= k + 1 PROVE iter[Q] = Cardinality(Units(f, Q))
    <3>1. CASE Q = {}
      BY <1>3, <1>6, <3>1
    <3>2. CASE Q # {}
      <4>1. PICK x \in Q : iter[Q] = f[x] + iter[Q \ {x}]
        BY <1>6, <3>2
      <4>2. Cardinality(Units(f, Q)) = f[x] + Cardinality(Units(f, Q \ {x}))
        BY <1>2
      <4>3. Q \ {x} \in SUBSET S /\ Cardinality(Q \ {x}) <= k
        BY <1>8, <2>1
      <4>4. iter[Q \ {x}] = Cardinality(Units(f, Q \ {x}))
        BY <1>10, <4>3
      <4> QED BY <4>1, <4>2, <4>4
    <3> QED BY <3>1, <3>2
  <2> QED BY <1>7, <2>1
<1> HIDE DEF K
<1>11. n \in K
  <2>1. 0..n \subseteq K
    BY <1>7, <1>9, <1>10, UpTo
  <2> QED BY <1>7, <2>1
<1>12. iter[S] = Cardinality(Units(f, S))
  BY <1>8, <1>11 DEF K
<1> QED BY <1>1, <1>12

(* No number of a sum is more than the sum, and what is at most is so in   *)
(* sum.                                                                    *)
LEMMA SumsUp ==
    ASSUME NEW S, IsFiniteSet(S), NEW f, \A x \in S : f[x] \in Nat
    PROVE  /\ SumFunctionOnSet(f, S) \in Nat
           /\ \A x \in S : f[x] <= SumFunctionOnSet(f, S)
           /\ (\A x \in S : f[x] = 0) => SumFunctionOnSet(f, S) = 0
<1>1. SumFunctionOnSet(f, S) = Cardinality(Units(f, S))
  BY SumIs
<1>2. Cardinality(Units(f, S)) \in Nat
  BY UnitsSplit
<1>3. ASSUME NEW x \in S PROVE f[x] <= Cardinality(Units(f, S))
  <2>1. S \in SUBSET S /\ S \ {x} \in SUBSET S
    OBVIOUS
  <2>2. Cardinality(Units(f, S)) = f[x] + Cardinality(Units(f, S \ {x}))
    BY <2>1, UnitsSplit
  <2>3. Cardinality(Units(f, S \ {x})) \in Nat
    BY <2>1, UnitsSplit
  <2>4. f[x] \in Nat
    OBVIOUS
  <2> QED BY <1>2, <2>2, <2>3, <2>4
<1>4. ASSUME \A x \in S : f[x] = 0 PROVE Cardinality(Units(f, S)) = 0
  <2>1. \A x \in S : 1..f[x] = {}
    BY <1>4
  <2>2. Units(f, S) = {}
    BY <2>1 DEF Units
  <2> QED BY <2>2, FS_EmptySet
<1> QED BY <1>1, <1>2, <1>3, <1>4

LEMMA SumsGrow ==
    ASSUME NEW S, IsFiniteSet(S), NEW f, NEW g, \A x \in S : f[x] \in Nat,
           \A x \in S : g[x] \in Nat, \A x \in S : f[x] <= g[x]
    PROVE  SumFunctionOnSet(f, S) <= SumFunctionOnSet(g, S)
<1>1. SumFunctionOnSet(f, S) = Cardinality(Units(f, S)) /\ SumFunctionOnSet(g, S) = Cardinality(Units(g, S))
  BY SumIs
<1>2. IsFiniteSet(Units(g, S))
  BY UnitsSplit
<1>3. \A x \in S : 1..f[x] \subseteq 1..g[x]
  OBVIOUS
<1>4. Units(f, S) \subseteq Units(g, S)
  BY <1>3 DEF Units
<1>5. Cardinality(Units(f, S)) <= Cardinality(Units(g, S))
  BY <1>2, <1>4, FS_Subset
<1> QED BY <1>1, <1>5

(* So many times the same number.                                          *)
LEMMA SumOfOne ==
    ASSUME NEW S, IsFiniteSet(S), NEW c \in Nat
    PROVE  SumFunctionOnSet([x \in S |-> c], S) = Cardinality(S) * c
<1> DEFINE f == [x \in S |-> c]
<1>1. \A x \in S : f[x] \in Nat /\ f[x] = c
  OBVIOUS
<1>2. Units(f, S) = S \X (1..c)
  BY <1>1 DEF Units
<1> HIDE DEF f
<1>3. SumFunctionOnSet(f, S) = Cardinality(Units(f, S))
  BY <1>1, SumIs
<1>4. IsFiniteSet(1..c) /\ Cardinality(1..c) = c
  BY FS_Interval
<1>5. Cardinality(S \X (1..c)) = Cardinality(S) * c
  BY <1>4, FS_Product
<1>6. SumFunctionOnSet(f, S) = Cardinality(S) * c
  BY <1>2, <1>3, <1>5
<1> QED BY <1>6 DEF f
=============================================================================
