------------------------------- MODULE FoldLemmas ------------------------------
(***************************************************************************)
(* Induction over the naturals and over the subsets of a finite set, with  *)
(* a set in place of the predicate, and what it gives for definitions that *)
(* go through a finite set element by element, as the folds of sequences   *)
(* and sets do: that there is such a function.                             *)
(***************************************************************************)
EXTENDS Integers, FiniteSets, FiniteSetTheorems, WellFoundedInduction, TLAPS

\* Induction over the naturals.
LEMMA NatSetInduction ==
  ASSUME NEW T, 0 \in T, \A n \in Nat : n \in T => n + 1 \in T
  PROVE  Nat \subseteq T
<1> DEFINE Out == Nat \ T
<1> SUFFICES ASSUME Out # {} PROVE FALSE
  OBVIOUS
<1>1. Out \subseteq Nat
  OBVIOUS
<1>2. PICK n \in Out : \A m \in Out : ~ (<<m, n>> \in OpToRel(<, Nat))
  <2> HIDE DEF Out
  <2>1. QED
    BY <1>1, WFMin, NatLessThanWellFounded, Zenon
<1>3. n # 0 /\ n - 1 \in Nat /\ n - 1 < n
  BY <1>1
<1>4. n - 1 \notin Out
  BY <1>1, <1>2, <1>3 DEF OpToRel
<1>5. n \in T
  BY <1>3, <1>4
<1>6. QED
  BY <1>2, <1>5

\* pick takes an element of every set.
Picks(pick, D) == \A s \in SUBSET D : s # {} => pick[s] \in s

\* With the set that is left by what is picked from a set, that set is in T.
Inherited(T, pick, D) ==
    {} \in T /\ \A s \in SUBSET D : s # {} /\ s \ {pick[s]} \in T => s \in T

\* f is what op makes of an element that is picked and f's value without it.
IsFold(f, op, base, pick, D) ==
    \A s \in SUBSET D : f[s] = IF s = {} THEN base ELSE op[<<pick[s], f[s \ {pick[s]}]>>]

\* Induction over the subsets of a finite set, from which elements are picked one
\* after the other.
LEMMA SubsetInduction ==
  ASSUME NEW D, IsFiniteSet(D), NEW pick, Picks(pick, D), NEW T, Inherited(T, pick, D)
  PROVE  SUBSET D \subseteq T
<1> USE DEF Picks, Inherited
<1> DEFINE N == {n \in Nat : \A s \in SUBSET D : Cardinality(s) = n => s \in T}
<1>1. \A s \in SUBSET D : IsFiniteSet(s) /\ Cardinality(s) \in Nat
  BY FS_Subset, FS_CardinalityType
<1>2. 0 \in N
  BY <1>1, FS_EmptySet
<1>3. ASSUME NEW n \in Nat, n \in N PROVE n + 1 \in N
  <2>1. SUFFICES ASSUME NEW s \in SUBSET D, Cardinality(s) = n + 1 PROVE s \in T
    BY <1>3
  <2>2. s # {}
    BY <2>1, FS_EmptySet
  <2>3. pick[s] \in s
    BY <2>2
  <2>4. Cardinality(s \ {pick[s]}) = n
    <3>1. IsFiniteSet(s)
      BY <1>1
    <3>2. Cardinality(s \ {pick[s]}) = Cardinality(s) - 1
      BY <2>3, <3>1, FS_RemoveElement
    <3>3. QED
      BY <2>1, <3>2
  <2>5. s \ {pick[s]} \in T
    BY <1>3, <2>4
  <2>6. QED
    BY <2>2, <2>5
<1> HIDE DEF N
<1>4. Nat \subseteq N
  BY <1>2, <1>3, NatSetInduction
<1>5. QED
  BY <1>1, <1>4 DEF N

\* A finite set of numbers has a greatest one.
LEMMA GreatestExists ==
  ASSUME NEW D \in SUBSET Int, IsFiniteSet(D), D # {}
  PROVE  \E n \in D : \A m \in D : n >= m
<1> DEFINE HasGreatest(s) == s # {} => \E n \in s : \A m \in s : n >= m
           T == {s \in SUBSET D : HasGreatest(s)}
           pick == [s \in SUBSET D |-> CHOOSE n \in s : TRUE]
<1>1. {} \in T
  OBVIOUS
<1>2. \A s \in SUBSET D : s # {} => pick[s] \in s
  OBVIOUS
<1>3. ASSUME NEW s \in SUBSET D, s # {}, s \ {pick[s]} \in T
      PROVE  s \in T
  <2> HIDE DEF pick
  <2>1. pick[s] \in s
    BY <1>2, <1>3
  <2>2. CASE s \ {pick[s]} = {}
    <3>1. s = {pick[s]} /\ pick[s] \in Int
      BY <2>1, <2>2
    <3>2. QED
      BY <3>1
  <2>3. CASE s \ {pick[s]} # {}
    <3>1. PICK n \in s \ {pick[s]} : \A m \in s \ {pick[s]} : n >= m
      BY <1>3, <2>3
    <3>2. n \in Int /\ pick[s] \in Int
      BY <2>1
    <3>3. CASE n >= pick[s]
      <4>1. \A m \in s : n >= m
        BY <3>1, <3>3
      <4>2. QED
        BY <3>1, <4>1
    <3>4. CASE pick[s] > n
      <4>1. \A m \in s : pick[s] >= m
        BY <2>1, <3>1, <3>2, <3>4
      <4>2. QED
        BY <2>1, <4>1
    <3>5. QED
      BY <3>2, <3>3, <3>4
  <2>4. QED
    BY <2>2, <2>3
<1> HIDE DEF T, pick
<1>4. Picks(pick, D) /\ Inherited(T, pick, D)
  BY <1>1, <1>2, <1>3 DEF Picks, Inherited
<1>5. SUBSET D \subseteq T
  BY <1>4, SubsetInduction
<1>6. QED
  BY <1>5 DEF T

\* What a function makes of a finite set is a finite set.
LEMMA ImageIsFinite ==
  ASSUME NEW D, IsFiniteSet(D), NEW f, DOMAIN f = D
  PROVE  IsFiniteSet({f[x] : x \in D})
<1> DEFINE T == {f[x] : x \in D}
           g == [x \in D |-> f[x]]
<1>1. g \in [D -> T] /\ \A t \in T : \E x \in D : g[x] = t
  OBVIOUS
<1> HIDE DEF T, g
<1>2. g \in Surjection(D, T)
  BY <1>1 DEF Surjection
<1>3. IsFiniteSet(T)
  BY <1>2, FS_Surjection
<1>4. QED
  BY <1>3 DEF T

\* And a least one.
LEMMA LeastExists ==
  ASSUME NEW D \in SUBSET Int, IsFiniteSet(D), D # {}
  PROVE  \E n \in D : \A m \in D : n <= m
<1> DEFINE E == {-n : n \in D}
           f == [n \in D |-> -n]
<1>1. E \in SUBSET Int /\ E # {}
  <2>1. \A n \in D : -n \in Int
    OBVIOUS
  <2>2. QED
    BY <2>1
<1>2. E = {f[n] : n \in D} /\ DOMAIN f = D
  OBVIOUS
<1>3. IsFiniteSet(E)
  <2> HIDE DEF E, f
  <2>1. QED
    BY <1>2, ImageIsFinite
<1>4. PICK g \in E : \A h \in E : g >= h
  <2> HIDE DEF E
  <2>1. QED
    BY <1>1, <1>3, GreatestExists
<1>5. PICK k \in D : g = -k
  OBVIOUS
<1>6. \A m \in D : k <= m
  <2> SUFFICES ASSUME NEW m \in D PROVE k <= m
    OBVIOUS
  <2>1. -m \in E /\ m \in Int /\ k \in Int
    OBVIOUS
  <2>2. -k >= -m
    BY <1>4, <1>5, <2>1
  <2>3. QED
    BY <2>1, <2>2
<1>7. QED
  BY <1>6

\* There is such a function.
LEMMA FoldExists ==
  ASSUME NEW D, IsFiniteSet(D), NEW pick, Picks(pick, D),
         NEW Y, NEW base \in Y, NEW op \in [D \X Y -> Y]
  PROVE  \E f \in [SUBSET D -> Y] : IsFold(f, op, base, pick, D)
<1> USE DEF Picks
<1> DEFINE Made(f, s) == IF s = {} THEN base ELSE op[<<pick[s], f[s \ {pick[s]}]>>]
           N == {n \in Nat : \E f \in [SUBSET D -> Y] :
                    \A s \in SUBSET D : Cardinality(s) <= n => f[s] = Made(f, s)}
<1>1. \A s \in SUBSET D : IsFiniteSet(s) /\ Cardinality(s) \in Nat
  BY FS_Subset, FS_CardinalityType
<1>2. 0 \in N
  <2> DEFINE f == [s \in SUBSET D |-> base]
  <2>1. \A s \in SUBSET D : Cardinality(s) <= 0 => s = {}
    BY <1>1, FS_EmptySet
  <2>2. f \in [SUBSET D -> Y] /\ \A s \in SUBSET D : Cardinality(s) <= 0 => f[s] = Made(f, s)
    BY <2>1
  <2>3. QED
    BY <2>2
<1>3. ASSUME NEW n \in Nat, n \in N PROVE n + 1 \in N
  <2>1. PICK f \in [SUBSET D -> Y] :
           \A s \in SUBSET D : Cardinality(s) <= n => f[s] = Made(f, s)
    BY <1>3
  <2> DEFINE g == [s \in SUBSET D |-> Made(f, s)]
  <2>2. g \in [SUBSET D -> Y]
    <3>1. \A s \in SUBSET D : Made(f, s) \in Y
      OBVIOUS
    <3>2. QED
      BY <3>1
  <2>3. ASSUME NEW s \in SUBSET D, Cardinality(s) <= n + 1
        PROVE  g[s] = Made(g, s)
    <3>1. CASE s = {}
      BY <3>1
    <3>2. CASE s # {}
      <4> DEFINE r == s \ {pick[s]}
      <4>1. pick[s] \in s
        BY <3>2
      <4>2. Cardinality(r) <= n /\ r \in SUBSET D
        BY <1>1, <2>3, <4>1, FS_RemoveElement
      <4>3. g[r] = f[r]
        BY <2>1, <4>2
      <4>4. QED
        BY <3>2, <4>3
    <3>3. QED
      BY <3>1, <3>2
  <2> HIDE DEF g
  <2>4. \A s \in SUBSET D : Cardinality(s) <= n + 1 => g[s] = Made(g, s)
    BY <2>3
  <2> HIDE DEF Made
  <2>5. QED
    BY <2>2, <2>4
<1> HIDE DEF N
<1>4. Nat \subseteq N
  BY <1>2, <1>3, NatSetInduction
<1>5. Cardinality(D) \in N /\ \A s \in SUBSET D : Cardinality(s) <= Cardinality(D)
  BY <1>1, <1>4, FS_Subset, FS_CardinalityType
<1>6. QED
  BY <1>5 DEF N, IsFold

\* It stays in a set that every step stays in.
LEMMA FoldLands ==
  ASSUME NEW D, IsFiniteSet(D), NEW pick, Picks(pick, D), NEW Y, NEW f, f[{}] \in Y,
         \A s \in SUBSET D : s # {} /\ f[s \ {pick[s]}] \in Y => f[s] \in Y
  PROVE  f[D] \in Y
<1> DEFINE T == {s \in SUBSET D : f[s] \in Y}
<1>1. {} \in T
  OBVIOUS
<1>2. \A s \in SUBSET D : s # {} /\ s \ {pick[s]} \in T => s \in T
  OBVIOUS
<1> HIDE DEF T
<1>3. SUBSET D \subseteq T
  BY <1>1, <1>2, SubsetInduction DEF Inherited
<1>4. QED
  BY <1>3 DEF T
\* step makes the value at a place from the values at the places of lower ranks.
ByRank(step, rank, D, Y, N) ==
    /\ rank \in [D -> 0 .. N] /\ step \in [D \X [D -> Y] -> Y]
    /\ \A x \in D : \A f, g \in [D -> Y] :
        (\A y \in D : rank[y] < rank[x] => f[y] = g[y]) => step[<<x, f>>] = step[<<x, g>>]

\* Then there is a function that has at every place the value step makes of it.
LEMMA RecursionExists ==
  ASSUME NEW D, NEW Y, NEW base \in Y, NEW N \in Nat, NEW rank, NEW step,
         ByRank(step, rank, D, Y, N)
  PROVE  \E f \in [D -> Y] : \A x \in D : f[x] = step[<<x, f>>]
<1> USE DEF ByRank
<1> DEFINE Solves(f, n) == \A x \in D : rank[x] < n => f[x] = step[<<x, f>>]
           T == {n \in Nat : \E f \in [D -> Y] : Solves(f, n)}
<1>1. 0 \in T
  <2> DEFINE f == [x \in D |-> base]
  <2>1. f \in [D -> Y] /\ Solves(f, 0)
    OBVIOUS
  <2>2. QED
    BY <2>1
<1>2. ASSUME NEW n \in Nat, n \in T PROVE n + 1 \in T
  <2>1. PICK f \in [D -> Y] : Solves(f, n)
    BY <1>2
  <2> DEFINE g == [x \in D |-> step[<<x, f>>]]
  <2>2. g \in [D -> Y]
    OBVIOUS
  <2>3. \A y \in D : rank[y] < n => f[y] = g[y]
    BY <2>1
  <2>4. ASSUME NEW x \in D, rank[x] < n + 1 PROVE g[x] = step[<<x, g>>]
    <3>1. \A y \in D : rank[y] < rank[x] => rank[y] < n
      BY <2>4
    <3>2. \A y \in D : rank[y] < rank[x] => f[y] = g[y]
      BY <2>3, <3>1
    <3>3. g[x] = step[<<x, f>>]
      OBVIOUS
    <3> HIDE DEF g
    <3>4. step[<<x, f>>] = step[<<x, g>>]
      BY <2>2, <3>2
    <3>5. QED
      BY <3>3, <3>4
  <2> HIDE DEF g
  <2>5. Solves(g, n + 1)
    BY <2>4
  <2>6. QED
    BY <2>2, <2>5
<1> HIDE DEF T
<1>3. N + 1 \in T
  BY <1>1, <1>2, NatSetInduction
<1>4. PICK f \in [D -> Y] : Solves(f, N + 1)
  BY <1>3 DEF T
<1>5. \A x \in D : rank[x] < N + 1
  OBVIOUS
<1>6. QED
  BY <1>4, <1>5
=============================================================================
