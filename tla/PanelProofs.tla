------------------------------ MODULE PanelProofs ------------------------------
(***************************************************************************)
(* The variable panel for any schemas, sections and derived curves: its    *)
(* tables agree, every section is shown, and the health it displays is     *)
(* what the expressions and the available variables say.                   *)
(***************************************************************************)
EXTENDS Panel, FoldLemmas, SequenceTheorems

(* Orders of sections.                                                     *)

\* A sequence of elements of S in which none occurs twice.
Orders(S) == {q \in Seq(S) : IsInjective(q)}

LEMMA OnlyIs ==
  ASSUME NEW S, NEW order \in Seq(S), NEW names
  PROVE  /\ Only(order, names) \in Seq(S)
         /\ ToSet(Only(order, names)) = ToSet(order) \cap names
         /\ IsInjective(order) => IsInjective(Only(order, names))
<1> DEFINE D == DOMAIN order
           n == Len(order)
           Y == Seq(S)
           pick == [s \in SUBSET D |-> Max(s)]
           Step(q, i) == IF order[i] \in names THEN Append(q, order[i]) ELSE q
           Made(f, s) == IF s = {} THEN <<>> ELSE Step(f[s \ {Max(s)}], Max(s))
           Eqn(f) == f = [s \in SUBSET D |-> Made(f, s)]
           Result == Only(order, names)
<1>1. D = 1..n /\ n \in Nat /\ IsFiniteSet(D)
  BY LenProperties, FS_Interval
<1>2. \A i \in D : order[i] \in S
  BY <1>1, ElementOfSeq
<1>3. \A s \in SUBSET D : s # {} => Max(s) \in s /\ \A k \in s : Max(s) >= k
  <2> SUFFICES ASSUME NEW s \in SUBSET D, s # {}
               PROVE  Max(s) \in s /\ \A k \in s : Max(s) >= k
    OBVIOUS
  <2>1. IsFiniteSet(s)
    BY <1>1, FS_Subset
  <2>2. \E k \in s : \A l \in s : k >= l
    BY <1>1, <2>1, GreatestExists
  <2>3. QED
    BY <2>2 DEF Max
<1>4. <<>> \in Y
  BY EmptySeq
<1>5. ASSUME NEW q \in Y, NEW i \in D PROVE Step(q, i) \in Y
  BY <1>2, AppendProperties
<1>6. Result = (CHOOSE f : Eqn(f))[D]
  BY DEF Only, FoldLeft, MapThenFoldSet
<1> HIDE DEF Step, Y, Result
<1>7. \E f : Eqn(f)
  <2> DEFINE op == [p \in D \X Y |-> Step(p[2], p[1])]
  <2>1. op \in [D \X Y -> Y]
    <3>1. \A p \in D \X Y : Step(p[2], p[1]) \in Y
      BY <1>5
    <3>2. QED
      BY <3>1
  <2>2. Picks(pick, D)
    BY <1>3 DEF Picks
  <2> HIDE DEF D, pick, op
  <2>3. PICK f \in [SUBSET D -> Y] : IsFold(f, op, <<>>, pick, D)
    BY <1>1, <1>4, <2>1, <2>2, FoldExists
  <2>4. \A s \in SUBSET D : f[s] = Made(f, s)
    <3> USE DEF IsFold
    <3> SUFFICES ASSUME NEW s \in SUBSET D, s # {} PROVE f[s] = Made(f, s)
      BY <2>3
    <3>1. pick[s] = Max(s) /\ Max(s) \in D
      BY <1>3 DEF pick
    <3>2. f[s \ {Max(s)}] \in Y
      BY <2>3
    <3>3. op[<<Max(s), f[s \ {Max(s)}]>>] = Step(f[s \ {Max(s)}], Max(s))
      BY <3>1, <3>2 DEF op
    <3>4. QED
      BY <2>3, <3>1, <3>3
  <2> HIDE DEF Made
  <2>5. Eqn(f)
    BY <2>3, <2>4
  <2>6. QED
    BY <2>5
<1> HIDE DEF D, pick, Eqn
<1>8. PICK f : Eqn(f) /\ Result = f[D]
  BY <1>6, <1>7
<1>9. \A s \in SUBSET D : f[s] = Made(f, s)
  <2> HIDE DEF Made
  <2>1. QED
    BY <1>8 DEF Eqn
<1> DEFINE Part(q, k) ==
             /\ q \in Y
             /\ ToSet(q) = {order[i] : i \in 1..k} \cap names
             /\ IsInjective(order) => IsInjective(q)
           T == {s \in SUBSET D : \A k \in 0..n : s = 1..k => Part(f[s], k)}
<1>10. {} \in T
  <2> SUFFICES ASSUME NEW k \in 0..n, {} = 1..k PROVE Part(f[{}], k)
    OBVIOUS
  <2>1. k = 0
    BY <1>1
  <2>2. f[{}] = <<>>
    BY <1>9
  <2>3. QED
    BY <1>4, <2>1, <2>2 DEF ToSet, IsInjective
<1>11. ASSUME NEW s \in SUBSET D, s # {}, s \ {pick[s]} \in T PROVE s \in T
  <2> SUFFICES ASSUME NEW k \in 0..n, s = 1..k PROVE Part(f[s], k)
    OBVIOUS
  <2>1. k # 0 /\ k \in D /\ k \in Nat
    BY <1>1, <1>11 DEF D
  <2>2. Max(s) = k
    <3>1. Max(s) \in s /\ \A l \in s : Max(s) >= l
      BY <1>3, <1>11
    <3>2. k \in s
      BY <2>1
    <3>3. Max(s) \in s /\ Max(s) >= k
      BY <3>1, <3>2
    <3>4. QED
      BY <2>1, <3>3
  <2>3. s \ {pick[s]} = 1..(k - 1) /\ pick[s] = k
    BY <1>11, <2>1, <2>2 DEF pick
  <2> DEFINE q == f[s \ {pick[s]}]
  <2>4. Part(q, k - 1)
    <3>1. k - 1 \in 0..n
      BY <1>1, <2>1
    <3> HIDE DEF Part
    <3>2. QED
      BY <1>11, <2>3, <3>1
  <2>5. f[s] = Step(q, k)
    BY <1>9, <1>11, <2>2, <2>3
  <2> HIDE DEF q
  <2>6. {order[i] : i \in 1..k} = {order[i] : i \in 1..(k - 1)} \cup {order[k]}
    BY <2>1
  <2>7. CASE order[k] \notin names
    <3>1. f[s] = q
      BY <2>5, <2>7 DEF Step
    <3>2. QED
      BY <2>4, <2>6, <2>7, <3>1
  <2>8. CASE order[k] \in names
    <3>1. f[s] = Append(q, order[k])
      BY <2>5, <2>8 DEF Step
    <3>2. /\ f[s] \in Y /\ Len(f[s]) = Len(q) + 1 /\ DOMAIN f[s] = 1..(Len(q) + 1)
          /\ \A i \in 1..Len(q) : f[s][i] = q[i]
          /\ f[s][Len(q) + 1] = order[k]
          /\ DOMAIN q = 1..Len(q) /\ Len(q) \in Nat
      BY <1>2, <2>1, <2>4, <3>1, AppendProperties, LenProperties DEF Y
    <3>3. ToSet(f[s]) = ToSet(q) \cup {order[k]}
      BY <3>2 DEF ToSet
    <3>4. ASSUME IsInjective(order) PROVE IsInjective(f[s])
      <4>1. order[k] \notin ToSet(q)
        <5>1. \A i \in 1..(k - 1) : order[i] # order[k]
          BY <1>1, <2>1, <3>4 DEF IsInjective, D
        <5>2. QED
          BY <2>4, <5>1
      <4>2. \A i \in 1..Len(q) : q[i] # order[k]
        BY <3>2, <4>1 DEF ToSet
      <4>3. \A i, j \in 1..Len(q) : q[i] = q[j] => i = j
        BY <2>4, <3>2, <3>4 DEF IsInjective
      <4>4. \A i, j \in 1..(Len(q) + 1) : f[s][i] = f[s][j] => i = j
        <5>1. \A i \in 1..(Len(q) + 1) : i \in 1..Len(q) \/ i = Len(q) + 1
          BY <3>2
        <5>2. SUFFICES ASSUME NEW i \in 1..(Len(q) + 1), NEW j \in 1..(Len(q) + 1),
                              f[s][i] = f[s][j]
                       PROVE  i = j
          OBVIOUS
        <5>3. CASE i \in 1..Len(q) /\ j \in 1..Len(q)
          BY <3>2, <4>3, <5>2, <5>3
        <5>4. CASE i \in 1..Len(q) /\ j = Len(q) + 1
          BY <3>2, <4>2, <5>2, <5>4
        <5>5. CASE i = Len(q) + 1 /\ j \in 1..Len(q)
          BY <3>2, <4>2, <5>2, <5>5
        <5>6. QED
          BY <5>1, <5>3, <5>4, <5>5
      <4>5. QED
        BY <3>2, <4>4 DEF IsInjective
    <3>5. QED
      BY <2>4, <2>6, <2>8, <3>2, <3>3, <3>4
  <2>9. QED
    BY <2>7, <2>8
<1> HIDE DEF T
<1>12. Picks(pick, D) /\ Inherited(T, pick, D)
  BY <1>3, <1>10, <1>11 DEF pick, Picks, Inherited
<1>13. SUBSET D \subseteq T
  BY <1>1, <1>12, SubsetInduction
<1>14. Part(f[D], n)
  <2>1. D \in T /\ D = 1..n /\ n \in 0..n
    BY <1>1, <1>13 DEF D
  <2> HIDE DEF Part
  <2>2. QED
    BY <2>1 DEF T
<1>15. QED
  BY <1>1, <1>8, <1>14 DEF Result, Y, D, ToSet

\* R orders S strictly and totally.
StrictOrder(R, S) ==
    /\ \A s \in S : <<s, s>> \notin R
    /\ \A s, t, u \in S : <<s, t>> \in R /\ <<t, u>> \in R => <<s, u>> \in R
    /\ \A s, t \in S : s = t \/ <<s, t>> \in R \/ <<t, s>> \in R

\* A finite set can be sorted: each element goes to the place that the number of
\* those before it says.
LEMMA SortedExists ==
  ASSUME NEW S, IsFiniteSet(S), NEW R, StrictOrder(R, S)
  PROVE  \E f \in [1..Cardinality(S) -> S] :
            \A i, j \in 1..Cardinality(S) : i < j => <<f[i], f[j]>> \in R
<1> DEFINE n == Cardinality(S)
           Less(s) == {t \in S : <<t, s>> \in R}
           rank == [s \in S |-> Cardinality(Less(s)) + 1]
<1>1. n \in Nat
  BY FS_CardinalityType
<1>2. \A s \in S : IsFiniteSet(Less(s)) /\ Cardinality(Less(s)) \in Nat
  BY FS_Subset, FS_CardinalityType
<1>3. \A s \in S : rank[s] \in 1..n
  <2> SUFFICES ASSUME NEW s \in S PROVE Cardinality(Less(s)) + 1 \in 1..n
    OBVIOUS
  <2>1. IsFiniteSet(S \ {s}) /\ Cardinality(S \ {s}) = n - 1
    BY FS_RemoveElement
  <2>2. Less(s) \subseteq S \ {s}
    BY DEF StrictOrder
  <2> HIDE DEF Less
  <2>3. Cardinality(Less(s)) <= n - 1
    BY <2>1, <2>2, FS_Subset
  <2>4. QED
    BY <1>1, <1>2, <2>3
<1>4. ASSUME NEW s \in S, NEW t \in S, <<s, t>> \in R PROVE rank[s] < rank[t]
  <2>1. Less(s) \subseteq Less(t) \ {s} /\ s \in Less(t)
    BY <1>4 DEF StrictOrder
  <2>2. IsFiniteSet(Less(t) \ {s}) /\ Cardinality(Less(t) \ {s}) = Cardinality(Less(t)) - 1
    BY <1>2, <2>1, FS_RemoveElement
  <2>3. Cardinality(Less(s)) <= Cardinality(Less(t)) - 1
    <3> HIDE DEF Less
    <3>1. QED
      BY <2>1, <2>2, FS_Subset
  <2>4. rank[s] = Cardinality(Less(s)) + 1 /\ rank[t] = Cardinality(Less(t)) + 1
    OBVIOUS
  <2>5. Cardinality(Less(s)) \in Nat /\ Cardinality(Less(t)) \in Nat
    BY <1>2
  <2> HIDE DEF rank, Less
  <2>6. QED
    BY <2>3, <2>4, <2>5
<1> HIDE DEF rank, Less
<1>5. \A s, t \in S : rank[s] = rank[t] => s = t
  <2> SUFFICES ASSUME NEW s \in S, NEW t \in S, rank[s] = rank[t], s # t PROVE FALSE
    OBVIOUS
  <2>1. rank[s] < rank[t] \/ rank[t] < rank[s]
    BY <1>4 DEF StrictOrder
  <2>2. rank[s] \in Int /\ rank[t] \in Int
    BY <1>1, <1>3
  <2>3. QED
    BY <2>1, <2>2
<1>6. \A i \in 1..n : \E s \in S : rank[s] = i
  <2> DEFINE g == [s \in S |-> rank[s]]
  <2>1. g \in [S -> 1..n] /\ \A s, t \in S : g[s] = g[t] => s = t
    BY <1>3, <1>5
  <2>2. IsFiniteSet(1..n) /\ Cardinality(1..n) = n
    BY <1>1, FS_Interval
  <2> HIDE DEF g
  <2>3. g \in Injection(S, 1..n)
    BY <2>1 DEF Injection, IsInjective
  <2>4. g \in Surjection(S, 1..n)
    BY <2>2, <2>3, FS_Injection
  <2>5. \A i \in 1..n : \E s \in S : g[s] = i
    BY <2>4 DEF Surjection
  <2>6. QED
    BY <2>5 DEF g
<1> DEFINE f == [i \in 1..n |-> CHOOSE s \in S : rank[s] = i]
<1>7. \A i \in 1..n : f[i] \in S /\ rank[f[i]] = i
  BY <1>6
<1>8. ASSUME NEW i \in 1..n, NEW j \in 1..n, i < j PROVE <<f[i], f[j]>> \in R
  <2>1. f[i] \in S /\ f[j] \in S /\ rank[f[i]] = i /\ rank[f[j]] = j
    BY <1>7
  <2> HIDE DEF f
  <2>2. ~ (rank[f[j]] < rank[f[i]]) /\ f[i] # f[j]
    BY <1>8, <2>1
  <2>3. QED
    BY <1>4, <2>1, <2>2 DEF StrictOrder
<1>9. f \in [1..n -> S]
  BY <1>7
<1> HIDE DEF f
<1>10. QED
  BY <1>8, <1>9

\* Functions from some of X into Y.
Tables(X, Y) == UNION {[D -> Y] : D \in SUBSET X}

\* What the panel knows of a section.
Sections == [items: SUBSET Variables, task: Nat, order: Nat]
SectionTables == Tables(Names, Sections)

\* A section with other items, or in another place, and nothing else about it changed.
LEMMA SectionWithItems ==
  ASSUME NEW x \in Sections, NEW items
  PROVE  [x EXCEPT !.items = items] = [items |-> items, task |-> x.task, order |-> x.order]
BY DEF Sections

LEMMA SectionWithOrder ==
  ASSUME NEW x \in Sections, NEW order
  PROVE  [x EXCEPT !.order = order] = [items |-> x.items, task |-> x.task, order |-> order]
BY DEF Sections

LEMMA NameAt ==
  ASSUME NEW s \in Names
  PROVE  LET name(u) == CHOOSE i \in DOMAIN SectionNames : SectionNames[i] = u
         IN  name(s) \in Nat /\ SectionNames[name(s)] = s
<1>1. \E i \in DOMAIN SectionNames : SectionNames[i] = s
  BY DEF Names, ToSet
<1>2. DOMAIN SectionNames \subseteq Nat
  BY PanelAssumption, LenProperties
<1>3. QED
  BY <1>1, <1>2

\* The order in which sections are drawn if the user does not say otherwise.
LEMMA BeforeIsStrict ==
  ASSUME NEW sections \in SectionTables
  PROVE  LET D == DOMAIN sections
             R == {p \in D \X D : Before(sections, p[1], p[2])}
         IN  /\ StrictOrder(R, D)
             /\ \A s, t \in D : <<s, t>> \in R <=> Before(sections, s, t)
<1> DEFINE D == DOMAIN sections
           class(u) == IF u = "Derived" THEN 0 ELSE IF sections[u].task = 0 THEN 1 ELSE 2
           number(u) == IF class(u) = 2 THEN sections[u].task ELSE sections[u].order
           name(u) == CHOOSE i \in DOMAIN SectionNames : SectionNames[i] = u
           Lower(s, t) == \/ class(s) < class(t)
                          \/ class(s) = class(t) /\ number(s) < number(t)
                          \/ class(s) = class(t) /\ number(s) = number(t) /\ name(s) < name(t)
           R == {p \in D \X D : Before(sections, p[1], p[2])}
<1>1. D \subseteq Names /\ \A u \in D : sections[u] \in Sections
  BY DEF SectionTables, Tables
<1>2. \A u \in D : class(u) \in Nat /\ number(u) \in Nat
  BY <1>1 DEF Sections
<1>3. \A u \in D : name(u) \in Nat /\ SectionNames[name(u)] = u
  BY <1>1, NameAt
<1>4. \A s, t \in D : Before(sections, s, t) <=> Lower(s, t)
  BY DEF Before
<1>5. \A s, t \in D : <<s, t>> \in R <=> Lower(s, t)
  BY <1>4
<1>6. \A s, t \in D : <<s, t>> \in R <=> Before(sections, s, t)
  OBVIOUS
<1> HIDE DEF R, class, number, name, D
<1>7. \A s \in D : ~ Lower(s, s)
  BY <1>2, <1>3
<1>8. \A s, t, u \in D : Lower(s, t) /\ Lower(t, u) => Lower(s, u)
  BY <1>2, <1>3
<1>9. \A s, t \in D : s = t \/ Lower(s, t) \/ Lower(t, s)
  BY <1>2, <1>3
<1> HIDE DEF Lower
<1>10. StrictOrder(R, D)
  BY <1>5, <1>7, <1>8, <1>9 DEF StrictOrder
<1>11. QED
  BY <1>6, <1>10 DEF R, D

LEMMA DefaultOrderIs ==
  ASSUME NEW sections \in SectionTables, NEW S \in SUBSET DOMAIN sections
  PROVE  /\ InDefaultOrder(sections, S) \in Orders(Names)
         /\ ToSet(InDefaultOrder(sections, S)) = S
<1> DEFINE n == Cardinality(S)
           D == DOMAIN sections
           R == {p \in D \X D : Before(sections, p[1], p[2])}
           Sorted(f) == \A i, j \in DOMAIN f : i < j => Before(sections, f[i], f[j])
           q == InDefaultOrder(sections, S)
<1>1. D \subseteq Names
  BY DEF SectionTables, Tables
<1>2. IsFiniteSet(S) /\ n \in Nat
  <2>1. IsFiniteSet(DOMAIN SectionNames) /\ DOMAIN SectionNames = DOMAIN SectionNames
    BY PanelAssumption, LenProperties, FS_Interval
  <2>2. IsFiniteSet({SectionNames[i] : i \in DOMAIN SectionNames})
    BY <2>1, ImageIsFinite
  <2>3. IsFiniteSet(S)
    BY <1>1, <2>2, FS_Subset DEF Names, ToSet
  <2>4. QED
    BY <2>3, FS_CardinalityType
<1>3. /\ StrictOrder(R, D)
      /\ \A s, t \in D : <<s, t>> \in R <=> Before(sections, s, t)
  BY BeforeIsStrict
<1> HIDE DEF R, D
<1>4. StrictOrder(R, S) /\ S \subseteq D
  BY <1>3 DEF StrictOrder, D
<1>5. PICK g \in [1..n -> S] : \A i, j \in 1..n : i < j => <<g[i], g[j]>> \in R
  BY <1>2, <1>4, SortedExists
<1>6. Sorted(g)
  BY <1>3, <1>4, <1>5
<1>7. q = CHOOSE f \in [1..n -> S] : Sorted(f)
  BY DEF InDefaultOrder
<1> HIDE DEF q, n
<1>8. q \in [1..n -> S] /\ Sorted(q)
  <2> HIDE DEF Sorted
  <2>1. QED
    BY <1>5, <1>6, <1>7
<1>9. \A i, j \in 1..n : q[i] = q[j] => i = j
  <2> SUFFICES ASSUME NEW i \in 1..n, NEW j \in 1..n, q[i] = q[j], i < j PROVE FALSE
    BY <1>2
  <2>1. q[i] \in D /\ q[j] \in D /\ Before(sections, q[i], q[j])
    BY <1>4, <1>8
  <2>2. <<q[i], q[i]>> \in R
    BY <1>3, <2>1
  <2>3. QED
    BY <1>3, <2>1, <2>2 DEF StrictOrder
<1>10. q \in Injection(1..n, S)
  BY <1>8, <1>9 DEF Injection, IsInjective
<1>11. q \in Surjection(1..n, S)
  <2>1. IsFiniteSet(1..n) /\ Cardinality(1..n) = n
    BY <1>2, FS_Interval
  <2>2. QED
    BY <1>2, <1>10, <2>1, FS_Injection DEF n
<1>12. ToSet(q) = S
  BY <1>8, <1>11 DEF Surjection, ToSet
<1>13. q \in Seq(Names)
  <2>1. q \in [1..n -> Names]
    BY <1>1, <1>4, <1>8
  <2>2. QED
    BY <1>2, <2>1, SeqDef
<1>14. QED
  BY <1>10, <1>12, <1>13 DEF Orders, Injection, q

\* Two orders of different names, one after the other.
LEMMA OneAfterTheOther ==
  ASSUME NEW S, NEW p \in Orders(S), NEW q \in Orders(S), ToSet(p) \cap ToSet(q) = {}
  PROVE  p \o q \in Orders(S) /\ ToSet(p \o q) = ToSet(p) \cup ToSet(q)
<1>1. p \in Seq(S) /\ q \in Seq(S) /\ IsInjective(p) /\ IsInjective(q)
  BY DEF Orders
<1>2. /\ p \o q \in Seq(S) /\ Len(p \o q) = Len(p) + Len(q)
      /\ \A i \in 1..(Len(p) + Len(q)) :
            (p \o q)[i] = IF i <= Len(p) THEN p[i] ELSE q[i - Len(p)]
  BY <1>1, ConcatProperties
<1>3. /\ Len(p) \in Nat /\ Len(q) \in Nat /\ DOMAIN p = 1..Len(p) /\ DOMAIN q = 1..Len(q)
      /\ DOMAIN (p \o q) = 1..(Len(p) + Len(q))
  BY <1>1, <1>2, LenProperties
<1> DEFINE c == p \o q
<1>4. \A i \in 1..Len(p) : c[i] = p[i] /\ c[i] \in ToSet(p)
  BY <1>2, <1>3 DEF ToSet
<1>5. \A j \in 1..Len(q) : c[Len(p) + j] = q[j] /\ c[Len(p) + j] \in ToSet(q)
  <2> SUFFICES ASSUME NEW j \in 1..Len(q)
               PROVE  c[Len(p) + j] = q[j] /\ c[Len(p) + j] \in ToSet(q)
    OBVIOUS
  <2>1. Len(p) + j \in 1..(Len(p) + Len(q)) /\ ~ (Len(p) + j <= Len(p))
        /\ Len(p) + j - Len(p) = j
    BY <1>3
  <2>2. c[Len(p) + j] = q[j]
    BY <1>2, <2>1
  <2>3. QED
    BY <1>3, <2>2 DEF ToSet
<1> HIDE DEF c
<1>6. \A k \in 1..(Len(p) + Len(q)) :
         k \in 1..Len(p) \/ \E j \in 1..Len(q) : k = Len(p) + j
  <2> SUFFICES ASSUME NEW k \in 1..(Len(p) + Len(q)), k \notin 1..Len(p)
               PROVE  \E j \in 1..Len(q) : k = Len(p) + j
    OBVIOUS
  <2>1. k - Len(p) \in 1..Len(q) /\ k = Len(p) + (k - Len(p))
    BY <1>3
  <2>2. QED
    BY <2>1
<1>7. \A k, l \in 1..(Len(p) + Len(q)) : c[k] = c[l] => k = l
  <2> SUFFICES ASSUME NEW k \in 1..(Len(p) + Len(q)), NEW l \in 1..(Len(p) + Len(q)),
                      c[k] = c[l]
               PROVE  k = l
    OBVIOUS
  <2>1. CASE k \in 1..Len(p) /\ l \in 1..Len(p)
    BY <1>1, <1>3, <1>4, <2>1 DEF IsInjective
  <2>2. CASE k \in 1..Len(p) /\ l \notin 1..Len(p)
    <3>1. PICK j \in 1..Len(q) : l = Len(p) + j
      BY <1>6, <2>2
    <3>2. c[k] \in ToSet(p) /\ c[l] \in ToSet(q)
      BY <1>4, <1>5, <2>2, <3>1
    <3>3. QED
      BY <3>2
  <2>3. CASE k \notin 1..Len(p) /\ l \in 1..Len(p)
    <3>1. PICK j \in 1..Len(q) : k = Len(p) + j
      BY <1>6, <2>3
    <3>2. c[l] \in ToSet(p) /\ c[k] \in ToSet(q)
      BY <1>4, <1>5, <2>3, <3>1
    <3>3. QED
      BY <3>2
  <2>4. CASE k \notin 1..Len(p) /\ l \notin 1..Len(p)
    <3>1. PICK i \in 1..Len(q) : k = Len(p) + i
      BY <1>6, <2>4
    <3>2. PICK j \in 1..Len(q) : l = Len(p) + j
      BY <1>6, <2>4
    <3>3. q[i] = q[j]
      BY <1>5, <3>1, <3>2
    <3>4. QED
      BY <1>1, <1>3, <3>1, <3>2, <3>3 DEF IsInjective
  <2>5. QED
    BY <2>1, <2>2, <2>3, <2>4
<1>8. ToSet(c) = ToSet(p) \cup ToSet(q)
  <2>1. ToSet(c) \subseteq ToSet(p) \cup ToSet(q)
    <3>1. \A k \in 1..(Len(p) + Len(q)) : c[k] \in ToSet(p) \cup ToSet(q)
      BY <1>4, <1>5, <1>6
    <3>2. DOMAIN c = 1..(Len(p) + Len(q))
      BY <1>3 DEF c
    <3>3. QED
      BY <3>1, <3>2 DEF ToSet
  <2>2. ToSet(p) \subseteq ToSet(c)
    <3> SUFFICES ASSUME NEW i \in 1..Len(p) PROVE p[i] \in ToSet(c)
      BY <1>3 DEF ToSet
    <3>1. i \in DOMAIN c /\ c[i] = p[i]
      BY <1>3, <1>4 DEF c
    <3>2. QED
      BY <3>1 DEF ToSet
  <2>3. ToSet(q) \subseteq ToSet(c)
    <3> SUFFICES ASSUME NEW j \in 1..Len(q) PROVE q[j] \in ToSet(c)
      BY <1>3 DEF ToSet
    <3>1. Len(p) + j \in DOMAIN c /\ c[Len(p) + j] = q[j]
      BY <1>3, <1>5 DEF c
    <3>2. QED
      BY <3>1 DEF ToSet
  <2>4. QED
    BY <2>1, <2>2, <2>3
<1>9. IsInjective(c)
  BY <1>3, <1>7 DEF IsInjective, c
<1>10. QED
  BY <1>2, <1>8, <1>9 DEF Orders, c

\* A relayout shows every section once, whatever order the user chose.
LEMMA ArrangedIs ==
  ASSUME NEW r, r.sections \in SectionTables, NEW order \in Orders(Names)
  PROVE  /\ Arranged(r, order) \in Orders(Names)
         /\ ToSet(Arranged(r, order)) = DOMAIN r.sections
<1> DEFINE D == DOMAIN r.sections
           p == Only(order, D)
           q == InDefaultOrder(r.sections, D \ ToSet(order))
<1>1. p \in Orders(Names) /\ ToSet(p) = ToSet(order) \cap D
  BY OnlyIs DEF Orders
<1>2. q \in Orders(Names) /\ ToSet(q) = D \ ToSet(order)
  BY DefaultOrderIs
<1>3. Arranged(r, order) = p \o q
  BY DEF Arranged
<1> HIDE DEF p, q
<1>4. p \o q \in Orders(Names) /\ ToSet(p \o q) = ToSet(p) \cup ToSet(q)
  <2>1. ToSet(p) \cap ToSet(q) = {}
    BY <1>1, <1>2
  <2>2. QED
    BY <1>1, <1>2, <2>1, OneAfterTheOther
<1>5. QED
  BY <1>1, <1>2, <1>3, <1>4
-----------------------------------------------------------------------------
(* The tables of the panel.                                                *)

Registries ==
    [ curves    : SUBSET Variables,
      controls  : SUBSET Variables,
      desc      : Tables(Variables, Descriptors),
      sectionOf : Tables(Variables, Names),
      sections  : SectionTables,
      groups    : Tables(Tasks, Names),
      latency   : Tables(Tasks, Variables) ]

\* Every variable but those that are out for the moment stands in its section and in no
\* other, no section is empty, and the groups are those of sections that are there.
Placed(r, out) ==
    /\ \A s \in DOMAIN r.sections :
        /\ r.sections[s].items # {}
        /\ r.sections[s].items = {v \in DOMAIN r.sectionOf \ out : r.sectionOf[v] = s}
    /\ \A v \in DOMAIN r.sectionOf \ out : r.sectionOf[v] \in DOMAIN r.sections
    /\ \A t \in DOMAIN r.groups :
        t # 0 /\ r.groups[t] \in DOMAIN r.sections /\ r.sections[r.groups[t]].task = t
    /\ "Derived" \in DOMAIN r.sections => r.sections["Derived"].task = 0

\* The tables agree, with own the derived curves there are.
Agreeing(r, own) ==
    /\ r \in Registries /\ Placed(r, {}) /\ IsFiniteSet(DOMAIN r.desc)
    /\ r.controls \subseteq r.curves /\ StaticNames \subseteq r.curves
    /\ DOMAIN r.desc \subseteq DOMAIN r.sectionOf
    /\ DOMAIN r.sectionOf = r.curves \ StaticNames
    /\ own \subseteq DOMAIN r.sectionOf /\ own \cap DOMAIN r.desc = {}
    /\ \A v \in DOMAIN r.sectionOf : v \in own <=> r.sectionOf[v] = "Derived"

LEMMA WithIs ==
  ASSUME NEW X, NEW Y, NEW f \in Tables(X, Y), NEW x, NEW y
  PROVE  /\ DOMAIN With(f, x, y) = DOMAIN f \cup {x} /\ With(f, x, y)[x] = y
         /\ \A z \in DOMAIN f : z # x => With(f, x, y)[z] = f[z]
         /\ x \in X /\ y \in Y => With(f, x, y) \in Tables(X, Y)
<1>1. /\ DOMAIN With(f, x, y) = DOMAIN f \cup {x} /\ With(f, x, y)[x] = y
      /\ \A z \in DOMAIN f : z # x => With(f, x, y)[z] = f[z]
  BY DEF With
<1>2. ASSUME x \in X, y \in Y PROVE With(f, x, y) \in Tables(X, Y)
  <2>1. DOMAIN f \in SUBSET X /\ \A z \in DOMAIN f : f[z] \in Y
    BY DEF Tables
  <2>2. With(f, x, y) \in [DOMAIN f \cup {x} -> Y]
    BY <1>2, <2>1 DEF With
  <2>3. DOMAIN f \cup {x} \in SUBSET X
    BY <1>2, <2>1
  <2>4. QED
    BY <2>2, <2>3 DEF Tables
<1>3. QED
  BY <1>1, <1>2

LEMMA WithoutIs ==
  ASSUME NEW X, NEW Y, NEW f \in Tables(X, Y), NEW x
  PROVE  /\ DOMAIN Without(f, x) = DOMAIN f \ {x}
         /\ \A z \in DOMAIN f : z # x => Without(f, x)[z] = f[z]
         /\ Without(f, x) \in Tables(X, Y)
<1>1. /\ DOMAIN Without(f, x) = DOMAIN f \ {x}
      /\ \A z \in DOMAIN f : z # x => Without(f, x)[z] = f[z]
  BY DEF Without
<1>2. DOMAIN f \in SUBSET X /\ \A z \in DOMAIN f : f[z] \in Y
  BY DEF Tables
<1>3. Without(f, x) \in [DOMAIN f \ {x} -> Y]
  BY <1>2 DEF Without
<1>4. DOMAIN f \ {x} \in SUBSET X
  BY <1>2
<1>5. QED
  BY <1>1, <1>3, <1>4 DEF Tables

\* What is taken out of a section leaves the other variables where they are.
LEMMA TakenOut ==
  ASSUME NEW r \in Registries, Placed(r, {}), NEW v,
         v \in DOMAIN r.sectionOf => r.sectionOf[v] # "Derived"
  PROVE  LET q == TakeOut(r, v)
         IN  /\ q \in Registries /\ Placed(q, {v})
             /\ q.curves = r.curves /\ q.controls = r.controls
             /\ q.desc = r.desc /\ q.sectionOf = r.sectionOf
<1> DEFINE q == TakeOut(r, v)
           s == r.sectionOf[v]
<1>1. CASE v \notin DOMAIN r.sectionOf
  <2>1. q = r
    BY <1>1 DEF TakeOut
  <2>2. Placed(r, {v})
    BY <1>1 DEF Placed
  <2>3. QED
    BY <2>1, <2>2
<1>2. CASE v \in DOMAIN r.sectionOf
  <2> DEFINE left == r.sections[s].items \ {v}
             table == [r.sections EXCEPT ![s].items = left]
             less == [r EXCEPT !.sections[s].items = @ \ {v}]
             task == r.sections[s].task
  <2>1. s \in DOMAIN r.sections /\ v \in r.sections[s].items /\ s # "Derived"
    BY <1>2 DEF Placed
  <2>2. q = RemoveEmpty(less, s)
    BY <1>2, <2>1 DEF TakeOut
  <2>3. r.sections \in SectionTables /\ r.sections[s] \in Sections
    BY <2>1 DEF Registries, SectionTables, Tables
  <2>4. /\ DOMAIN table = DOMAIN r.sections
        /\ table[s] = [items |-> left, task |-> task, order |-> r.sections[s].order]
        /\ \A u \in DOMAIN r.sections : u # s => table[u] = r.sections[u]
    BY <2>1, <2>3 DEF Sections
  <2>5. table \in SectionTables
    <3>1. DOMAIN r.sections \subseteq Names /\ \A u \in DOMAIN r.sections : r.sections[u] \in Sections
      BY <2>3 DEF SectionTables, Tables
    <3>2. table[s] \in Sections
      <4>1. task \in Nat /\ r.sections[s].order \in Nat /\ left \in SUBSET Variables
        BY <2>3 DEF Sections
      <4> HIDE DEF task, left, table
      <4>2. QED
        BY <2>4, <4>1 DEF Sections
    <3>3. table \in [DOMAIN r.sections -> Sections]
      <4>1. table = [u \in DOMAIN r.sections |-> table[u]]
        BY <2>3 DEF SectionTables, Tables
      <4> HIDE DEF table
      <4>2. \A u \in DOMAIN r.sections : table[u] \in Sections
        BY <3>1, <3>2, <2>4
      <4>3. QED
        BY <4>1, <4>2
    <3>4. QED
      BY <3>1, <3>3 DEF SectionTables, Tables
  <2>6. less = [r EXCEPT !.sections = table]
    BY DEF Registries
  <2>7. \A u \in DOMAIN r.sections : u # s =>
           r.sections[u].items = {w \in DOMAIN r.sectionOf \ {v} : r.sectionOf[w] = u}
    BY <1>2, <2>1 DEF Placed
  <2>8. left = {w \in DOMAIN r.sectionOf \ {v} : r.sectionOf[w] = s}
    BY <2>1 DEF Placed
  <2> HIDE DEF table, less, left, s
  <2>9. CASE left # {}
    <3>1. q = [r EXCEPT !.sections = table]
      <4>1. less.sections = table
        BY <2>6 DEF Registries
      <4>2. less.sections[s].items = left
        BY <2>4, <4>1
      <4>3. QED
        BY <2>2, <2>6, <2>9, <4>2 DEF RemoveEmpty
    <3>2. /\ q \in Registries /\ q.sections = table /\ q.groups = r.groups
          /\ q.curves = r.curves /\ q.controls = r.controls
          /\ q.desc = r.desc /\ q.sectionOf = r.sectionOf
      BY <2>5, <3>1 DEF Registries
    <3> HIDE DEF q
    <3>3. Placed(q, {v})
      BY <2>1, <2>4, <2>7, <2>8, <2>9, <3>2 DEF Placed
    <3>4. QED
      BY <3>2, <3>3 DEF q
  <2>10. CASE left = {}
    <3> DEFINE rest == Without(table, s)
               groups == IF task = 0 THEN r.groups ELSE Without(r.groups, task)
               latency == IF task = 0 THEN r.latency ELSE Without(r.latency, task)
    <3>1. q = [r EXCEPT !.sections = rest, !.groups = groups, !.latency = latency]
      <4>1. less.sections = table /\ less.groups = r.groups /\ less.latency = r.latency
        BY <2>6 DEF Registries
      <4>2. s \in DOMAIN less.sections /\ less.sections[s].items = {} /\ less.sections[s].task = task
        BY <2>1, <2>4, <2>10, <4>1
      <4>3. q = LET bare == [less EXCEPT !.sections = Without(@, s)]
                IN  IF task = 0 THEN bare
                    ELSE [bare EXCEPT !.groups = Without(@, task), !.latency = Without(@, task)]
        BY <2>1, <2>2, <4>2 DEF RemoveEmpty
      <4> HIDE DEF q, task
      <4>4. QED
        BY <2>6, <4>1, <4>3 DEF Registries
    <3>2. /\ rest \in SectionTables /\ DOMAIN rest = DOMAIN r.sections \ {s}
          /\ \A u \in DOMAIN rest : rest[u] = r.sections[u]
      <4>1. table \in Tables(Names, Sections)
        BY <2>5 DEF SectionTables
      <4>2. rest \in Tables(Names, Sections)
        BY <4>1, WithoutIs
      <4>3. DOMAIN rest = DOMAIN table \ {s} /\ \A u \in DOMAIN table : u # s => rest[u] = table[u]
        BY DEF Without
      <4> HIDE DEF rest
      <4>4. QED
        BY <2>4, <4>2, <4>3 DEF SectionTables
    <3>3. /\ r.groups \in Tables(Tasks, Names)
          /\ r.latency \in Tables(Tasks, Variables)
      BY DEF Registries
    <3>4. /\ groups \in Tables(Tasks, Names)
          /\ latency \in Tables(Tasks, Variables)
      BY <3>3, WithoutIs
    <3>5. \A t \in DOMAIN groups :
             t \in DOMAIN r.groups /\ groups[t] = r.groups[t] /\ (task # 0 => t # task)
      <4>1. /\ DOMAIN Without(r.groups, task) = DOMAIN r.groups \ {task}
            /\ \A t \in DOMAIN r.groups : t # task => Without(r.groups, task)[t] = r.groups[t]
        BY DEF Without
      <4>2. QED
        BY <4>1
    <3>6. \A t \in DOMAIN groups : groups[t] # s
      BY <3>5 DEF Placed
    <3> HIDE DEF rest, groups, latency, q
    <3>7. /\ q \in Registries /\ q.sections = rest /\ q.groups = groups
          /\ q.curves = r.curves /\ q.controls = r.controls
          /\ q.desc = r.desc /\ q.sectionOf = r.sectionOf
      BY <3>1, <3>2, <3>4 DEF Registries
    <3>8. \A w \in DOMAIN r.sectionOf \ {v} : r.sectionOf[w] \in DOMAIN rest
      BY <2>8, <2>10, <3>2 DEF Placed
    <3>9. \A u \in DOMAIN rest : rest[u].items # {}
      BY <3>2 DEF Placed
    <3>10. \A t \in DOMAIN groups :
              t # 0 /\ groups[t] \in DOMAIN rest /\ rest[groups[t]].task = t
      BY <3>2, <3>5, <3>6 DEF Placed
    <3>11. "Derived" \in DOMAIN rest => rest["Derived"].task = 0
      BY <3>2 DEF Placed
    <3>12. Placed(q, {v})
      BY <2>7, <3>2, <3>7, <3>8, <3>9, <3>10, <3>11 DEF Placed
    <3>13. QED
      BY <3>7, <3>12 DEF q
  <2>11. QED
    BY <2>9, <2>10
<1>3. QED
  BY <1>1, <1>2
\* The tables with a variable put into a section.
Put(r, v, s, task, order) ==
    LET there == Section(r, s, task, order)
    IN  [there EXCEPT !.sectionOf = With(@, v, s), !.sections[s].items = @ \cup {v}]

\* Of two writes to a table the later one stays.
LEMMA TablesReplaced ==
  ASSUME NEW r \in Registries, NEW first, NEW of, NEW table
  PROVE  [[r EXCEPT !.sections = first] EXCEPT !.sectionOf = of, !.sections = table] =
           [r EXCEPT !.sectionOf = of, !.sections = table, !.groups = r.groups]
BY DEF Registries

\* A variable put into a section stands there and nowhere else, and a section made for it
\* is the one its group points to.
LEMMA PutIn ==
  ASSUME NEW r \in Registries, NEW v \in Variables, NEW out \in SUBSET {v}, Placed(r, out),
         NEW s \in Names, NEW task \in Nat, NEW order \in Nat,
         v \in DOMAIN r.sectionOf \ out => r.sectionOf[v] = s,
         task # 0 => task \in Tasks, s = "Derived" => task = 0
  PROVE  LET q == Put(r, v, s, task, order)
         IN  /\ q \in Registries /\ Placed(q, {})
             /\ q.curves = r.curves /\ q.controls = r.controls
             /\ q.desc = r.desc /\ q.sectionOf = With(r.sectionOf, v, s)
<1> DEFINE there == Section(r, s, task, order)
           q == [there EXCEPT !.sectionOf = With(@, v, s), !.sections[s].items = @ \cup {v}]
           known == s \in DOMAIN r.sections
           box == [ items |-> (IF known THEN r.sections[s].items ELSE {}) \cup {v},
                    task  |-> IF known THEN r.sections[s].task ELSE task, order |-> order ]
           table == IF known THEN [r.sections EXCEPT ![s] = box] ELSE With(r.sections, s, box)
           groups == IF known \/ task = 0 THEN r.groups ELSE With(r.groups, task, s)
           of == With(r.sectionOf, v, s)
<1>1. /\ r.sections \in Tables(Names, Sections) /\ r.sectionOf \in Tables(Variables, Names)
      /\ r.groups \in Tables(Tasks, Names)
      /\ known => r.sections[s] \in Sections
  <2>1. /\ r.sections \in Tables(Names, Sections) /\ r.sectionOf \in Tables(Variables, Names)
        /\ r.groups \in Tables(Tasks, Names)
    BY DEF Registries, SectionTables
  <2>2. QED
    BY <2>1 DEF Tables
<1>2. box \in Sections
  BY <1>1 DEF Sections
<1>3. DOMAIN r.sections \subseteq Names /\ \A u \in DOMAIN r.sections : r.sections[u] \in Sections
  BY <1>1 DEF Tables
<1>4. /\ DOMAIN table = DOMAIN r.sections \cup {s} /\ table[s] = box
      /\ \A u \in DOMAIN r.sections : u # s => table[u] = r.sections[u]
  BY DEF With
<1> HIDE DEF box
<1>5. table \in SectionTables
  <2> HIDE DEF table
  <2>1. table \in [DOMAIN table -> Sections] \/ ~ (table \in [DOMAIN table -> Sections])
    OBVIOUS
  <2>2. \A u \in DOMAIN table : table[u] \in Sections
    BY <1>2, <1>3, <1>4
  <2>3. table = [u \in DOMAIN table |-> table[u]]
    BY <1>4 DEF table, With
  <2>4. table \in [DOMAIN table -> Sections]
    BY <2>2, <2>3
  <2>5. DOMAIN table \in SUBSET Names
    BY <1>3, <1>4
  <2>6. QED
    BY <2>4, <2>5 DEF SectionTables, Tables
<1>6. groups \in Tables(Tasks, Names) /\ of \in Tables(Variables, Names)
  BY <1>1, WithIs
<1>7. /\ DOMAIN of = DOMAIN r.sectionOf \cup {v} /\ of[v] = s
      /\ \A w \in DOMAIN r.sectionOf : w # v => of[w] = r.sectionOf[w]
  BY DEF With
<1>8. \A t \in DOMAIN groups :
         \/ t \in DOMAIN r.groups /\ groups[t] = r.groups[t]
         \/ t = task /\ task # 0 /\ ~ known /\ groups[t] = s
  BY DEF With
<1>9. q = [r EXCEPT !.sectionOf = of, !.sections = table, !.groups = groups]
  <2>1. CASE known
    <3>1. there = [r EXCEPT !.sections[s].order = order]
      BY <2>1 DEF Section
    <3>2. /\ there.sectionOf = r.sectionOf
          /\ there.sections = [r.sections EXCEPT ![s].order = order]
          /\ there = [r EXCEPT !.sections = there.sections]
      BY <3>1 DEF Registries
    <3>3. there.sections[s] = [r.sections[s] EXCEPT !.order = order] /\ s \in DOMAIN there.sections
      BY <2>1, <3>2
    <3>4. [there.sections EXCEPT ![s].items = @ \cup {v}] = table
      <4>1. [there.sections[s] EXCEPT !.items = @ \cup {v}] = box
        <5>1. r.sections[s] \in Sections
          BY <1>1, <2>1
        <5>2. box = [ items |-> r.sections[s].items \cup {v}, task |-> r.sections[s].task,
                      order |-> order ]
          BY <2>1 DEF box
        <5> HIDE DEF there
        <5>3. there.sections[s] =
                [items |-> r.sections[s].items, task |-> r.sections[s].task, order |-> order]
          BY <3>3, <5>1, SectionWithOrder
        <5>4. there.sections[s] \in Sections
          BY <5>1, <5>3 DEF Sections
        <5>5. /\ there.sections[s].items = r.sections[s].items
              /\ there.sections[s].task = r.sections[s].task /\ there.sections[s].order = order
          BY <5>3
        <5> HIDE DEF box
        <5>6. [there.sections[s] EXCEPT !.items = @ \cup {v}] =
                [items |-> there.sections[s].items \cup {v}, task |-> there.sections[s].task,
                 order |-> there.sections[s].order]
          BY <5>4, SectionWithItems
        <5>7. QED
          BY <5>2, <5>5, <5>6
      <4>2. [there.sections EXCEPT ![s].items = @ \cup {v}] = [there.sections EXCEPT ![s] = box]
        BY <3>3, <4>1
      <4>3. [there.sections EXCEPT ![s] = box] = [r.sections EXCEPT ![s] = box]
        BY <2>1, <3>2
      <4>4. QED
        BY <2>1, <4>2, <4>3
    <3>5. groups = r.groups
      BY <2>1
    <3> HIDE DEF there, table, of, groups, known
    <3>6. q = [there EXCEPT !.sectionOf = of, !.sections = table]
      BY <3>2, <3>4 DEF of
    <3>7. q = [[r EXCEPT !.sections = there.sections] EXCEPT !.sectionOf = of, !.sections = table]
      BY <3>2, <3>6
    <3> HIDE DEF q
    <3>8. QED
      BY <3>5, <3>7, TablesReplaced
  <2>2. CASE ~ known
    <3> DEFINE new == [items |-> {}, task |-> task, order |-> order]
    <3>1. there = [r EXCEPT !.sections = With(r.sections, s, new), !.groups = groups]
      BY <2>2 DEF Section, Registries
    <3>2. /\ there.sectionOf = r.sectionOf
          /\ there.sections = With(r.sections, s, new) /\ there.groups = groups
      BY <3>1 DEF Registries
    <3>3. [there.sections EXCEPT ![s].items = @ \cup {v}] = table
      <4>1. [new EXCEPT !.items = @ \cup {v}] = box
        BY <2>2 DEF box
      <4>2. there.sections[s] = new /\ s \in DOMAIN there.sections
        BY <3>2 DEF With
      <4>3. [there.sections EXCEPT ![s].items = @ \cup {v}] = [there.sections EXCEPT ![s] = box]
        BY <4>1, <4>2
      <4>4. [there.sections EXCEPT ![s] = box] = With(r.sections, s, box)
        BY <3>2 DEF With
      <4>5. QED
        BY <2>2, <4>3, <4>4
    <3> HIDE DEF there, table, of, groups, known
    <3>4. q = [there EXCEPT !.sectionOf = of, !.sections = table]
      BY <3>2, <3>3 DEF of
    <3>5. QED
      BY <3>1, <3>4 DEF Registries
  <2>3. QED
    BY <2>1, <2>2
<1> HIDE DEF table, groups, of, q, there
<1>10. /\ q \in Registries /\ q.curves = r.curves /\ q.controls = r.controls
       /\ q.desc = r.desc /\ q.sectionOf = of /\ q.sections = table /\ q.groups = groups
  BY <1>5, <1>6, <1>9 DEF Registries
<1>11. \A u \in DOMAIN table :
          table[u].items # {} /\ table[u].items = {w \in DOMAIN of : of[w] = u}
  <2>1. ASSUME NEW u \in DOMAIN r.sections, u # s
        PROVE  r.sections[u].items = {w \in DOMAIN of : of[w] = u} /\ r.sections[u].items # {}
    BY <1>7, <2>1 DEF Placed
  <2>2. known => r.sections[s].items \cup {v} = {w \in DOMAIN of : of[w] = s}
    BY <1>7 DEF Placed
  <2>3. ~ known => {v} = {w \in DOMAIN of : of[w] = s}
    BY <1>7 DEF Placed
  <2>4. box.items # {} /\ box.items = {w \in DOMAIN of : of[w] = s}
    BY <2>2, <2>3 DEF box
  <2>5. QED
    BY <1>4, <2>1, <2>4
<1>12. \A w \in DOMAIN of : of[w] \in DOMAIN table
  BY <1>4, <1>7 DEF Placed
<1>13. \A t \in DOMAIN groups :
          t # 0 /\ groups[t] \in DOMAIN table /\ table[groups[t]].task = t
  <2>1. known => box.task = r.sections[s].task
    BY DEF box
  <2>2. ~ known => box.task = task
    BY DEF box
  <2>3. QED
    BY <1>4, <1>8, <2>1, <2>2 DEF Placed
<1>14. "Derived" \in DOMAIN table => table["Derived"].task = 0
  BY <1>4 DEF Placed, box
<1>15. Placed(q, {})
  BY <1>10, <1>11, <1>12, <1>13, <1>14 DEF Placed
<1>16. Put(r, v, s, task, order) = q
  BY DEF Put, q, there
<1>17. QED
  BY <1>10, <1>15, <1>16 DEF of

\* What is removed has no section, no curve and no control any more.
LEMMA Removed ==
  ASSUME NEW own, NEW r, Agreeing(r, own), NEW v, v \notin own \cup StaticNames
  PROVE  Agreeing(RemoveDynamic(r, v), own)
<1> DEFINE out == TakeOut(r, v)
           q == RemoveDynamic(r, v)
<1>1. /\ out \in Registries /\ Placed(out, {v})
      /\ out.curves = r.curves /\ out.controls = r.controls
      /\ out.desc = r.desc /\ out.sectionOf = r.sectionOf
  BY TakenOut DEF Agreeing
<1>2. /\ DOMAIN Without(r.desc, v) = DOMAIN r.desc \ {v}
      /\ DOMAIN Without(r.sectionOf, v) = DOMAIN r.sectionOf \ {v}
      /\ \A w \in DOMAIN r.sectionOf \ {v} : Without(r.sectionOf, v)[w] = r.sectionOf[w]
  BY DEF Without
<1>3. /\ Without(r.desc, v) \in Tables(Variables, Descriptors)
      /\ Without(r.sectionOf, v) \in Tables(Variables, Names)
  <2>1. r.desc \in Tables(Variables, Descriptors) /\ r.sectionOf \in Tables(Variables, Names)
    BY DEF Agreeing, Registries
  <2>2. QED
    BY <2>1, WithoutIs
<1>4. q = [out EXCEPT !.curves = r.curves \ {v}, !.controls = r.controls \ {v},
                      !.desc = Without(r.desc, v), !.sectionOf = Without(r.sectionOf, v)]
  BY <1>1 DEF RemoveDynamic
<1> HIDE DEF out, q
<1>5. /\ q.curves = r.curves \ {v} /\ q.controls = r.controls \ {v}
      /\ q.desc = Without(r.desc, v) /\ q.sectionOf = Without(r.sectionOf, v)
      /\ q.sections = out.sections /\ q.groups = out.groups /\ q \in Registries
  BY <1>1, <1>3, <1>4 DEF Registries
<1>6. Placed(q, {})
  BY <1>1, <1>2, <1>5 DEF Placed
<1>7. IsFiniteSet(DOMAIN q.desc)
  BY <1>2, <1>5, FS_Subset DEF Agreeing
<1>8. /\ StaticNames \subseteq q.curves /\ q.controls \subseteq q.curves
      /\ DOMAIN q.desc \subseteq DOMAIN q.sectionOf
      /\ DOMAIN q.sectionOf = q.curves \ StaticNames
      /\ own \subseteq DOMAIN q.sectionOf /\ own \cap DOMAIN q.desc = {}
  BY <1>2, <1>5 DEF Agreeing
<1>9. \A w \in DOMAIN q.sectionOf : w \in own <=> q.sectionOf[w] = "Derived"
  BY <1>2, <1>5 DEF Agreeing
<1>10. Agreeing(q, own)
  BY <1>5, <1>6, <1>7, <1>8, <1>9 DEF Agreeing
<1>11. QED
  BY <1>10 DEF q

\* A variable of a schema is registered in its section.
LEMMA RegisteredIs ==
  ASSUME NEW r, Agreeing(r, Derived),
         NEW schema \in Schemas, NEW i \in DOMAIN schema
  PROVE  LET q == Registered(r, schema[i])
         IN  /\ Agreeing(q, Derived) /\ r.curves \subseteq q.curves
             /\ schema[i].var \in q.curves \cup Derived \cup StaticNames
<1> DEFINE d == schema[i]
           v == schema[i].var
           a == Announce(r, d)
           q == Registered(r, d)
<1>1. /\ d \in Descriptors /\ v \in Variables /\ (d.task # 0 => d.task \in Tasks)
      /\ (d.latency => d.task \in Tasks)
  <2>1. schema \in Seq(Descriptors)
    BY PanelAssumption
  <2>2. d \in Descriptors
    BY <2>1, ElementOfSeq, LenProperties
  <2>3. d.latency => d.task # 0
    BY PanelAssumption
  <2>4. v \in Variables /\ d.task \in Tasks
    <3>1. v \in Described(schema)
      BY DEF Described
    <3>2. d.task \in {schema[j].task : j \in DOMAIN schema}
      OBVIOUS
    <3>3. QED
      BY <3>1, <3>2 DEF Variables, Tasks
  <2>5. QED
    BY <2>2, <2>4
<1>2. CASE v \in Derived \cup StaticNames
  BY <1>2 DEF Registered
<1>3. CASE v \notin Derived \cup StaticNames
  <2> DEFINE controls == IF d.latency THEN r.controls \ {v} ELSE r.controls \cup {v}
             latency == IF d.latency THEN With(r.latency, d.task, v) ELSE r.latency
  <2>1. q = Place(a, d)
    BY <1>3 DEF Registered
  <2>2. /\ With(r.desc, v, d) \in Tables(Variables, Descriptors)
        /\ latency \in Tables(Tasks, Variables)
    <3>1. r.desc \in Tables(Variables, Descriptors) /\ r.latency \in Tables(Tasks, Variables)
      BY DEF Agreeing, Registries
    <3>2. QED
      BY <1>1, <3>1, WithIs
  <2>3. a = [r EXCEPT !.desc = With(r.desc, v, d), !.latency = latency,
                      !.curves = r.curves \cup {v}, !.controls = controls]
    BY DEF Announce
  <2>4. controls \subseteq r.curves \cup {v} /\ controls \subseteq Variables
    BY <1>1 DEF Agreeing, Registries
  <2>5. DOMAIN With(r.desc, v, d) = DOMAIN r.desc \cup {v}
    BY DEF With
  <2> HIDE DEF a, q, controls, latency, d, v
  <2>6. /\ a \in Registries /\ a.desc = With(r.desc, v, d) /\ a.curves = r.curves \cup {v}
        /\ a.controls = controls /\ a.sectionOf = r.sectionOf /\ a.sections = r.sections
        /\ a.groups = r.groups
    BY <1>1, <2>2, <2>3, <2>4 DEF Agreeing, Registries
  <2>7. Placed(a, {})
    BY <2>6 DEF Agreeing, Placed
  <2> DEFINE away == v \in DOMAIN r.sectionOf /\ r.sectionOf[v] # d.section
             moved == IF away THEN TakeOut(a, v) ELSE a
             out == IF away THEN {v} ELSE {}
  <2>8. /\ moved \in Registries /\ Placed(moved, out)
        /\ moved.curves = a.curves /\ moved.controls = a.controls
        /\ moved.desc = a.desc /\ moved.sectionOf = r.sectionOf
    <3>1. v \in DOMAIN a.sectionOf => a.sectionOf[v] # "Derived"
      BY <1>3, <2>6 DEF Agreeing
    <3>2. away => LET m == TakeOut(a, v)
                  IN  /\ m \in Registries /\ Placed(m, {v})
                      /\ m.curves = a.curves /\ m.controls = a.controls
                      /\ m.desc = a.desc /\ m.sectionOf = a.sectionOf
      BY <2>6, <2>7, <3>1, TakenOut
    <3>3. QED
      BY <2>6, <2>7, <3>2
  <2>9. q = Put(moved, v, d.section, d.task, d.order)
    BY <2>1, <2>6 DEF Place, Put, d, v
  <2>10. /\ d.section \in Names /\ d.section # "Derived" /\ d.task \in Nat /\ d.order \in Nat
    BY <1>1 DEF Descriptors
  <2>11. out \in SUBSET {v} /\ (v \in DOMAIN moved.sectionOf \ out => moved.sectionOf[v] = d.section)
    BY <2>8
  <2> HIDE DEF moved, out
  <2>12. /\ q \in Registries /\ Placed(q, {})
         /\ q.curves = moved.curves /\ q.controls = moved.controls
         /\ q.desc = moved.desc /\ q.sectionOf = With(moved.sectionOf, v, d.section)
    <3>1. v \in Variables /\ (d.task # 0 => d.task \in Tasks)
      BY <1>1 DEF d, v
    <3>2. QED
      BY <2>8, <2>9, <2>10, <2>11, <3>1, PutIn
  <2>13. /\ q.curves = r.curves \cup {v} /\ q.controls = controls
         /\ q.desc = With(r.desc, v, d) /\ q.sectionOf = With(r.sectionOf, v, d.section)
    BY <2>6, <2>8, <2>12
  <2>14. /\ DOMAIN q.sectionOf = DOMAIN r.sectionOf \cup {v} /\ q.sectionOf[v] = d.section
         /\ \A w \in DOMAIN r.sectionOf : w # v => q.sectionOf[w] = r.sectionOf[w]
    BY <2>13 DEF With
  <2>15. IsFiniteSet(DOMAIN q.desc)
    BY <2>5, <2>13, FS_AddElement DEF Agreeing
  <2>16. Agreeing(q, Derived)
    <3>1. /\ StaticNames \subseteq q.curves /\ q.controls \subseteq q.curves
          /\ DOMAIN q.desc \subseteq DOMAIN q.sectionOf
          /\ DOMAIN q.sectionOf = q.curves \ StaticNames
          /\ Derived \subseteq DOMAIN q.sectionOf /\ Derived \cap DOMAIN q.desc = {}
      BY <1>3, <2>4, <2>5, <2>13, <2>14 DEF Agreeing
    <3>2. \A w \in DOMAIN q.sectionOf : w \in Derived <=> q.sectionOf[w] = "Derived"
      BY <1>3, <2>10, <2>14 DEF Agreeing
    <3>3. QED
      BY <2>12, <2>15, <3>1, <3>2 DEF Agreeing
  <2>17. QED
    BY <2>13, <2>16 DEF q, d, v
<1>4. QED
  BY <1>2, <1>3

\* What was announced and is announced no longer is removed.
LEMMA Cleaned ==
  ASSUME NEW own, NEW r, Agreeing(r, own), NEW D \in SUBSET DOMAIN r.desc
  PROVE  Agreeing(FoldSet(LAMBDA v, q : RemoveDynamic(q, v), r, D), own)
<1> DEFINE Y == {q \in Registries : Agreeing(q, own)}
           pick == [s \in SUBSET D |-> CHOOSE x \in s : TRUE]
           Step(q, v) == RemoveDynamic(q, v)
           Made(f, s) == IF s = {} THEN r
                         ELSE Step(f[s \ {CHOOSE x \in s : TRUE}], CHOOSE x \in s : TRUE)
           Eqn(f) == f = [s \in SUBSET D |-> Made(f, s)]
           Result == FoldSet(LAMBDA v, q : RemoveDynamic(q, v), r, D)
<1>1. IsFiniteSet(D) /\ \A v \in D : v \notin own \cup StaticNames
  BY FS_Subset DEF Agreeing
<1>2. r \in Y
  BY DEF Agreeing
<1>3. \A s \in SUBSET D : s # {} => (CHOOSE x \in s : TRUE) \in s
  OBVIOUS
<1>4. ASSUME NEW q \in Y, NEW v \in D PROVE Step(q, v) \in Y
  <2>1. Agreeing(Step(q, v), own)
    BY <1>1, Removed
  <2> HIDE DEF Step
  <2>2. QED
    BY <2>1 DEF Agreeing
<1>5. Result = (CHOOSE f : Eqn(f))[D]
  BY DEF FoldSet, MapThenFoldSet
<1> HIDE DEF Step, Y, Result
<1>6. \E f : Eqn(f)
  <2> DEFINE op == [p \in D \X Y |-> Step(p[2], p[1])]
  <2>1. op \in [D \X Y -> Y]
    <3>1. \A p \in D \X Y : Step(p[2], p[1]) \in Y
      BY <1>4
    <3>2. QED
      BY <3>1
  <2>2. Picks(pick, D)
    BY <1>3 DEF Picks
  <2> HIDE DEF pick, op
  <2>3. PICK f \in [SUBSET D -> Y] : IsFold(f, op, r, pick, D)
    BY <1>1, <1>2, <2>1, <2>2, FoldExists
  <2>4. \A s \in SUBSET D : f[s] = Made(f, s)
    <3> USE DEF IsFold
    <3> SUFFICES ASSUME NEW s \in SUBSET D, s # {} PROVE f[s] = Made(f, s)
      BY <2>3
    <3> DEFINE x == CHOOSE y \in s : TRUE
    <3>1. pick[s] = x /\ x \in D
      BY <1>3 DEF pick
    <3>2. Made(f, s) = Step(f[s \ {x}], x)
      OBVIOUS
    <3> HIDE DEF x, Made
    <3>3. f[s \ {x}] \in Y
      BY <2>3
    <3>4. op[<<x, f[s \ {x}]>>] = Step(f[s \ {x}], x)
      BY <3>1, <3>3 DEF op
    <3>5. QED
      BY <2>3, <3>1, <3>2, <3>4
  <2> HIDE DEF Made
  <2>5. Eqn(f)
    BY <2>3, <2>4
  <2>6. QED
    BY <2>5
<1> HIDE DEF pick, Eqn
<1>7. PICK f : Eqn(f) /\ Result = f[D]
  BY <1>5, <1>6
<1>8. \A s \in SUBSET D : f[s] = Made(f, s)
  <2> HIDE DEF Made
  <2>1. QED
    BY <1>7 DEF Eqn
<1>9. f[{}] \in Y
  BY <1>2, <1>8
<1>10. \A s \in SUBSET D : s # {} /\ f[s \ {pick[s]}] \in Y => f[s] \in Y
  <2> SUFFICES ASSUME NEW s \in SUBSET D, s # {}, f[s \ {pick[s]}] \in Y
               PROVE  f[s] \in Y
    OBVIOUS
  <2> DEFINE x == CHOOSE y \in s : TRUE
  <2>1. pick[s] = x /\ x \in D
    BY <1>3 DEF pick
  <2>2. f[s] = Step(f[s \ {x}], x)
    BY <1>8
  <2> HIDE DEF x
  <2>3. QED
    BY <1>4, <2>1, <2>2
<1>11. Picks(pick, D)
  BY <1>3 DEF pick, Picks
<1>12. f[D] \in Y
  <2>1. IsFiniteSet(D)
    BY <1>1
  <2> HIDE DEF Made
  <2>2. QED
    BY <1>9, <1>10, <1>11, <2>1, FoldLands
<1>13. QED
  BY <1>7, <1>12 DEF Y, Result

\* A schema puts all its variables into the tables, and what the tables say agrees.
LEMMA RegisterIs ==
  ASSUME NEW r, Agreeing(r, Derived), NEW schema \in Schemas
  PROVE  LET q == Register(r, schema)
         IN  Agreeing(q, Derived) /\ Described(schema) \subseteq q.curves
<1> DEFINE D == DOMAIN schema
           n == Len(schema)
           Y == {q \in Registries : Agreeing(q, Derived)}
           pick == [s \in SUBSET D |-> Max(s)]
           clean == FoldSet(LAMBDA v, q : RemoveDynamic(q, v), r,
                        DOMAIN r.desc \ (Described(schema) \ (Derived \cup StaticNames)))
           Step(q, i) == Registered(q, schema[i])
           Made(f, s) == IF s = {} THEN clean ELSE Step(f[s \ {Max(s)}], Max(s))
           Eqn(f) == f = [s \in SUBSET D |-> Made(f, s)]
           Result == Register(r, schema)
<1>1. D = 1..n /\ n \in Nat /\ IsFiniteSet(D)
  <2>1. schema \in Seq(Descriptors)
    BY PanelAssumption
  <2>2. QED
    BY <2>1, LenProperties, FS_Interval
<1>2. clean \in Y
  <2> DEFINE gone == DOMAIN r.desc \ (Described(schema) \ (Derived \cup StaticNames))
  <2>1. gone \in SUBSET DOMAIN r.desc
    OBVIOUS
  <2> HIDE DEF gone
  <2>2. Agreeing(FoldSet(LAMBDA v, q : RemoveDynamic(q, v), r, gone), Derived)
    BY <2>1, Cleaned
  <2>3. Agreeing(clean, Derived)
    BY <2>2 DEF gone
  <2> HIDE DEF clean
  <2>4. QED
    BY <2>3 DEF Agreeing
<1>3. \A s \in SUBSET D : s # {} => Max(s) \in s /\ \A k \in s : Max(s) >= k
  <2> SUFFICES ASSUME NEW s \in SUBSET D, s # {}
               PROVE  Max(s) \in s /\ \A k \in s : Max(s) >= k
    OBVIOUS
  <2>1. IsFiniteSet(s)
    BY <1>1, FS_Subset
  <2>2. \E k \in s : \A l \in s : k >= l
    BY <1>1, <2>1, GreatestExists
  <2>3. QED
    BY <2>2 DEF Max
<1>4. ASSUME NEW q \in Y, NEW i \in D
      PROVE  /\ Step(q, i) \in Y /\ q.curves \subseteq Step(q, i).curves
             /\ schema[i].var \in Step(q, i).curves
  <2>1. /\ Agreeing(Step(q, i), Derived) /\ q.curves \subseteq Step(q, i).curves
        /\ schema[i].var \in Step(q, i).curves \cup Derived \cup StaticNames
    BY RegisteredIs
  <2> HIDE DEF Step
  <2>2. QED
    BY <2>1 DEF Agreeing
<1>5. Result = (CHOOSE f : Eqn(f))[D]
  BY DEF Register, FoldLeft, MapThenFoldSet
<1> HIDE DEF Step, Y, Result, clean
<1>6. \E f : Eqn(f)
  <2> DEFINE op == [p \in D \X Y |-> Step(p[2], p[1])]
  <2>1. op \in [D \X Y -> Y]
    <3>1. \A p \in D \X Y : Step(p[2], p[1]) \in Y
      BY <1>4
    <3>2. QED
      BY <3>1
  <2>2. Picks(pick, D)
    BY <1>3 DEF Picks
  <2> HIDE DEF D, pick, op
  <2>3. PICK f \in [SUBSET D -> Y] : IsFold(f, op, clean, pick, D)
    BY <1>1, <1>2, <2>1, <2>2, FoldExists
  <2>4. \A s \in SUBSET D : f[s] = Made(f, s)
    <3> USE DEF IsFold
    <3> SUFFICES ASSUME NEW s \in SUBSET D, s # {} PROVE f[s] = Made(f, s)
      BY <2>3
    <3>1. pick[s] = Max(s) /\ Max(s) \in D
      BY <1>3 DEF pick
    <3>2. f[s \ {Max(s)}] \in Y
      BY <2>3
    <3>3. op[<<Max(s), f[s \ {Max(s)}]>>] = Step(f[s \ {Max(s)}], Max(s))
      BY <3>1, <3>2 DEF op
    <3>4. QED
      BY <2>3, <3>1, <3>3
  <2> HIDE DEF Made
  <2>5. Eqn(f)
    BY <2>3, <2>4
  <2>6. QED
    BY <2>5
<1> HIDE DEF D, pick, Eqn
<1>7. PICK f : Eqn(f) /\ Result = f[D]
  BY <1>5, <1>6
<1>8. \A s \in SUBSET D : f[s] = Made(f, s)
  <2> HIDE DEF Made
  <2>1. QED
    BY <1>7 DEF Eqn
<1> DEFINE T == {s \in SUBSET D : /\ f[s] \in Y
                                  /\ \A i \in s : schema[i].var \in f[s].curves}
<1>9. {} \in T
  BY <1>2, <1>8
<1>10. ASSUME NEW s \in SUBSET D, s # {}, s \ {pick[s]} \in T PROVE s \in T
  <2> DEFINE i == pick[s]
             q == f[s \ {i}]
  <2>1. i = Max(s) /\ i \in s /\ i \in D
    BY <1>3, <1>10 DEF pick
  <2>2. f[s] = Step(q, i)
    BY <1>8, <1>10, <2>1
  <2>3. q \in Y /\ \A j \in s \ {i} : schema[j].var \in q.curves
    BY <1>10
  <2> HIDE DEF q, i
  <2>4. /\ f[s] \in Y /\ q.curves \subseteq f[s].curves /\ schema[i].var \in f[s].curves
    BY <1>4, <2>1, <2>2, <2>3
  <2>5. QED
    BY <2>3, <2>4
<1> HIDE DEF T
<1>11. Picks(pick, D) /\ Inherited(T, pick, D)
  BY <1>3, <1>9, <1>10 DEF pick, Picks, Inherited
<1>12. D \in T
  BY <1>1, <1>11, SubsetInduction
<1>13. QED
  BY <1>7, <1>12 DEF T, Y, D, Result, Described

\* A derived curve comes into the section of the derived curves.
LEMMA CreatedIs ==
  ASSUME NEW own, NEW r, Agreeing(r, own), NEW n \in DerivedNames, n \notin r.curves
  PROVE  LET there == Section(r, "Derived", 0, 0)
             q == [there EXCEPT !.curves = @ \cup {n}, !.controls = @ \cup {n},
                                !.sectionOf = With(@, n, "Derived"),
                                !.sections["Derived"].items = @ \cup {n}]
         IN  Agreeing(q, own \cup {n}) /\ q.curves = r.curves \cup {n}
<1> DEFINE there == Section(r, "Derived", 0, 0)
           q == [there EXCEPT !.curves = @ \cup {n}, !.controls = @ \cup {n},
                              !.sectionOf = With(@, n, "Derived"),
                              !.sections["Derived"].items = @ \cup {n}]
           p == Put(r, n, "Derived", 0, 0)
<1>1. n \in Variables /\ n \notin DOMAIN r.sectionOf /\ n \notin StaticNames
      /\ n \notin DOMAIN r.desc /\ n \notin own
  <2>1. n \in Variables
    BY DEF Variables
  <2>2. QED
    BY <2>1 DEF Agreeing
<1>2. /\ p \in Registries /\ Placed(p, {})
      /\ p.curves = r.curves /\ p.controls = r.controls
      /\ p.desc = r.desc /\ p.sectionOf = With(r.sectionOf, n, "Derived")
  <2>1. r \in Registries /\ Placed(r, {}) /\ "Derived" \in Names /\ {} \in SUBSET {n}
    BY PanelAssumption DEF Agreeing
  <2>2. QED
    BY <1>1, <2>1, PutIn
<1>3. q = [p EXCEPT !.curves = r.curves \cup {n}, !.controls = r.controls \cup {n}]
  <2>1. p = [there EXCEPT !.sectionOf = With(@, n, "Derived"),
                          !.sections["Derived"].items = @ \cup {n}]
    BY DEF Put
  <2>2. there.curves = r.curves /\ there.controls = r.controls
    BY DEF Section, Agreeing, Registries
  <2> HIDE DEF there, p
  <2>3. QED
    BY <2>1, <2>2
<1> HIDE DEF p, q, there
<1>4. /\ q \in Registries /\ q.curves = r.curves \cup {n} /\ q.controls = r.controls \cup {n}
      /\ q.desc = r.desc /\ q.sectionOf = With(r.sectionOf, n, "Derived")
      /\ q.sections = p.sections /\ q.groups = p.groups
  BY <1>1, <1>2, <1>3 DEF Registries, Agreeing
<1>5. Placed(q, {})
  BY <1>2, <1>4 DEF Placed
<1>6. /\ DOMAIN q.sectionOf = DOMAIN r.sectionOf \cup {n} /\ q.sectionOf[n] = "Derived"
      /\ \A w \in DOMAIN r.sectionOf : q.sectionOf[w] = r.sectionOf[w]
  BY <1>1, <1>4 DEF With
<1>7. /\ StaticNames \subseteq q.curves /\ q.controls \subseteq q.curves
      /\ DOMAIN q.desc \subseteq DOMAIN q.sectionOf
      /\ DOMAIN q.sectionOf = q.curves \ StaticNames
      /\ own \cup {n} \subseteq DOMAIN q.sectionOf /\ (own \cup {n}) \cap DOMAIN q.desc = {}
      /\ IsFiniteSet(DOMAIN q.desc)
  BY <1>1, <1>4, <1>6 DEF Agreeing
<1>8. \A w \in DOMAIN q.sectionOf : w \in own \cup {n} <=> q.sectionOf[w] = "Derived"
  BY <1>1, <1>6 DEF Agreeing
<1>9. Agreeing(q, own \cup {n})
  BY <1>4, <1>5, <1>7, <1>8 DEF Agreeing
<1>10. QED
  BY <1>4, <1>9 DEF q, there

\* The tables without some derived curves.
WithoutCurves(r, names) ==
    LET left == r.sections["Derived"].items \ names
    IN  [r EXCEPT !.curves = @ \ names, !.controls = @ \ names,
                  !.sectionOf = [v \in DOMAIN @ \ names |-> @[v]],
                  !.sections = IF left = {} THEN Without(@, "Derived")
                               ELSE [@ EXCEPT !["Derived"].items = left]]

\* Derived curves that are deleted leave their section, and the last takes it along.
LEMMA DeletedIs ==
  ASSUME NEW own, NEW r, NEW names, Agreeing(r, own), own # {}, names \subseteq own
  PROVE  Agreeing(WithoutCurves(r, names), own \ names)
<1> DEFINE box == r.sections["Derived"]
           left == r.sections["Derived"].items \ names
           table == IF left = {} THEN Without(r.sections, "Derived")
                    ELSE [r.sections EXCEPT !["Derived"].items = left]
           of == [v \in DOMAIN r.sectionOf \ names |-> r.sectionOf[v]]
           q == [r EXCEPT !.curves = @ \ names, !.controls = @ \ names,
                          !.sectionOf = [v \in DOMAIN @ \ names |-> @[v]],
                          !.sections = IF left = {} THEN Without(@, "Derived")
                                       ELSE [@ EXCEPT !["Derived"].items = left]]
<1>1. "Derived" \in DOMAIN r.sections /\ r.sections["Derived"].items = own
  <2>1. PICK v \in own : TRUE
    OBVIOUS
  <2>2. "Derived" \in DOMAIN r.sections
    BY <2>1 DEF Agreeing, Placed
  <2>3. QED
    BY <2>2 DEF Agreeing, Placed
<1>2. left = own \ names
  BY <1>1
<1>3. /\ r.sections \in Tables(Names, Sections) /\ r.sectionOf \in Tables(Variables, Names)
  BY DEF Agreeing, Registries, SectionTables
<1>4. /\ DOMAIN r.sections \subseteq Names /\ \A u \in DOMAIN r.sections : r.sections[u] \in Sections
      /\ DOMAIN r.sectionOf \subseteq Variables /\ \A v \in DOMAIN r.sectionOf : r.sectionOf[v] \in Names
  BY <1>3 DEF Tables
<1>5. of \in Tables(Variables, Names)
  <2>1. of \in [DOMAIN r.sectionOf \ names -> Names] /\ DOMAIN r.sectionOf \ names \in SUBSET Variables
    BY <1>4
  <2>2. QED
    BY <2>1 DEF Tables
<1>6. /\ \A u \in DOMAIN table : u \in DOMAIN r.sections /\ (u # "Derived" => table[u] = r.sections[u])
      /\ \A u \in DOMAIN r.sections : u # "Derived" => u \in DOMAIN table
      /\ "Derived" \in DOMAIN table <=> left # {}
      /\ left # {} => table["Derived"] = [items |-> left, task |-> box.task, order |-> box.order]
  <2>1. box \in Sections
    BY <1>1, <1>4
  <2>2. CASE left = {}
    BY <1>1, <2>2 DEF Without
  <2>3. CASE left # {}
    <3> DEFINE new == [box EXCEPT !.items = left]
    <3>1. new = [items |-> left, task |-> box.task, order |-> box.order]
      BY <2>1, SectionWithItems
    <3>2. table = [r.sections EXCEPT !["Derived"] = new]
      BY <2>3
    <3> HIDE DEF new, table, left
    <3>3. QED
      BY <1>1, <2>3, <3>1, <3>2
  <2>4. QED
    BY <2>2, <2>3
<1>7. q = [r EXCEPT !.curves = r.curves \ names, !.controls = r.controls \ names,
                    !.sectionOf = of, !.sections = table]
  BY DEF Agreeing, Registries
<1> HIDE DEF of, table, left, q
<1>8. table \in SectionTables
  <2>1. \A u \in DOMAIN table : table[u] \in Sections
    BY <1>1, <1>4, <1>6 DEF Sections, left
  <2>2. table = [u \in DOMAIN table |-> table[u]]
    <3>1. r.sections = [u \in DOMAIN r.sections |-> r.sections[u]]
      BY <1>3 DEF Tables
    <3>2. QED
      BY <3>1 DEF table, Without
  <2>3. table \in [DOMAIN table -> Sections]
    BY <2>1, <2>2
  <2>4. DOMAIN table \in SUBSET Names
    BY <1>4, <1>6
  <2>5. QED
    BY <2>3, <2>4 DEF SectionTables, Tables
<1>9. /\ q \in Registries /\ q.curves = r.curves \ names /\ q.controls = r.controls \ names
      /\ q.desc = r.desc /\ q.sectionOf = of /\ q.sections = table /\ q.groups = r.groups
  BY <1>5, <1>7, <1>8 DEF Registries, Agreeing
<1>10. /\ DOMAIN of = DOMAIN r.sectionOf \ names
       /\ \A v \in DOMAIN of : of[v] = r.sectionOf[v]
  BY DEF of
<1>11. \A u \in DOMAIN table :
          table[u].items # {} /\ table[u].items = {v \in DOMAIN of : of[v] = u}
  <2> SUFFICES ASSUME NEW u \in DOMAIN table
               PROVE  table[u].items # {} /\ table[u].items = {v \in DOMAIN of : of[v] = u}
    OBVIOUS
  <2>1. CASE u = "Derived"
    <3>1. table[u].items = own \ names /\ table[u].items # {}
      BY <1>2, <1>6, <2>1
    <3>2. QED
      BY <1>10, <2>1, <3>1 DEF Agreeing
  <2>2. CASE u # "Derived"
    <3>1. table[u].items = {v \in DOMAIN r.sectionOf : r.sectionOf[v] = u} /\ table[u].items # {}
      BY <1>6, <2>2 DEF Agreeing, Placed
    <3>2. \A v \in names : v \in DOMAIN r.sectionOf /\ r.sectionOf[v] # u
      BY <2>2 DEF Agreeing
    <3>3. QED
      BY <1>10, <3>1, <3>2
  <2>3. QED
    BY <2>1, <2>2
<1>12. \A v \in DOMAIN of : of[v] \in DOMAIN table
  <2> SUFFICES ASSUME NEW v \in DOMAIN of PROVE r.sectionOf[v] \in DOMAIN table
    BY <1>10
  <2>1. r.sectionOf[v] \in DOMAIN r.sections
    BY <1>10 DEF Agreeing, Placed
  <2>2. r.sectionOf[v] = "Derived" => v \in left
    BY <1>2, <1>10 DEF Agreeing
  <2>3. QED
    BY <1>6, <2>1, <2>2
<1>13. \A t \in DOMAIN r.groups :
          t # 0 /\ r.groups[t] \in DOMAIN table /\ table[r.groups[t]].task = t
  <2> SUFFICES ASSUME NEW t \in DOMAIN r.groups
               PROVE  t # 0 /\ r.groups[t] \in DOMAIN table /\ table[r.groups[t]].task = t
    OBVIOUS
  <2>1. t # 0 /\ r.groups[t] \in DOMAIN r.sections /\ r.sections[r.groups[t]].task = t
    BY DEF Agreeing, Placed
  <2>2. r.groups[t] # "Derived"
    BY <1>1, <2>1 DEF Agreeing, Placed
  <2>3. QED
    BY <1>6, <2>1, <2>2
<1>14. "Derived" \in DOMAIN table => table["Derived"].task = 0
  BY <1>1, <1>6 DEF Agreeing, Placed
<1>15. Placed(q, {})
  BY <1>9, <1>11, <1>12, <1>13, <1>14 DEF Placed
<1>16. /\ StaticNames \subseteq q.curves /\ q.controls \subseteq q.curves
       /\ DOMAIN q.desc \subseteq DOMAIN q.sectionOf
       /\ DOMAIN q.sectionOf = q.curves \ StaticNames
       /\ own \ names \subseteq DOMAIN q.sectionOf /\ (own \ names) \cap DOMAIN q.desc = {}
       /\ IsFiniteSet(DOMAIN q.desc)
  BY <1>9, <1>10 DEF Agreeing
<1>17. \A w \in DOMAIN q.sectionOf : w \in own \ names <=> q.sectionOf[w] = "Derived"
  BY <1>9, <1>10 DEF Agreeing
<1>18. Agreeing(q, own \ names)
  BY <1>9, <1>15, <1>16, <1>17 DEF Agreeing
<1>19. WithoutCurves(r, names) = q
  BY DEF WithoutCurves, q, left
<1>20. QED
  BY <1>9, <1>18, <1>19

-----------------------------------------------------------------------------
(* A section dragged over the others.                                      *)

\* A part of an order is an order, of the elements of that part.
LEMMA PartIs ==
  ASSUME NEW S, NEW q \in Orders(S), NEW m \in 1 .. Len(q) + 1, NEW n \in 0 .. Len(q)
  PROVE  /\ SubSeq(q, m, n) \in Orders(S)
         /\ ToSet(SubSeq(q, m, n)) = {q[i] : i \in m .. n}
<1> DEFINE p == SubSeq(q, m, n)
<1>1. q \in Seq(S) /\ IsInjective(q) /\ Len(q) \in Nat /\ DOMAIN q = 1 .. Len(q)
  BY LenProperties DEF Orders
<1>2. p = [i \in 1 .. (n - m + 1) |-> q[i + m - 1]]
  BY <1>1
<1>3. /\ p \in Seq(S) /\ DOMAIN p = 1 .. (n - m + 1)
      /\ \A i \in 1 .. (n - m + 1) : p[i] = q[i + m - 1] /\ i + m - 1 \in m .. n
  <2>1. p \in Seq(S)
    BY <1>1, SubSeqProperties
  <2>2. QED
    BY <1>1, <1>2, <2>1
<1> HIDE DEF p
<1>4. IsInjective(p)
  <2> SUFFICES ASSUME NEW i \in 1 .. (n - m + 1), NEW j \in 1 .. (n - m + 1), p[i] = p[j]
               PROVE  i = j
    BY <1>3 DEF IsInjective
  <2>1. i + m - 1 \in DOMAIN q /\ j + m - 1 \in DOMAIN q /\ q[i + m - 1] = q[j + m - 1]
    BY <1>1, <1>3
  <2>2. i + m - 1 = j + m - 1
    BY <1>1, <2>1 DEF IsInjective
  <2>3. QED
    BY <2>2
<1>5. ToSet(p) = {q[i] : i \in m .. n}
  <2>1. ASSUME NEW i \in m .. n PROVE q[i] \in ToSet(p)
    <3>1. i - m + 1 \in 1 .. (n - m + 1) /\ (i - m + 1) + m - 1 = i
      BY <1>1
    <3>2. p[i - m + 1] = q[i]
      BY <1>3, <3>1
    <3>3. QED
      BY <1>3, <3>1, <3>2 DEF ToSet
  <2>2. ASSUME NEW x \in ToSet(p) PROVE x \in {q[i] : i \in m .. n}
    <3>1. PICK i \in 1 .. (n - m + 1) : x = p[i]
      BY <1>3 DEF ToSet
    <3>2. x = q[i + m - 1] /\ i + m - 1 \in m .. n
      BY <1>3, <3>1
    <3>3. QED
      BY <3>2
  <2>3. QED
    BY <2>1, <2>2
<1>6. QED
  BY <1>3, <1>4, <1>5 DEF Orders, p

LEMMA InsertedIs ==
  ASSUME NEW S, NEW q \in Orders(S), NEW e \in S, e \notin ToSet(q), NEW i \in 1 .. Len(q) + 1
  PROVE  /\ InsertAt(q, i, e) \in Orders(S)
         /\ ToSet(InsertAt(q, i, e)) = ToSet(q) \cup {e}
<1> DEFINE a == SubSeq(q, 1, i - 1)
           b == SubSeq(q, i, Len(q))
           ae == a \o <<e>>
<1>1. q \in Seq(S) /\ IsInjective(q) /\ Len(q) \in Nat /\ DOMAIN q = 1 .. Len(q)
  BY LenProperties DEF Orders
<1>2. a \in Orders(S) /\ ToSet(a) = {q[k] : k \in 1 .. (i - 1)}
  <2>1. 1 \in 1 .. Len(q) + 1 /\ i - 1 \in 0 .. Len(q)
    BY <1>1
  <2>2. QED
    BY <2>1, PartIs
<1>3. b \in Orders(S) /\ ToSet(b) = {q[k] : k \in i .. Len(q)}
  <2>1. Len(q) \in 0 .. Len(q)
    BY <1>1
  <2>2. QED
    BY <2>1, PartIs
<1>4. <<e>> \in Orders(S) /\ ToSet(<<e>>) = {e}
  BY DEF Orders, IsInjective, ToSet
<1>5. \A s \in ToSet(a) \cup ToSet(b) : s \in ToSet(q)
  <2>1. /\ \A k \in 1 .. (i - 1) : k \in DOMAIN q
        /\ \A k \in i .. Len(q) : k \in DOMAIN q
    BY <1>1
  <2>2. \A k \in DOMAIN q : q[k] \in ToSet(q)
    BY DEF ToSet
  <2> HIDE DEF a, b
  <2>3. QED
    BY <1>2, <1>3, <2>1, <2>2
<1>6. ToSet(a) \cap ToSet(b) = {}
  <2> SUFFICES ASSUME NEW k \in 1 .. (i - 1), NEW l \in i .. Len(q), q[k] = q[l] PROVE FALSE
    BY <1>2, <1>3
  <2>1. k \in DOMAIN q /\ l \in DOMAIN q /\ k # l
    BY <1>1
  <2>2. QED
    BY <1>1, <2>1 DEF IsInjective
<1>7. ToSet(q) = ToSet(a) \cup ToSet(b)
  <2>1. \A k \in 1 .. Len(q) : k \in 1 .. (i - 1) \/ k \in i .. Len(q)
    BY <1>1
  <2>2. \A k \in 1 .. Len(q) : q[k] \in ToSet(a) \cup ToSet(b)
    BY <1>2, <1>3, <2>1
  <2>3. QED
    BY <1>1, <1>5, <2>2 DEF ToSet
<1>8. InsertAt(q, i, e) = ae \o b
  BY DEF InsertAt
<1> HIDE DEF a, b
<1>9. ae \in Orders(S) /\ ToSet(ae) = ToSet(a) \cup {e}
  <2>1. ToSet(a) \cap ToSet(<<e>>) = {}
    BY <1>4, <1>5
  <2> DEFINE one == <<e>>
  <2> HIDE DEF one
  <2>2. a \o one \in Orders(S) /\ ToSet(a \o one) = ToSet(a) \cup ToSet(one)
    BY <1>2, <1>4, <2>1, OneAfterTheOther DEF one
  <2>3. QED
    BY <1>4, <2>2 DEF one
<1> HIDE DEF ae
<1>10. ae \o b \in Orders(S) /\ ToSet(ae \o b) = ToSet(ae) \cup ToSet(b)
  <2>1. ToSet(ae) \cap ToSet(b) = {}
    BY <1>5, <1>6, <1>9
  <2>2. QED
    BY <1>3, <1>9, <2>1, OneAfterTheOther
<1>11. QED
  BY <1>7, <1>8, <1>9, <1>10

-----------------------------------------------------------------------------
(* The panel keeps its tables and what is drawn together.                  *)

\* Whatever happens, the tables agree, orders name every section once, and without
\* schemas during a drag what is shown, and what a drag can go back to, are all sections.
PanelInv ==
    /\ Agreeing(registry, Derived)
    /\ available \in SUBSET Variables
    /\ Derived \in SUBSET DerivedNames /\ IsFiniteSet(Derived)
    /\ specs \in [Derived -> SUBSET Variables]
    /\ selected \in registry.curves \cup {None}
    /\ custom \in Orders(Names) /\ shown \in Orders(Names)
    /\ drag # None => drag.before \in Orders(Names)
    /\ ~ InstallsWhileDragging =>
        /\ ToSet(shown) = DOMAIN registry.sections
        /\ drag # None => ToSet(drag.before) = DOMAIN registry.sections

LEMMA PanelInit == Init => PanelInv
<1> SUFFICES ASSUME Init PROVE PanelInv
  OBVIOUS
<1> USE DEF Init
<1>1. StaticNames \subseteq Variables
  BY DEF Variables
<1>2. Derived = {} /\ specs \in [Derived -> SUBSET Variables] /\ IsFiniteSet({})
  BY FS_EmptySet DEF Derived
<1>3. \A X, Y, f : DOMAIN f = {} /\ f = [x \in {} |-> f[x]] => f \in Tables(X, Y)
  BY DEF Tables
<1>4. \A X, Y : [x \in {} |-> None] \in Tables(X, Y)
  BY DEF Tables
<1>5. registry \in Registries
  BY <1>1, <1>4 DEF EmptyRegistry, Registries, SectionTables
<1>6. Agreeing(registry, {})
  BY <1>2, <1>5 DEF Agreeing, Placed, EmptyRegistry
<1>7. <<>> \in Orders(Names) /\ ToSet(<<>>) = {}
  BY EmptySeq DEF Orders, IsInjective, ToSet
<1>8. DOMAIN registry.sections = {}
  BY DEF EmptyRegistry
<1>9. QED
  BY <1>1, <1>2, <1>6, <1>7, <1>8 DEF PanelInv

\* A relayout draws all the sections there are.
LEMMA RelayoutIs ==
  ASSUME NEW own, NEW r, Agreeing(r, own), NEW order \in Orders(Names)
  PROVE  /\ Arranged(r, order) \in Orders(Names)
         /\ ToSet(Arranged(r, order)) = DOMAIN r.sections
BY ArrangedIs DEF Agreeing, Registries

LEMMA InstallKeeps ==
  ASSUME PanelInv, NEW schema \in Schemas, NEW raw \in SUBSET Variables, Install(schema, raw),
         drag = None \/ InstallsWhileDragging, UNCHANGED drag
  PROVE  PanelInv'
<1> USE DEF PanelInv
<1>1. Agreeing(registry', Derived) /\ Derived' = Derived
  BY RegisterIs DEF Install, Derived
<1>2. custom' \in Orders(Names) /\ shown' = Arranged(registry', custom')
  BY DEF Install, Relayout
<1>3. shown' \in Orders(Names) /\ ToSet(shown') = DOMAIN registry'.sections
  BY <1>1, <1>2, RelayoutIs
<1>4. selected' \in registry'.curves \cup {None} /\ available' \in SUBSET Variables
  BY DEF Install
<1>5. specs' = specs
  BY DEF Install
<1>6. QED
  BY <1>1, <1>2, <1>3, <1>4, <1>5

LEMMA CreateKeeps ==
  ASSUME PanelInv, NEW n \in DerivedNames, CreateDerived(n)
  PROVE  PanelInv' /\ Derived' = Derived \cup {n} /\ registry'.curves = registry.curves \cup {n}
<1> USE DEF PanelInv
<1>1. PICK refs \in SUBSET registry.curves : specs' = With(specs, n, refs)
  BY DEF CreateDerived
<1>2. Derived' = Derived \cup {n}
  BY <1>1 DEF Derived, With
<1>3. refs \in SUBSET Variables
  BY DEF Agreeing, Registries
<1>4. specs' \in [Derived' -> SUBSET Variables] /\ Derived' \in SUBSET DerivedNames
      /\ IsFiniteSet(Derived')
  <2>1. \A m \in Derived' : specs'[m] \in SUBSET Variables
    BY <1>1, <1>2, <1>3 DEF With, Derived
  <2>2. specs' = [m \in Derived' |-> specs'[m]]
    BY <1>1 DEF With, Derived
  <2>3. specs' \in [Derived' -> SUBSET Variables]
    BY <2>1, <2>2
  <2>4. QED
    BY <1>2, <2>3, FS_AddElement
<1>5. Agreeing(registry', Derived \cup {n}) /\ registry'.curves = registry.curves \cup {n}
  BY CreatedIs DEF CreateDerived
<1>6. /\ custom' \in Orders(Names) /\ shown' = Arranged(registry', custom')
      /\ drag' = None /\ available' \in SUBSET Variables
  BY DEF CreateDerived, Relayout
<1>7. shown' \in Orders(Names) /\ ToSet(shown') = DOMAIN registry'.sections
  BY <1>5, <1>6, RelayoutIs
<1>8. selected' \in registry'.curves \cup {None}
  BY <1>5 DEF CreateDerived
<1>9. QED
  BY <1>2, <1>4, <1>5, <1>6, <1>7, <1>8

\* What is deleted are derived curves.
LEMMA DependentsAreDerived ==
  ASSUME NEW names
  PROVE  WithDependents(names) \in SUBSET Derived
BY DEF WithDependents, Reached, UsedBy, Derived

LEMMA DeleteKeeps ==
  ASSUME PanelInv, DeleteDerived, NEW names, names = WithDependents({selected})
  PROVE  /\ PanelInv' /\ Derived' = Derived \ names
         /\ registry'.curves = registry.curves \ names
         /\ \A n \in Derived' : specs'[n] = specs[n]
<1> USE DEF PanelInv
<1>1. names \subseteq Derived /\ Derived # {}
  BY DependentsAreDerived DEF DeleteDerived
<1>2. specs' = [n \in Derived \ names |-> specs[n]]
  BY DEF DeleteDerived
<1>3. Agreeing(registry', Derived \ names) /\ registry'.curves = registry.curves \ names
  <2>1. registry' = WithoutCurves(registry, names)
    BY DEF DeleteDerived, WithoutCurves
  <2>2. Agreeing(registry', Derived \ names)
    BY <1>1, <2>1, DeletedIs
  <2>3. registry'.curves = registry.curves \ names
    BY <2>1 DEF WithoutCurves, Agreeing, Registries
  <2>4. QED
    BY <2>2, <2>3
<1>4. Derived' = Derived \ names /\ \A n \in Derived' : specs'[n] = specs[n]
  BY <1>2 DEF Derived
<1>5. /\ Derived' \in SUBSET DerivedNames /\ IsFiniteSet(Derived')
      /\ specs' \in [Derived' -> SUBSET Variables]
  <2>1. specs' \in [Derived \ names -> SUBSET Variables]
    BY <1>2
  <2>2. QED
    BY <1>4, <2>1, FS_Subset
<1>6. /\ custom' \in Orders(Names) /\ shown' = Arranged(registry', custom')
      /\ drag' = None /\ available' \in SUBSET Variables /\ selected' = None
  BY DEF DeleteDerived, Relayout
<1>7. shown' \in Orders(Names) /\ ToSet(shown') = DOMAIN registry'.sections
  BY <1>3, <1>6, RelayoutIs
<1>8. QED
  BY <1>3, <1>4, <1>5, <1>6, <1>7

LEMMA DragKeeps ==
  ASSUME PanelInv, StartDrag \/ DragOver \/ Drop \/ CancelDrag
  PROVE  PanelInv' /\ UNCHANGED <<registry, available, specs, health>>
<1> USE DEF PanelInv
<1>1. CASE StartDrag
  BY <1>1 DEF StartDrag, Derived
<1>2. CASE CancelDrag
  BY <1>2 DEF CancelDrag, Derived
<1>3. CASE DragOver
  <2> DEFINE others == Only(shown, Names \ {drag.section})
  <2>1. drag.section \in Names /\ UNCHANGED <<registry, available, specs, health, selected, custom, drag>>
    BY <1>3 DEF DragOver, Agreeing, Registries, SectionTables, Tables
  <2>2. PICK i \in 1 .. Len(others) + 1 : shown' = InsertAt(others, i, drag.section)
    BY <1>3 DEF DragOver
  <2>3. others \in Orders(Names) /\ ToSet(others) = ToSet(shown) \cap (Names \ {drag.section})
    BY OnlyIs DEF Orders
  <2>4. ToSet(shown) \subseteq Names
    BY ElementOfSeq DEF Orders, ToSet
  <2> HIDE DEF others
  <2>5. shown' \in Orders(Names) /\ ToSet(shown') = ToSet(others) \cup {drag.section}
    BY <2>1, <2>2, <2>3, InsertedIs
  <2>6. drag # None /\ drag.section \in DOMAIN registry.sections
    BY <1>3 DEF DragOver
  <2>7. QED
    BY <2>1, <2>3, <2>4, <2>5, <2>6 DEF Derived
<1>4. CASE Drop
  <2>1. /\ custom' = Only(shown, DOMAIN registry.sections) /\ shown' = Arranged(registry', custom')
        /\ drag' = None /\ UNCHANGED <<registry, available, specs, health, selected>>
    BY <1>4 DEF Drop, Relayout
  <2>2. custom' \in Orders(Names)
    BY <2>1, OnlyIs DEF Orders
  <2>3. shown' \in Orders(Names) /\ ToSet(shown') = DOMAIN registry.sections
    BY <2>1, <2>2, RelayoutIs
  <2>4. QED
    BY <2>1, <2>2, <2>3 DEF Derived
<1>5. QED
  BY <1>1, <1>2, <1>3, <1>4

LEMMA LayoutKeeps ==
  ASSUME PanelInv, ResetLayout \/ Resize
  PROVE  PanelInv' /\ UNCHANGED <<registry, available, specs, health>>
<1> USE DEF PanelInv
<1>1. /\ shown' = Arranged(registry', custom') /\ drag' = None
      /\ UNCHANGED <<registry, available, specs, health, selected>>
  BY DEF ResetLayout, Resize, Relayout
<1>2. custom' \in Orders(Names)
  <2>1. <<>> \in Orders(Names)
    BY EmptySeq DEF Orders, IsInjective
  <2>2. custom' = <<>> \/ custom' = custom
    BY DEF ResetLayout, Resize
  <2>3. QED
    BY <2>1, <2>2
<1>3. shown' \in Orders(Names) /\ ToSet(shown') = DOMAIN registry.sections
  BY <1>1, <1>2, RelayoutIs
<1>4. QED
  BY <1>1, <1>2, <1>3 DEF Derived

LEMMA PanelStep == PanelInv /\ [Next]_vars => PanelInv'
<1> SUFFICES ASSUME PanelInv, [Next]_vars PROVE PanelInv'
  OBVIOUS
<1>1. \A schema \in Schemas : Described(schema) \cup StaticNames \in SUBSET Variables
  BY DEF Variables
<1>2. CASE InstallLive
  <2>1. PICK schema \in Schemas : Install(schema, Described(schema) \cup StaticNames)
    BY <1>2 DEF InstallLive
  <2>2. (drag = None \/ InstallsWhileDragging) /\ UNCHANGED drag
    BY <1>2 DEF InstallLive
  <2>3. QED
    BY <1>1, <2>1, <2>2, InstallKeeps
<1>3. CASE Import
  <2>1. PICK schema \in Schemas : Install(schema, Described(schema))
    BY <1>3 DEF Import
  <2>2. drag = None /\ UNCHANGED drag /\ Described(schema) \in SUBSET Variables
    BY <1>1, <1>3 DEF Import
  <2>3. QED
    BY <2>1, <2>2, InstallKeeps
<1>4. CASE \E n \in DerivedNames : CreateDerived(n)
  BY <1>4, CreateKeeps
<1>5. CASE UpdateDerived
  <2>1. PICK refs \in SUBSET registry.curves : specs' = [specs EXCEPT ![selected] = refs]
    BY <1>5 DEF UpdateDerived
  <2>2. refs \in SUBSET Variables
    BY DEF PanelInv, Agreeing, Registries
  <2>3. UNCHANGED <<registry, available, selected, custom, shown, drag>>
    BY <1>5 DEF UpdateDerived
  <2>4. Derived' = Derived /\ specs' \in [Derived -> SUBSET Variables]
    BY <2>1, <2>2 DEF PanelInv, Derived
  <2>5. QED
    BY <2>3, <2>4 DEF PanelInv
<1>6. CASE DeleteDerived
  BY <1>6, DeleteKeeps
<1>7. CASE Select
  BY <1>7 DEF Select, PanelInv, Derived
<1>8. CASE StartDrag \/ DragOver \/ Drop \/ CancelDrag
  BY <1>8, DragKeeps
<1>9. CASE ResetLayout \/ Resize
  BY <1>9, LayoutKeeps
<1>10. CASE UNCHANGED vars
  BY <1>10 DEF vars, PanelInv, Derived
<1>11. QED
  BY <1>2, <1>3, <1>4, <1>5, <1>6, <1>7, <1>8, <1>9, <1>10 DEF Next

\* The tables of the panel are of their types and of the same variables.
THEOREM TablesTypeCorrect == Spec => []TypeOK
<1>1. PanelInv => TypeOK
  <2> SUFFICES ASSUME PanelInv PROVE TypeOK
    OBVIOUS
  <2> USE DEF PanelInv
  <2>1. Agreeing(registry, Derived)
    OBVIOUS
  <2>2. /\ registry.curves \subseteq Variables /\ registry.controls \subseteq registry.curves
        /\ DOMAIN registry.desc \subseteq DOMAIN registry.sectionOf
        /\ DOMAIN registry.sectionOf = registry.curves \ StaticNames
    BY <2>1 DEF Agreeing, Registries
  <2>3. /\ registry.sections \in Tables(Names, Sections)
        /\ registry.groups \in Tables(Tasks, Names) /\ registry.latency \in Tables(Tasks, Variables)
    BY <2>1 DEF Agreeing, Registries, SectionTables
  <2>4. /\ \A s \in DOMAIN registry.sections :
              s \in Names /\ registry.sections[s].items \subseteq Variables
        /\ DOMAIN registry.groups \subseteq Tasks /\ DOMAIN registry.latency \subseteq Tasks
    BY <2>3 DEF Tables, Sections
  <2>5. ToSet(custom) \subseteq Names /\ IsInjective(custom) /\ IsInjective(shown)
    BY ElementOfSeq DEF Orders, ToSet
  <2>6. QED
    BY <2>2, <2>4, <2>5 DEF TypeOK
<1>2. QED
  BY <1>1, PanelInit, PanelStep, PTL DEF Spec

\* Whatever schemas move it, a variable stands in its section and in no other, and no
\* section stays empty.
THEOREM SectionsStayExact == Spec => []SectionsAreExact
<1>1. PanelInv => SectionsAreExact
  BY DEF PanelInv, Agreeing, Placed, SectionsAreExact, Range
<1>2. QED
  BY <1>1, PanelInit, PanelStep, PTL DEF Spec

\* The groups of tasks always point to sections that are there, and of those tasks.
THEOREM GroupsStayAlive == Spec => []GroupsAreAlive
<1>1. PanelInv => GroupsAreAlive
  BY DEF PanelInv, Agreeing, Placed, GroupsAreAlive
<1>2. QED
  BY <1>1, PanelInit, PanelStep, PTL DEF Spec

\* If no schema arrives while a section is dragged, the container shows every section
\* once, and the tables it shows are those of the panel.
THEOREM SectionsStaySound ==
  ASSUME ~ InstallsWhileDragging
  PROVE  Spec => []SectionsSound
<1>1. PanelInv => AllSectionsAreShown
  BY DEF PanelInv, AllSectionsAreShown
<1>2. Spec => []AllSectionsAreShown
  BY <1>1, PanelInit, PanelStep, PTL DEF Spec
<1>3. TypeOK /\ SectionsAreExact /\ GroupsAreAlive /\ AllSectionsAreShown => SectionsSound
  BY DEF SectionsSound
<1>4. QED
  BY <1>2, <1>3, TablesTypeCorrect, SectionsStayExact, GroupsStayAlive, PTL

-----------------------------------------------------------------------------
(* References between derived curves.                                      *)

\* What is reached has the names and what each of its members leads to.
LEMMA ReachedIs ==
  ASSUME NEW to, NEW names, \A k \in DOMAIN to : to[k] \subseteq DOMAIN to,
         names \subseteq DOMAIN to
  PROVE  /\ names \subseteq Reached(to, names) /\ Reached(to, names) \subseteq DOMAIN to
         /\ \A k \in Reached(to, names) : to[k] \subseteq Reached(to, names)
<1>1. names \subseteq Reached(to, names) /\ Reached(to, names) \subseteq DOMAIN to
  BY DEF Reached
<1>2. ASSUME NEW k \in Reached(to, names), NEW m \in to[k] PROVE m \in Reached(to, names)
  <2>1. m \in DOMAIN to
    BY <1>1
  <2>2. ASSUME NEW s \in SUBSET DOMAIN to, names \subseteq s, \A l \in s : to[l] \subseteq s
        PROVE  m \in s
    BY <2>2 DEF Reached
  <2>3. QED
    BY <2>1, <2>2 DEF Reached
<1>3. QED
  BY <1>1, <1>2

\* It is in every set that has the names and what its members lead to.
LEMMA ReachedIsLeast ==
  ASSUME NEW to, NEW names, NEW s, s \subseteq DOMAIN to, names \subseteq s,
         \A k \in s : to[k] \subseteq s
  PROVE  Reached(to, names) \subseteq s
BY DEF Reached

\* No curve leads back to itself.
Acyclic(ss) == \A n \in DOMAIN ss : n \notin Reached(Uses(ss), Uses(ss)[n])

LEMMA UsesIs ==
  ASSUME NEW ss
  PROVE  /\ DOMAIN Uses(ss) = DOMAIN ss
         /\ \A k \in DOMAIN Uses(ss) : Uses(ss)[k] \subseteq DOMAIN Uses(ss)
         /\ \A k \in DOMAIN ss : Uses(ss)[k] = ss[k] \cap DOMAIN ss
BY DEF Uses

\* An expression that does not lead back to its curve closes no circle, neither around
\* the curve nor around another one: would_create_cycle looks only from the curve.
LEMMA NoCycleCloses ==
  ASSUME Acyclic(specs), NEW n, NEW refs, ~ WouldCycle(n, refs)
  PROVE  Acyclic(With(specs, n, refs))
<1> DEFINE new == With(specs, n, refs)
           D == Derived
           U == Uses(specs)
           V == Uses(new)
           R == Reached(U, refs \cap D)
<1>1. DOMAIN new = D \cup {n} /\ new[n] = refs /\ \A k \in D : k # n => new[k] = specs[k]
  BY DEF With, Derived
<1>2. /\ DOMAIN U = D /\ \A k \in D : U[k] = specs[k] \cap D
      /\ \A k \in D : U[k] \subseteq D
  BY UsesIs DEF Derived
<1>3. DOMAIN V = D \cup {n} /\ \A k \in D \cup {n} : V[k] = new[k] \cap (D \cup {n})
  BY <1>1, UsesIs
<1>4. /\ refs \cap D \subseteq R /\ R \subseteq D /\ \A k \in R : U[k] \subseteq R
  BY <1>2, ReachedIs
<1>5. n \notin refs /\ n \notin R /\ \A k \in R : n \notin specs[k]
  BY DEF WouldCycle
<1>6. \A m \in D : LET r == Reached(U, U[m])
                   IN  /\ U[m] \subseteq r /\ r \subseteq D /\ m \notin r
                       /\ \A k \in r : U[k] \subseteq r
  BY <1>2, ReachedIs DEF Acyclic, Derived
<1> HIDE DEF new, D, U, V, R
<1>7. V[n] = refs \cap D /\ V[n] \subseteq R
  BY <1>1, <1>3, <1>4, <1>5
<1>8. \A k \in R : V[k] = U[k] /\ V[k] \subseteq R
  <2> SUFFICES ASSUME NEW k \in R PROVE V[k] = U[k] /\ V[k] \subseteq R
    OBVIOUS
  <2>1. k \in D /\ k # n /\ n \notin specs[k] /\ U[k] \subseteq R
    BY <1>4, <1>5
  <2>2. V[k] = specs[k] \cap (D \cup {n}) /\ U[k] = specs[k] \cap D
    BY <1>1, <1>2, <1>3, <2>1
  <2>3. V[k] = U[k]
    BY <2>1, <2>2
  <2>4. QED
    BY <2>1, <2>3
<1>9. \A k \in D : k # n => V[k] \subseteq U[k] \cup {n}
  BY <1>1, <1>2, <1>3
<1>10. n \notin Reached(V, V[n])
  <2>1. Reached(V, V[n]) \subseteq R
    BY <1>3, <1>4, <1>7, <1>8, ReachedIsLeast
  <2>2. QED
    BY <1>5, <2>1
<1>11. ASSUME NEW m \in D, m # n PROVE m \notin Reached(V, V[m])
  <2> DEFINE r == Reached(U, U[m])
  <2>1. U[m] \subseteq r /\ r \subseteq D /\ m \notin r /\ \A k \in r : U[k] \subseteq r
    BY <1>6
  <2> HIDE DEF r
  <2>2. CASE m \in R
    <3> DEFINE s == r \cap R
    <3>1. s \subseteq DOMAIN V /\ V[m] \subseteq s /\ \A k \in s : V[k] \subseteq s
      BY <1>3, <1>4, <1>8, <2>1, <2>2
    <3> HIDE DEF s
    <3>2. Reached(V, V[m]) \subseteq s
      BY <3>1, ReachedIsLeast
    <3>3. QED
      BY <2>1, <3>2 DEF s
  <2>3. CASE m \notin R
    <3> DEFINE s == r \cup {n} \cup R
    <3>1. s \subseteq DOMAIN V /\ V[m] \subseteq s
      BY <1>3, <1>4, <1>9, <1>11, <2>1
    <3>2. \A k \in s : V[k] \subseteq s
      BY <1>4, <1>7, <1>8, <1>9, <2>1
    <3> HIDE DEF s
    <3>3. Reached(V, V[m]) \subseteq s
      BY <3>1, <3>2, ReachedIsLeast
    <3>4. QED
      BY <1>11, <2>1, <2>3, <3>3 DEF s
  <2>4. QED
    BY <2>2, <2>3
<1>12. QED
  BY <1>1, <1>10, <1>11 DEF Acyclic, V, new

\* What remains of the derived curves names none of those that go, so it leads where
\* it led before.
LEMMA RestIsAcyclic ==
  ASSUME Acyclic(specs), NEW names, NEW x \in Derived, names = WithDependents({x}),
         NEW rest, rest = [n \in Derived \ names |-> specs[n]]
  PROVE  Acyclic(rest) /\ \A n \in DOMAIN rest : rest[n] = specs[n] /\ specs[n] \cap names = {}
<1> DEFINE D == Derived
           U == Uses(specs)
           B == UsedBy(specs)
           V == Uses(rest)
<1>1. DOMAIN rest = D \ names /\ \A k \in D \ names : rest[k] = specs[k]
  OBVIOUS
<1>2. /\ DOMAIN U = D /\ \A k \in D : U[k] = specs[k] \cap D
      /\ \A k \in D : U[k] \subseteq D
  BY UsesIs DEF Derived
<1>3. DOMAIN V = D \ names /\ \A k \in D \ names : V[k] = specs[k] \cap (D \ names)
  BY <1>1, UsesIs
<1>4. DOMAIN B = D /\ \A k \in D : B[k] \subseteq D /\ B[k] = {m \in D : k \in specs[m]}
  BY DEF UsedBy, Derived
<1>5. names \subseteq D /\ \A k \in names : B[k] \subseteq names
  <2>1. names = Reached(B, {x}) /\ {x} \subseteq DOMAIN B
    BY <1>4 DEF WithDependents
  <2>2. \A k \in DOMAIN B : B[k] \subseteq DOMAIN B
    BY <1>4
  <2> HIDE DEF B
  <2>3. names \subseteq DOMAIN B /\ \A k \in names : B[k] \subseteq names
    BY <2>1, <2>2, ReachedIs
  <2>4. QED
    BY <1>4, <2>3
<1>6. \A m \in D : LET r == Reached(U, U[m])
                   IN  /\ U[m] \subseteq r /\ r \subseteq D /\ m \notin r
                       /\ \A k \in r : U[k] \subseteq r
  BY <1>2, ReachedIs DEF Acyclic, Derived
<1> HIDE DEF D, U, B, V
<1>7. \A m \in D \ names : specs[m] \cap names = {}
  BY <1>4, <1>5
<1>8. \A m \in D \ names : V[m] = U[m]
  <2> SUFFICES ASSUME NEW m \in D \ names PROVE V[m] = U[m]
    OBVIOUS
  <2>1. V[m] = specs[m] \cap (D \ names) /\ U[m] = specs[m] \cap D /\ specs[m] \cap names = {}
    BY <1>2, <1>3, <1>7
  <2>2. QED
    BY <2>1
<1>9. ASSUME NEW m \in D \ names PROVE m \notin Reached(V, V[m])
  <2> DEFINE r == Reached(U, U[m])
             s == r \cap (D \ names)
  <2>1. U[m] \subseteq r /\ r \subseteq D /\ m \notin r /\ \A k \in r : U[k] \subseteq r
    BY <1>6
  <2> HIDE DEF r
  <2>2. s \subseteq DOMAIN V /\ V[m] \subseteq s /\ \A k \in s : V[k] \subseteq s
    BY <1>3, <1>8, <2>1
  <2> HIDE DEF s
  <2>3. Reached(V, V[m]) \subseteq s
    BY <2>2, ReachedIsLeast
  <2>4. QED
    BY <2>1, <2>3 DEF s
<1>10. QED
  BY <1>1, <1>7, <1>9 DEF Acyclic, V

-----------------------------------------------------------------------------
(* The health of derived curves.                                           *)

\* What a curve is computed from, itself included.
Under(ss, n) == Reached(Uses(ss), {n})

\* Following references one at a time, down to the curves that have none.
LEMMA UnderIs ==
  ASSUME NEW ss, IsFiniteSet(DOMAIN ss), Acyclic(ss), NEW n \in DOMAIN ss
  PROVE  /\ n \in Under(ss, n) /\ Under(ss, n) \subseteq DOMAIN ss
         /\ \A m \in Uses(ss)[n] : /\ m \in DOMAIN ss /\ n \notin Under(ss, m)
                                   /\ Under(ss, m) \subseteq Under(ss, n)
                                   /\ Cardinality(Under(ss, m)) < Cardinality(Under(ss, n))
         /\ \A k \in Under(ss, n) : k = n \/ \E m \in Uses(ss)[n] : k \in Under(ss, m)
         /\ Cardinality(Under(ss, n)) \in Nat
<1> DEFINE U == Uses(ss)
           D == DOMAIN ss
           under(m) == Reached(U, {m})
           r == Reached(U, U[n])
<1>1. DOMAIN U = D /\ \A k \in D : U[k] \subseteq D
  BY UsesIs
<1>2. \A m \in D : /\ m \in under(m) /\ under(m) \subseteq D
                   /\ \A k \in under(m) : U[k] \subseteq under(m)
  BY <1>1, ReachedIs
<1>3. /\ U[n] \subseteq r /\ r \subseteq D /\ n \notin r /\ \A k \in r : U[k] \subseteq r
  BY <1>1, ReachedIs DEF Acyclic
<1>4. IsFiniteSet(under(n)) /\ Cardinality(under(n)) \in Nat
  BY <1>2, FS_Subset, FS_CardinalityType
<1> HIDE DEF U, D, under, r
<1>5. ASSUME NEW m \in U[n]
      PROVE  /\ m \in D /\ n \notin under(m) /\ under(m) \subseteq under(n)
             /\ Cardinality(under(m)) < Cardinality(under(n))
  <2>1. m \in D /\ m \in r
    BY <1>1, <1>3
  <2>2. under(m) \subseteq r
    BY <1>1, <1>3, <2>1, ReachedIsLeast DEF under
  <2>3. under(m) \subseteq under(n)
    <3>1. U[n] \subseteq under(n)
      BY <1>2 DEF D
    <3>2. {m} \subseteq under(n) /\ under(n) \subseteq DOMAIN U /\ \A k \in under(n) : U[k] \subseteq under(n)
      BY <1>1, <1>2, <3>1 DEF D
    <3>3. QED
      BY <3>2, ReachedIsLeast DEF under
  <2>4. n \in under(n) /\ n \notin under(m)
    BY <1>2, <1>3, <2>2 DEF D
  <2>5. IsFiniteSet(under(n) \ {n}) /\ Cardinality(under(n) \ {n}) = Cardinality(under(n)) - 1
    BY <1>4, <2>4, FS_RemoveElement
  <2>6. under(m) \subseteq under(n) \ {n}
    BY <2>3, <2>4
  <2>7. Cardinality(under(m)) <= Cardinality(under(n)) - 1 /\ Cardinality(under(m)) \in Nat
    BY <2>5, <2>6, FS_Subset, FS_CardinalityType
  <2>8. QED
    BY <1>4, <2>1, <2>3, <2>4, <2>7
<1>6. \A k \in under(n) : k = n \/ \E m \in U[n] : k \in under(m)
  <2> DEFINE s == {k \in D : k = n \/ \E m \in U[n] : k \in under(m)}
  <2>1. s \subseteq DOMAIN U /\ {n} \subseteq s
    BY <1>1 DEF D
  <2>2. ASSUME NEW k \in s, NEW l \in U[k] PROVE l \in s
    <3>1. l \in D
      BY <1>1
    <3>2. CASE k = n
      BY <1>2, <3>1, <3>2
    <3>3. CASE k # n
      <4>1. PICK m \in U[n] : k \in under(m)
        BY <3>3
      <4>2. l \in under(m)
        BY <1>2, <1>5, <4>1
      <4>3. QED
        BY <3>1, <4>2
    <3>4. QED
      BY <3>2, <3>3
  <2> HIDE DEF s
  <2>3. under(n) \subseteq s
    BY <2>1, <2>2, ReachedIsLeast DEF under
  <2>4. QED
    BY <2>3 DEF s
<1>7. QED
  BY <1>2, <1>4, <1>5, <1>6 DEF Under, under, U, D

\* What a curve lacks, and what of it is there twice.
Truth(ss, raw, n) ==
    [ missing   |-> ((UNION {ss[m] : m \in Under(ss, n)}) \ DOMAIN ss) \ raw,
      conflicts |-> Under(ss, n) \cap raw, cycle |-> FALSE ]

LEMMA HealthIs ==
  ASSUME NEW ss, IsFiniteSet(DOMAIN ss), Acyclic(ss), NEW raw
  PROVE  /\ DOMAIN HealthOf(ss, raw) = DOMAIN ss
         /\ \A n \in DOMAIN ss : HealthOf(ss, raw)[n] = Truth(ss, raw, n)
<1> DEFINE D == DOMAIN ss
           A == D \X (SUBSET D)
           H == [missing : SUBSET (UNION {ss[n] : n \in D}), conflicts : SUBSET D,
                 cycle : BOOLEAN]
           Below(f, at) == {f[<<m, at[2] \cup {at[1]}>>] : m \in ss[at[1]] \cap D}
           Found(f, at) ==
             [ missing   |-> (ss[at[1]] \ (D \cup raw)) \cup UNION {h.missing : h \in Below(f, at)},
               conflicts |-> ({at[1]} \cap raw) \cup UNION {h.conflicts : h \in Below(f, at)},
               cycle     |-> \E h \in Below(f, at) : h.cycle ]
           Circle == [Sound EXCEPT !.cycle = TRUE]
           Made(f, at) == IF at[1] \in at[2] THEN Circle ELSE Found(f, at)
           Eqn(f) == f = [at \in A |-> Made(f, at)]
           resolve == CHOOSE f : Eqn(f)
<1>1. HealthOf(ss, raw) = [n \in D |-> resolve[<<n, {}>>]]
  BY DEF HealthOf
<1>2. Sound \in H /\ Circle \in H
  BY DEF Sound
<1>3. \A at \in A : at = <<at[1], at[2]>> /\ at[1] \in D /\ at[2] \in SUBSET D
  OBVIOUS
<1>4. \A at \in A, m \in D : <<m, at[2] \cup {at[1]}>> \in A
  OBVIOUS
<1> HIDE DEF A, resolve, Circle
<1>5. ASSUME NEW f \in [A -> H], NEW at \in A PROVE Made(f, at) \in H
  <2>1. \A h \in Below(f, at) : h \in H
    BY <1>4
  <2>2. at[1] \in D
    BY <1>3
  <2> HIDE DEF Below
  <2>3. /\ (UNION {h.missing : h \in Below(f, at)}) \subseteq UNION {ss[n] : n \in D}
        /\ (UNION {h.conflicts : h \in Below(f, at)}) \subseteq D
    BY <2>1
  <2>4. ss[at[1]] \subseteq UNION {ss[n] : n \in D}
    BY <2>2
  <2>5. (\E h \in Below(f, at) : h.cycle) \in BOOLEAN
    OBVIOUS
  <2> DEFINE miss == (ss[at[1]] \ (D \cup raw)) \cup UNION {h.missing : h \in Below(f, at)}
             conf == ({at[1]} \cap raw) \cup UNION {h.conflicts : h \in Below(f, at)}
             cyc == \E h \in Below(f, at) : h.cycle
  <2>6. miss \in SUBSET (UNION {ss[n] : n \in D}) /\ conf \in SUBSET D /\ cyc \in BOOLEAN
    BY <2>2, <2>3, <2>4, <2>5
  <2>7. Found(f, at) = [missing |-> miss, conflicts |-> conf, cycle |-> cyc]
    OBVIOUS
  <2> HIDE DEF miss, conf, cyc, Found
  <2>8. Found(f, at) \in H
    BY <2>6, <2>7
  <2>9. QED
    BY <1>2, <2>8
<1>6. \E f : Eqn(f)
  <2> DEFINE rank == [at \in A |-> Cardinality(D \ at[2])]
             step == [p \in A \X [A -> H] |-> Made(p[2], p[1])]
  <2>1. Cardinality(D) \in Nat
    BY FS_CardinalityType
  <2>2. \A s \in SUBSET D : IsFiniteSet(D \ s) /\ Cardinality(D \ s) \in 0 .. Cardinality(D)
    <3> SUFFICES ASSUME NEW s \in SUBSET D
                 PROVE  IsFiniteSet(D \ s) /\ Cardinality(D \ s) \in 0 .. Cardinality(D)
      OBVIOUS
    <3>1. IsFiniteSet(D \ s) /\ Cardinality(D \ s) <= Cardinality(D)
      BY FS_Subset
    <3>2. QED
      BY <2>1, <3>1, FS_CardinalityType
  <2>3. rank \in [A -> 0 .. Cardinality(D)]
    BY <1>3, <2>2
  <2>4. step \in [A \X [A -> H] -> H]
    <3> HIDE DEF Made, H
    <3>1. \A p \in A \X [A -> H] : Made(p[2], p[1]) \in H
      BY <1>5
    <3>2. QED
      BY <3>1
  <2>5. ASSUME NEW at \in A, NEW f \in [A -> H], NEW g \in [A -> H],
               \A b \in A : rank[b] < rank[at] => f[b] = g[b]
        PROVE  step[<<at, f>>] = step[<<at, g>>]
    <3>1. step[<<at, f>>] = Made(f, at) /\ step[<<at, g>>] = Made(g, at)
      <4> HIDE DEF Made, H
      <4>1. QED
        OBVIOUS
    <3>2. CASE at[1] \in at[2]
      BY <3>1, <3>2
    <3>3. CASE at[1] \notin at[2]
      <4>1. ASSUME NEW m \in D PROVE f[<<m, at[2] \cup {at[1]}>>] = g[<<m, at[2] \cup {at[1]}>>]
        <5> DEFINE b == <<m, at[2] \cup {at[1]}>>
        <5>1. b \in A /\ at[1] \in D /\ at[2] \in SUBSET D
          BY <1>3, <1>4
        <5>2. rank[b] = Cardinality(D \ (at[2] \cup {at[1]})) /\ rank[at] = Cardinality(D \ at[2])
          BY <5>1
        <5>3. D \ (at[2] \cup {at[1]}) = (D \ at[2]) \ {at[1]} /\ at[1] \in D \ at[2]
          BY <3>3, <5>1
        <5>4. IsFiniteSet(D \ at[2])
          BY <2>2, <5>1
        <5>5. Cardinality((D \ at[2]) \ {at[1]}) = Cardinality(D \ at[2]) - 1
          <6> DEFINE S == D \ at[2]
          <6>1. IsFiniteSet(S) /\ at[1] \in S
            BY <5>3, <5>4
          <6> HIDE DEF S
          <6>2. Cardinality(S \ {at[1]}) = Cardinality(S) - 1
            BY <6>1, FS_RemoveElement
          <6>3. QED
            BY <6>2 DEF S
        <5>6. Cardinality(D \ at[2]) \in Nat
          BY <5>4, FS_CardinalityType
        <5>7. Cardinality(D \ (at[2] \cup {at[1]})) = Cardinality((D \ at[2]) \ {at[1]})
          BY <5>3, Zenon
        <5> HIDE DEF b, rank
        <5>8. rank[b] = rank[at] - 1 /\ rank[at] \in Nat
          BY <5>2, <5>5, <5>6, <5>7
        <5>9. QED
          BY <2>5, <5>1, <5>8 DEF b
      <4>2. Below(f, at) = Below(g, at)
        BY <4>1
      <4> HIDE DEF Below
      <4>3. Found(f, at) = Found(g, at)
        BY <4>2
      <4>4. QED
        BY <3>1, <3>3, <4>3
    <3>4. QED
      BY <3>2, <3>3
  <2> HIDE DEF rank, step, H
  <2>6. PICK f \in [A -> H] : \A at \in A : f[at] = step[<<at, f>>]
    <3>1. \A at \in A : \A f, g \in [A -> H] :
             (\A b \in A : rank[b] < rank[at] => f[b] = g[b]) => step[<<at, f>>] = step[<<at, g>>]
      BY <2>5
    <3>2. ByRank(step, rank, A, H, Cardinality(D))
      BY <2>3, <2>4, <3>1 DEF ByRank
    <3>3. Sound \in H
      BY <1>2
    <3> DEFINE N == Cardinality(D)
    <3>4. N \in Nat /\ ByRank(step, rank, A, H, N)
      BY <2>1, <3>2
    <3> HIDE DEF N, D
    <3>5. QED
      BY <3>3, <3>4, RecursionExists
  <2>7. \A at \in A : step[<<at, f>>] = Made(f, at)
    <3> HIDE DEF Made
    <3>1. ASSUME NEW at \in A PROVE step[<<at, f>>] = Made(f, at)
      <4>1. <<at, f>> \in A \X [A -> H] /\ <<at, f>>[1] = at /\ <<at, f>>[2] = f
        OBVIOUS
      <4>2. QED
        BY <4>1 DEF step
    <3>2. QED
      BY <3>1
  <2> HIDE DEF Made
  <2>8. Eqn(f)
    BY <2>6, <2>7
  <2>9. QED
    BY <2>8
<1>7. Eqn(resolve)
  <2> HIDE DEF Eqn
  <2>1. QED
    BY <1>6 DEF resolve
<1>8. \A at \in A : resolve[at] = Made(resolve, at)
  <2> HIDE DEF Made
  <2>1. QED
    BY <1>7
<1> HIDE DEF Eqn
<1> DEFINE Right(n) == \A above \in SUBSET D :
             above \cap Under(ss, n) = {} => resolve[<<n, above>>] = Truth(ss, raw, n)
           T == {k \in Nat : \A n \in D : Cardinality(Under(ss, n)) <= k => Right(n)}
<1>9. \A n \in D : Cardinality(Under(ss, n)) \in Nat \ {0}
  <2> SUFFICES ASSUME NEW n \in D PROVE Cardinality(Under(ss, n)) \in Nat \ {0}
    OBVIOUS
  <2>1. n \in Under(ss, n) /\ Under(ss, n) \subseteq D /\ Cardinality(Under(ss, n)) \in Nat
    BY UnderIs
  <2>2. QED
    BY <2>1, FS_Subset, FS_EmptySet
<1>10. 0 \in T
  BY <1>9
<1>11. ASSUME NEW n \in D, \A m \in Uses(ss)[n] : Right(m) PROVE Right(n)
  <2> SUFFICES ASSUME NEW above \in SUBSET D, above \cap Under(ss, n) = {}
               PROVE  resolve[<<n, above>>] = Truth(ss, raw, n)
    OBVIOUS
  <2> DEFINE at == <<n, above>>
             U == ss[n] \cap D
  <2>1. U = Uses(ss)[n]
    BY UsesIs
  <2>2. /\ n \in Under(ss, n) /\ Under(ss, n) \subseteq D
        /\ \A m \in U : m \in D /\ n \notin Under(ss, m) /\ Under(ss, m) \subseteq Under(ss, n)
        /\ \A k \in Under(ss, n) : k = n \/ \E m \in U : k \in Under(ss, m)
    BY <2>1, UnderIs
  <2>3. at \in A /\ at[1] = n /\ at[2] = above /\ n \notin above
    BY <2>2 DEF A
  <2>4. \A m \in U : resolve[<<m, above \cup {n}>>] = Truth(ss, raw, m)
    BY <1>11, <2>1, <2>2
  <2>5. Below(resolve, at) = {Truth(ss, raw, m) : m \in U}
    BY <2>3, <2>4
  <2>6. resolve[at] = Found(resolve, at)
    BY <1>8, <2>3
  <2> HIDE DEF Below, at
  <2>7. /\ (UNION {h.missing : h \in Below(resolve, at)}) = UNION {Truth(ss, raw, m).missing : m \in U}
        /\ (UNION {h.conflicts : h \in Below(resolve, at)}) = UNION {Truth(ss, raw, m).conflicts : m \in U}
        /\ ~ \E h \in Below(resolve, at) : h.cycle
    <3>1. \A m \in U : ~ Truth(ss, raw, m).cycle
      BY DEF Truth
    <3>2. QED
      BY <2>5, <3>1
  <2>8. (ss[n] \ (D \cup raw)) \cup (UNION {Truth(ss, raw, m).missing : m \in U})
          = ((UNION {ss[m] : m \in Under(ss, n)}) \ D) \ raw
    <3> DEFINE left == (ss[n] \ (D \cup raw)) \cup (UNION {Truth(ss, raw, m).missing : m \in U})
               right == ((UNION {ss[m] : m \in Under(ss, n)}) \ D) \ raw
    <3>1. \A m \in U : Truth(ss, raw, m).missing = ((UNION {ss[k] : k \in Under(ss, m)}) \ D) \ raw
      BY DEF Truth
    <3>2. ASSUME NEW x \in left PROVE x \in right
      <4>1. CASE x \in ss[n] \ (D \cup raw)
        BY <2>2, <4>1
      <4>2. CASE \E m \in U : x \in Truth(ss, raw, m).missing
        BY <2>2, <3>1, <4>2
      <4>3. QED
        BY <3>2, <4>1, <4>2
    <3>3. ASSUME NEW x \in right PROVE x \in left
      <4>1. PICK k \in Under(ss, n) : x \in ss[k]
        BY <3>3
      <4>2. x \notin D /\ x \notin raw
        BY <3>3
      <4>3. CASE k = n
        BY <4>1, <4>2, <4>3
      <4>4. CASE k # n
        <5>1. PICK m \in U : k \in Under(ss, m)
          BY <2>2, <4>4
        <5>2. x \in Truth(ss, raw, m).missing
          BY <3>1, <4>1, <4>2, <5>1
        <5>3. QED
          BY <5>1, <5>2
      <4>5. QED
        BY <4>3, <4>4
    <3> HIDE DEF left, right
    <3>4. left = right
      BY <3>2, <3>3
    <3>5. QED
      BY <3>4 DEF left, right
  <2>9. ({n} \cap raw) \cup (UNION {Truth(ss, raw, m).conflicts : m \in U}) = Under(ss, n) \cap raw
    <3>1. \A m \in U : Truth(ss, raw, m).conflicts = Under(ss, m) \cap raw
      BY DEF Truth
    <3>2. QED
      BY <2>2, <3>1
  <2>10. QED
    BY <2>3, <2>6, <2>7, <2>8, <2>9 DEF Truth, at
<1> HIDE DEF Made, Right
<1>12. ASSUME NEW k \in Nat, k \in T PROVE k + 1 \in T
  <2> SUFFICES ASSUME NEW n \in D, Cardinality(Under(ss, n)) <= k + 1 PROVE Right(n)
    OBVIOUS
  <2>1. ASSUME NEW m \in Uses(ss)[n] PROVE Right(m)
    <3>1. m \in D /\ Cardinality(Under(ss, m)) < Cardinality(Under(ss, n))
      BY UnderIs
    <3>2. Cardinality(Under(ss, m)) <= k
      BY <1>9, <3>1
    <3>3. QED
      BY <1>12, <3>1, <3>2
  <2>2. QED
    BY <1>11, <2>1
<1> HIDE DEF T
<1>13. Nat \subseteq T
  BY <1>10, <1>12, NatSetInduction
<1>14. ASSUME NEW n \in D PROVE resolve[<<n, {}>>] = Truth(ss, raw, n)
  <2>1. Cardinality(Under(ss, n)) \in T /\ Cardinality(Under(ss, n)) <= Cardinality(Under(ss, n))
    BY <1>9, <1>13
  <2>2. Right(n)
    BY <2>1 DEF T
  <2>3. {} \in SUBSET D /\ {} \cap Under(ss, n) = {}
    OBVIOUS
  <2>4. QED
    BY <2>2, <2>3 DEF Right
<1>15. QED
  BY <1>1, <1>14

\* No curve leads back to itself, the stored health is that of the curves and variables
\* there are, and of what a curve names nothing is available without being plotted.
HealthInv ==
    /\ Acyclic(specs)
    /\ health = HealthOf(specs, available)
    /\ \A n \in Derived : specs[n] \cap available \subseteq registry.curves

LEMMA HealthInit == Init => HealthInv
<1> SUFFICES ASSUME Init PROVE HealthInv
  OBVIOUS
<1>1. DOMAIN specs = {} /\ DOMAIN health = {} /\ health = [n \in {} |-> None]
  BY DEF Init
<1>2. Acyclic(specs)
  BY <1>1 DEF Acyclic
<1>3. health = HealthOf(specs, available)
  <2> DEFINE resolve == HealthOf(specs, available)
  <2>1. DOMAIN resolve = {} /\ resolve = [n \in {} |-> resolve[n]]
    BY <1>1 DEF HealthOf
  <2> HIDE DEF resolve
  <2>2. QED
    BY <1>1, <2>1 DEF resolve
<1>4. QED
  BY <1>1, <1>2, <1>3 DEF HealthInv, Derived

LEMMA HealthStep == PanelInv /\ HealthInv /\ [Next]_vars => HealthInv'
<1> SUFFICES ASSUME PanelInv, HealthInv, [Next]_vars PROVE HealthInv'
  OBVIOUS
<1> USE DEF HealthInv
<1>1. ASSUME NEW schema \in Schemas, NEW raw, Install(schema, raw),
             raw \subseteq Described(schema) \cup StaticNames
      PROVE  HealthInv'
  <2>1. /\ specs' = specs /\ available' = raw /\ health' = HealthOf(specs, raw)
        /\ registry' = Register(registry, schema)
    BY <1>1 DEF Install
  <2>2. Agreeing(registry', Derived) /\ Described(schema) \subseteq registry'.curves
    BY <2>1, RegisterIs DEF PanelInv
  <2>3. raw \subseteq registry'.curves
    BY <1>1, <2>2 DEF Agreeing
  <2>4. QED
    BY <2>1, <2>3 DEF Derived
<1>2. CASE InstallLive
  <2>1. PICK schema \in Schemas : Install(schema, Described(schema) \cup StaticNames)
    BY <1>2 DEF InstallLive
  <2>2. QED
    BY <1>1, <2>1
<1>3. CASE Import
  <2>1. PICK schema \in Schemas : Install(schema, Described(schema))
    BY <1>3 DEF Import
  <2>2. QED
    BY <1>1, <2>1
<1>4. ASSUME NEW n, NEW refs \in SUBSET registry.curves, ~ WouldCycle(n, refs),
             specs' = With(specs, n, refs), health' = HealthOf(specs', available),
             available' = available, registry.curves \subseteq registry'.curves
      PROVE  HealthInv'
  <2>1. Acyclic(specs')
    BY <1>4, NoCycleCloses
  <2>2. DOMAIN specs' = DOMAIN specs \cup {n} /\ specs'[n] = refs
        /\ \A m \in DOMAIN specs : m # n => specs'[m] = specs[m]
    BY <1>4 DEF With
  <2>3. QED
    BY <1>4, <2>1, <2>2 DEF Derived
<1>5. CASE \E n \in DerivedNames : CreateDerived(n)
  <2>1. PICK n \in DerivedNames : CreateDerived(n)
    BY <1>5
  <2>2. PICK refs \in SUBSET registry.curves : /\ Acceptable(n, refs) /\ specs' = With(specs, n, refs)
    BY <2>1 DEF CreateDerived
  <2>3. registry.curves \subseteq registry'.curves
    BY <2>1, CreateKeeps
  <2>4. health' = HealthOf(specs', available) /\ available' = available
    BY <2>1 DEF CreateDerived
  <2>5. QED
    BY <1>4, <2>2, <2>3, <2>4 DEF Acceptable
<1>6. CASE UpdateDerived
  <2>1. PICK refs \in SUBSET registry.curves :
           Acceptable(selected, refs) /\ specs' = [specs EXCEPT ![selected] = refs]
    BY <1>6 DEF UpdateDerived
  <2>2. selected \in Derived /\ specs \in [Derived -> SUBSET Variables]
    BY <1>6 DEF UpdateDerived, PanelInv
  <2>3. specs' = With(specs, selected, refs)
    BY <2>1, <2>2 DEF With, Derived
  <2>4. /\ health' = HealthOf(specs', available) /\ available' = available
        /\ registry' = registry
    BY <1>6 DEF UpdateDerived
  <2>5. QED
    BY <1>4, <2>1, <2>3, <2>4 DEF Acceptable
<1>7. CASE DeleteDerived
  <2> DEFINE names == WithDependents({selected})
  <2>1. selected \in Derived /\ specs' = [n \in Derived \ names |-> specs[n]]
    BY <1>7 DEF DeleteDerived
  <2>2. health' = HealthOf(specs', available) /\ available' = available
    BY <1>7 DEF DeleteDerived
  <2>3. registry'.curves = registry.curves \ names
    BY <1>7, DeleteKeeps
  <2>4. /\ Acyclic(specs')
        /\ \A n \in DOMAIN specs' : specs'[n] = specs[n] /\ specs[n] \cap names = {}
    BY <2>1, RestIsAcyclic
  <2>5. DOMAIN specs' \subseteq Derived
    BY <2>1
  <2> HIDE DEF names
  <2>6. QED
    BY <2>2, <2>3, <2>4, <2>5 DEF Derived
<1>8. CASE Select \/ UNCHANGED vars
  BY <1>8 DEF Select, vars, Derived
<1>9. CASE StartDrag \/ DragOver \/ Drop \/ CancelDrag
  BY <1>9, DragKeeps DEF Derived
<1>10. CASE ResetLayout \/ Resize
  BY <1>10, LayoutKeeps DEF Derived
<1>11. QED
  BY <1>2, <1>3, <1>5, <1>6, <1>7, <1>8, <1>9, <1>10 DEF Next

\* What is said of a derived curve is what its expression, followed to any depth, and
\* the variables there are say; and what is valid can be drawn.
THEOREM HealthStaysSound == Spec => []HealthSound
<1>1. PanelInv /\ HealthInv => HealthSound
  <2> SUFFICES ASSUME PanelInv, HealthInv PROVE HealthSound
    OBVIOUS
  <2>1. IsFiniteSet(DOMAIN specs) /\ Acyclic(specs) /\ health = HealthOf(specs, available)
    BY DEF PanelInv, HealthInv, Derived
  <2>2. \A n \in Derived : health[n] = Truth(specs, available, n)
    BY <2>1, HealthIs DEF Derived
  <2>3. HealthTellsTheTruth
    BY <2>1, <2>2 DEF HealthTellsTheTruth, Truth, Under, Acyclic, Derived
  <2>4. ASSUME NEW n \in Derived, Valid(health[n]) PROVE specs[n] \subseteq registry.curves
    <3>1. n \in Under(specs, n)
      BY <2>1, UnderIs DEF Derived
    <3>2. ((UNION {specs[m] : m \in Under(specs, n)}) \ Derived) \ available = {}
      <4>1. Truth(specs, available, n).missing = {}
        BY <2>2, <2>4 DEF Valid
      <4>2. Truth(specs, available, n).missing
              = ((UNION {specs[m] : m \in Under(specs, n)}) \ Derived) \ available
        BY DEF Truth, Derived
      <4>3. QED
        BY <4>1, <4>2
    <3>3. specs[n] \subseteq Derived \cup available
      BY <3>1, <3>2
    <3>4. Derived \subseteq registry.curves /\ specs[n] \cap available \subseteq registry.curves
      BY DEF PanelInv, Agreeing, HealthInv
    <3>5. QED
      BY <3>3, <3>4
  <2>5. QED
    BY <2>3, <2>4 DEF HealthSound, ValidIsPlottable
<1>2. Init => PanelInv /\ HealthInv
  BY PanelInit, HealthInit
<1>3. PanelInv /\ HealthInv /\ [Next]_vars => (PanelInv /\ HealthInv)'
  BY PanelStep, HealthStep
<1>4. QED
  BY <1>1, <1>2, <1>3, PTL DEF Spec
================================================================================
