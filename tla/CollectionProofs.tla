-------------------------- MODULE CollectionProofs --------------------------
(***************************************************************************)
(* Facts about finite sets, the filter of lists and the sums over sets     *)
(* that the other proofs use.                                              *)
(*                                                                         *)
(* The theorems of the library that speak of induction take a predicate as *)
(* their parameter, which the provers cannot instantiate.  Here induction  *)
(* is first-order: a set of counterexamples that is not empty has a        *)
(* smallest element (SmallestSet, LeastNumber), which the step of the      *)
(* induction refutes.                                                      *)
(***************************************************************************)
EXTENDS Lists, Functions, FiniteSetTheorems, TLAPS

\* A collection of finite sets has one that contains no other: the first-order form of
\* induction over finite sets.
LEMMA SmallestSet ==
    ASSUME NEW U, U # {}, \A T \in U : IsFiniteSet(T)
    PROVE  \E T \in U : \A V \in U : V \subseteq T => V = T
<1> DEFINE S == UNION U
<1>1. IsWellFoundedOn(StrictSubsetOrdering(S), FiniteSubsetsOf(S))
  BY FS_StrictSubsetOrderingWellFounded
<1>2. U \subseteq FiniteSubsetsOf(S)
  BY DEF FiniteSubsetsOf
<1>3. PICK T \in U : \A V \in U : ~ (<<V, T>> \in StrictSubsetOrdering(S))
  BY <1>1, <1>2, WFMin
<1>4. \A V \in U : V \subseteq T => V = T
  BY <1>3 DEF StrictSubsetOrdering
<1> QED BY <1>4

\* A set of natural numbers has a least one: the first-order form of induction over Nat.
LEMMA LeastNumber ==
    ASSUME NEW T \in SUBSET Nat, T # {}
    PROVE  \E n \in T : \A m \in T : n <= m
<1> DEFINE Below == {0..n : n \in T}
<1>1. Below # {}
  OBVIOUS
<1>2. \A V \in Below : IsFiniteSet(V)
  <2>1. ASSUME NEW n \in Nat PROVE IsFiniteSet(0..n)
    BY FS_Interval
  <2> QED BY <2>1
<1>3. PICK V \in Below : \A W \in Below : W \subseteq V => W = V
  <2> HIDE DEF Below
  <2> QED BY <1>1, <1>2, SmallestSet
<1>4. PICK n \in T : V = 0..n
  OBVIOUS
<1>5. ASSUME NEW m \in T PROVE n <= m
  <2>1. 0..m \in Below
    OBVIOUS
  <2> SUFFICES ASSUME m < n PROVE FALSE
    OBVIOUS
  <2>2. 0..m \subseteq V
    BY <1>4
  <2>3. 0..m = 0..n
    BY <1>3, <1>4, <2>1, <2>2
  <2>4. n \in 0..m
    BY <2>3
  <2> QED BY <2>4
<1> QED BY <1>5

-----------------------------------------------------------------------------
(* Keep. *)

\* f is the recursive function in Keep, up to the n-th element.
IsFilter(f, list, S, n) ==
    f = [i \in 0..n |-> IF i = 0 THEN <<>>
                        ELSE IF list[i] \in S THEN Append(f[i - 1], list[i]) ELSE f[i - 1]]

\* The recursive definition in Keep has a solution.
LEMMA FilterExists ==
    ASSUME NEW list, NEW S, NEW n \in Nat
    PROVE  \E f : IsFilter(f, list, S, n)
<1> DEFINE Bad == {m \in Nat : ~ \E f : IsFilter(f, list, S, m)}
<1> SUFFICES ASSUME Bad # {} PROVE FALSE
  OBVIOUS
<1>1. PICK m \in Bad : \A k \in Bad : m <= k
  <2>1. Bad \in SUBSET Nat
    OBVIOUS
  <2> HIDE DEF Bad
  <2> QED BY <2>1, LeastNumber
<1>2. m # 0
  <2> DEFINE f == [i \in 0..0 |-> <<>>]
  <2>1. IsFilter(f, list, S, 0)
    BY DEF IsFilter
  <2> HIDE DEF f
  <2> QED BY <2>1
<1>3. m - 1 \in Nat /\ m - 1 \notin Bad
  BY <1>1, <1>2
<1>4. PICK f : IsFilter(f, list, S, m - 1)
  BY <1>3
<1> DEFINE g == [i \in 0..m |-> IF i < m THEN f[i]
                               ELSE IF list[m] \in S THEN Append(f[m - 1], list[m])
                                                     ELSE f[m - 1]]
<1>5. IsFilter(g, list, S, m)
  <2>1. \A i \in 0..(m - 1) : f[i] = IF i = 0 THEN <<>>
             ELSE IF list[i] \in S THEN Append(f[i - 1], list[i]) ELSE f[i - 1]
    BY <1>4 DEF IsFilter
  <2>2. \A i \in 0..m : g[i] = IF i = 0 THEN <<>>
             ELSE IF list[i] \in S THEN Append(g[i - 1], list[i]) ELSE g[i - 1]
    <3> TAKE i \in 0..m
    <3>1. CASE i = m
      BY <1>2, <1>3, <3>1
    <3>2. CASE i < m
      <4>1. g[i] = f[i] /\ (i # 0 => g[i - 1] = f[i - 1])
        BY <1>3, <3>2
      <4> QED BY <1>3, <2>1, <3>2, <4>1
    <3> QED BY <1>3, <3>1, <3>2
  <2>3. g = [i \in 0..m |-> g[i]]
    OBVIOUS
  <2> HIDE DEF g
  <2> QED BY <2>2, <2>3 DEF IsFilter
<1> HIDE DEF g
<1> QED BY <1>5

\* Keep is computed by such a solution.
LEMMA KeepIsFilter ==
    ASSUME NEW list, NEW S, NEW T, list \in Seq(T)
    PROVE  \E f : IsFilter(f, list, S, Len(list)) /\ Keep(list, S) = f[Len(list)]
<1> DEFINE f == CHOOSE f : IsFilter(f, list, S, Len(list))
<1>1. IsFilter(f, list, S, Len(list))
  <2>1. Len(list) \in Nat
    OBVIOUS
  <2> QED BY <2>1, FilterExists
<1>2. Keep(list, S) = f[Len(list)]
  BY Zenon DEF Keep, IsFilter
<1> HIDE DEF f
<1> QED BY <1>1, <1>2

\* What Keep returns is a list of elements that are in the set and in the list it was given.
LEMMA KeepElements ==
    ASSUME NEW T, NEW list \in Seq(T), NEW S
    PROVE  /\ Keep(list, S) \in Seq(T \cap S)
           /\ \A i \in DOMAIN Keep(list, S) : \E j \in DOMAIN list : Keep(list, S)[i] = list[j]
<1>1. PICK f : IsFilter(f, list, S, Len(list)) /\ Keep(list, S) = f[Len(list)]
  BY KeepIsFilter
<1> DEFINE Part(m) == f[m] \in Seq({x \in T \cap S : \E j \in DOMAIN list : x = list[j]})
           Bad == {m \in 0..Len(list) : ~ Part(m)}
<1>2. Bad = {}
  <2> SUFFICES ASSUME Bad # {} PROVE FALSE
    OBVIOUS
  <2>1. PICK m \in Bad : \A k \in Bad : m <= k
    <3>1. Bad \in SUBSET Nat
      OBVIOUS
    <3> HIDE DEF Bad
    <3> QED BY <3>1, LeastNumber
  <2>2. m \in 0..Len(list) /\ ~ Part(m)
    OBVIOUS
  <2>3. f[m] = IF m = 0 THEN <<>>
               ELSE IF list[m] \in S THEN Append(f[m - 1], list[m]) ELSE f[m - 1]
    BY <1>1, <2>2 DEF IsFilter
  <2>4. m # 0
    BY <2>2, <2>3
  <2>5. m - 1 \in 0..Len(list) /\ m - 1 \notin Bad
    <3>1. m - 1 \in 0..Len(list) /\ ~ (m <= m - 1)
      BY <2>2, <2>4
    <3> HIDE DEF Bad
    <3> QED BY <2>1, <3>1
  <2>6. Part(m - 1)
    BY <2>5
  <2>7. m \in DOMAIN list /\ list[m] \in T
    BY <2>2, <2>4
  <2>8. Part(m)
    BY <2>3, <2>4, <2>6, <2>7
  <2> QED BY <2>2, <2>8
<1>3. Part(Len(list))
  BY <1>2
<1> HIDE DEF Bad
<1>4. \A i \in DOMAIN f[Len(list)] :
         f[Len(list)][i] \in {x \in T \cap S : \E j \in DOMAIN list : x = list[j]}
  BY <1>3
<1>5. f[Len(list)] \in Seq(T \cap S)
  BY <1>3
<1> QED BY <1>1, <1>4, <1>5

\* Different elements stay different.
LEMMA KeepDistinct ==
    ASSUME NEW T, NEW list \in Seq(T), NEW S,
           \A i, j \in DOMAIN list : list[i] = list[j] => i = j
    PROVE  \A i, j \in DOMAIN Keep(list, S) : Keep(list, S)[i] = Keep(list, S)[j] => i = j
<1>1. PICK f : IsFilter(f, list, S, Len(list)) /\ Keep(list, S) = f[Len(list)]
  BY KeepIsFilter
<1> DEFINE Seen(m) == {x \in T : \E j \in 1..m : x = list[j]}
           Part(m) == /\ f[m] \in Seq(Seen(m))
                      /\ \A i, j \in DOMAIN f[m] : f[m][i] = f[m][j] => i = j
           Bad == {m \in 0..Len(list) : ~ Part(m)}
<1>2. Bad = {}
  <2> SUFFICES ASSUME Bad # {} PROVE FALSE
    OBVIOUS
  <2>1. PICK m \in Bad : \A k \in Bad : m <= k
    <3>1. Bad \in SUBSET Nat
      OBVIOUS
    <3> HIDE DEF Bad
    <3> QED BY <3>1, LeastNumber
  <2>2. m \in 0..Len(list) /\ ~ Part(m)
    OBVIOUS
  <2>3. f[m] = IF m = 0 THEN <<>>
               ELSE IF list[m] \in S THEN Append(f[m - 1], list[m]) ELSE f[m - 1]
    BY <1>1, <2>2 DEF IsFilter
  <2>4. m # 0
    <3>1. SUFFICES ASSUME m = 0 PROVE FALSE
      OBVIOUS
    <3>2. f[m] = <<>>
      BY <2>3, <3>1
    <3>3. f[m] \in Seq(Seen(m)) /\ DOMAIN f[m] = {}
      <4> HIDE DEF Seen
      <4> QED BY <3>2
    <3> QED BY <2>2, <3>3
  <2>5. m - 1 \in 0..Len(list) /\ m - 1 \notin Bad
    <3>1. m - 1 \in 0..Len(list) /\ ~ (m <= m - 1)
      BY <2>2, <2>4
    <3> HIDE DEF Bad
    <3> QED BY <2>1, <3>1
  <2>6. Part(m - 1)
    BY <2>5
  <2>7. m \in DOMAIN list /\ list[m] \in T
    BY <2>2, <2>4
  <2> DEFINE e == f[m - 1]
  <2>8. /\ e \in Seq(Seen(m)) /\ list[m] \in Seen(m)
        /\ \A i \in DOMAIN e : e[i] # list[m]
        /\ \A i, j \in DOMAIN e : e[i] = e[j] => i = j
    <3>1. Seen(m - 1) \subseteq Seen(m)
      BY <2>2, <2>4
    <3>2. list[m] \in Seen(m)
      BY <2>2, <2>4, <2>7
    <3>3. list[m] \notin Seen(m - 1)
      BY <2>2, <2>7
    <3>4. /\ e \in Seq(Seen(m - 1))
          /\ \A i, j \in DOMAIN e : e[i] = e[j] => i = j
      BY <2>6
    <3> HIDE DEF Seen, e
    <3> QED BY <3>1, <3>2, <3>3, <3>4
  <2>9. f[m] = Append(e, list[m]) \/ f[m] = e
    BY <2>3, <2>4
  <2>10. f[m] \in Seq(Seen(m))
    <3>1. e \in Seq(Seen(m)) /\ list[m] \in Seen(m)
      BY <2>8
    <3> HIDE DEF Seen, e
    <3>2. Append(e, list[m]) \in Seq(Seen(m))
      BY <3>1
    <3> QED BY <2>9, <3>1, <3>2
  <2>11. \A i, j \in DOMAIN f[m] : f[m][i] = f[m][j] => i = j
    <3>1. CASE f[m] = e
      <4> HIDE DEF Seen, e
      <4> QED BY <2>8, <3>1
    <3>2. CASE f[m] = Append(e, list[m])
      <4> HIDE DEF Seen, e
      <4>1. /\ DOMAIN e = 1..Len(e) /\ DOMAIN f[m] = 1..(Len(e) + 1) /\ Len(e) \in Nat
            /\ \A i \in 1..Len(e) : f[m][i] = e[i]
            /\ f[m][Len(e) + 1] = list[m]
        BY <2>8, <3>2
      <4>2. \A i \in DOMAIN f[m] : i \in DOMAIN e \/ i = Len(e) + 1
        BY <4>1
      <4> QED BY <2>8, <4>1, <4>2
    <3> QED BY <2>9, <3>1, <3>2
  <2> QED BY <2>2, <2>10, <2>11
<1>3. Part(Len(list))
  BY <1>2
<1> QED BY <1>1, <1>3

-----------------------------------------------------------------------------
(* Sums. *)

\* The step of SumFunctionOnSet at the set s, where g gives the sums over smaller sets.
RestOfSum(g, f, s) ==
    IF s = {} THEN 0
    ELSE LET x == CHOOSE x \in s : TRUE IN f[x] + g[s \ {x}]

\* g is the recursive function in SumFunctionOnSet(f, S).
IsSum(g, f, S) == g = [s \in SUBSET S |-> RestOfSum(g, f, s)]

\* The recursive definition of a sum over a finite set has a solution.
LEMMA SumExists ==
    ASSUME NEW f, NEW S, IsFiniteSet(S)
    PROVE  \E g : IsSum(g, f, S)
<1> DEFINE Small(n) == {s \in SUBSET S : Cardinality(s) <= n}
           IsPart(g, n) == g = [s \in Small(n) |-> RestOfSum(g, f, s)]
           Bad == {n \in Nat : ~ \E g : IsPart(g, n)}
<1>1. \A s \in SUBSET S : IsFiniteSet(s) /\ Cardinality(s) \in Nat /\ Cardinality(s) <= Cardinality(S)
  BY FS_Subset, FS_CardinalityType
<1>2. Bad = {}
  <2> SUFFICES ASSUME Bad # {} PROVE FALSE
    OBVIOUS
  <2>1. PICK m \in Bad : \A k \in Bad : m <= k
    <3>1. Bad \in SUBSET Nat
      OBVIOUS
    <3> HIDE DEF Bad
    <3> QED BY <3>1, LeastNumber
  <2>2. m # 0
    <3> DEFINE g == [s \in Small(0) |-> 0]
    <3>1. \A s \in Small(0) : s = {}
      BY <1>1, FS_EmptySet
    <3>2. \A s \in Small(0) : RestOfSum(g, f, s) = 0
      BY <3>1 DEF RestOfSum
    <3>3. IsPart(g, 0)
      BY <3>2
    <3> QED BY <3>3
  <2>3. m \in Nat /\ m - 1 \in Nat /\ m - 1 \notin Bad
    <3>1. m \in Nat
      OBVIOUS
    <3> HIDE DEF Bad
    <3> QED BY <2>1, <2>2, <3>1
  <2>4. PICK g : IsPart(g, m - 1)
    BY <2>3
  <2> DEFINE h == [s \in Small(m) |-> RestOfSum(g, f, s)]
  <2>5. ASSUME NEW s \in Small(m) PROVE RestOfSum(h, f, s) = RestOfSum(g, f, s)
    <3>1. CASE s = {}
      BY <3>1 DEF RestOfSum
    <3>2. CASE s # {}
      <4> DEFINE x == CHOOSE x \in s : TRUE
                 r == s \ {x}
      <4>1. x \in s
        BY <3>2
      <4> HIDE DEF x
      <4>2. r \in SUBSET S /\ Cardinality(r) = Cardinality(s) - 1
        BY <1>1, <4>1, FS_RemoveElement
      <4>3. r \in Small(m - 1) /\ r \in Small(m)
        BY <1>1, <2>3, <4>2
      <4>4. h[r] = RestOfSum(g, f, r)
        BY <4>3
      <4>5. g[r] = RestOfSum(g, f, r)
        BY <2>4, <4>3
      <4> HIDE DEF h, r
      <4> QED BY <3>2, <4>4, <4>5 DEF RestOfSum, x, r
    <3> QED BY <3>1, <3>2
  <2>6. IsPart(h, m)
    BY <2>5
  <2> HIDE DEF h
  <2> QED BY <2>6
<1>3. PICK g : IsPart(g, Cardinality(S))
  <2>1. Cardinality(S) \in Nat
    BY FS_CardinalityType
  <2> QED BY <1>2, <2>1
<1>4. Small(Cardinality(S)) = SUBSET S
  BY <1>1
<1> QED BY <1>3, <1>4 DEF IsSum

\* SumFunctionOnSet is computed by such a solution.
LEMMA FoldIsSum ==
    ASSUME NEW f, NEW S, IsFiniteSet(S)
    PROVE  \E g : IsSum(g, f, S) /\ SumFunctionOnSet(f, S) = g[S]
<1> DEFINE g == CHOOSE g : IsSum(g, f, S)
<1>1. IsSum(g, f, S)
  BY SumExists
<1>2. SumFunctionOnSet(f, S) = g[S]
  BY Zenon DEF SumFunctionOnSet, FoldFunctionOnSet, MapThenFoldSet, IsSum, RestOfSum
<1> HIDE DEF g
<1> QED BY <1>1, <1>2

\* g is a sum of f over the subsets of S, in whatever order.
Sums(g, f, S) ==
    /\ g[{}] = 0
    /\ \A s \in SUBSET S : \A x \in s : g[s] = f[x] + g[s \ {x}]

\* Sums of integers are integers.
LEMMA SumIsInt ==
    ASSUME NEW S, IsFiniteSet(S), NEW f, \A x \in S : f[x] \in Int, NEW g, IsSum(g, f, S)
    PROVE  \A s \in SUBSET S : g[s] \in Int
<1> DEFINE Bad == {s \in SUBSET S : g[s] \notin Int}
<1> SUFFICES ASSUME Bad # {} PROVE FALSE
  OBVIOUS
<1>1. \A s \in Bad : IsFiniteSet(s)
  BY FS_Subset
<1>2. PICK s \in Bad : \A r \in Bad : r \subseteq s => r = s
  <2> HIDE DEF Bad
  <2> QED BY <1>1, SmallestSet
<1>3. s \in SUBSET S /\ g[s] \notin Int
  OBVIOUS
<1>4. g[s] = RestOfSum(g, f, s)
  BY <1>3 DEF IsSum
<1>5. s # {}
  BY <1>3, <1>4 DEF RestOfSum
<1> DEFINE c == CHOOSE x \in s : TRUE
<1>6. c \in s /\ g[s] = f[c] + g[s \ {c}]
  BY <1>4, <1>5 DEF RestOfSum
<1> HIDE DEF c
<1>7. s \ {c} \notin Bad
  <2> HIDE DEF Bad
  <2> QED BY <1>2, <1>6
<1>8. g[s \ {c}] \in Int
  BY <1>3, <1>7
<1> QED BY <1>3, <1>6, <1>8

\* The sum does not depend on the order in which CHOOSE picks the elements.
LEMMA AnyOrder ==
    ASSUME NEW S, IsFiniteSet(S), NEW f, \A x \in S : f[x] \in Int, NEW g, IsSum(g, f, S)
    PROVE  Sums(g, f, S)
<1>1. \A s \in SUBSET S : g[s] = RestOfSum(g, f, s) /\ g[s] \in Int
  BY SumIsInt DEF IsSum
<1>2. g[{}] = 0
  BY <1>1 DEF RestOfSum
<1> DEFINE Bad == {s \in SUBSET S : \E x \in s : g[s] # f[x] + g[s \ {x}]}
<1>3. Bad = {}
  <2> SUFFICES ASSUME Bad # {} PROVE FALSE
    OBVIOUS
  <2>1. \A s \in Bad : IsFiniteSet(s)
    BY FS_Subset
  <2>2. PICK s \in Bad : \A r \in Bad : r \subseteq s => r = s
    <3> HIDE DEF Bad
    <3> QED BY <2>1, SmallestSet
  <2>3. PICK x \in s : g[s] # f[x] + g[s \ {x}]
    OBVIOUS
  <2>4. s \in SUBSET S /\ s # {}
    OBVIOUS
  <2> DEFINE c == CHOOSE y \in s : TRUE
  <2>5. c \in s /\ g[s] = f[c] + g[s \ {c}]
    BY <1>1, <2>4 DEF RestOfSum
  <2> HIDE DEF c
  <2>6. c # x
    BY <2>3, <2>5
  <2> DEFINE r == s \ {c}
             q == s \ {x}
  <2>7. r \in SUBSET S /\ q \in SUBSET S /\ x \in r /\ c \in q /\ r # s /\ q # s
    BY <2>3, <2>4, <2>5, <2>6
  <2>8. r \notin Bad /\ q \notin Bad
    <3> HIDE DEF Bad
    <3> QED BY <2>2, <2>7
  <2>9. g[r] = f[x] + g[r \ {x}] /\ g[q] = f[c] + g[q \ {c}]
    <3> HIDE DEF r, q
    <3> QED BY <2>7, <2>8
  <2>10. g[r \ {x}] = g[q \ {c}]
    <3>1. r \ {x} = q \ {c}
      OBVIOUS
    <3> QED BY <3>1
  <2>11. /\ g[r] \in Int /\ g[q] \in Int /\ g[r \ {x}] \in Int
         /\ f[x] \in Int /\ f[c] \in Int
    <3>1. r \ {x} \in SUBSET S
      BY <2>7
    <3> HIDE DEF r, q
    <3> QED BY <1>1, <2>3, <2>4, <2>5, <2>7, <3>1
  <2>12. g[s] = f[c] + g[r] /\ g[s] # f[x] + g[q]
    BY <2>3, <2>5
  <2> HIDE DEF r, q
  <2> QED BY <2>9, <2>10, <2>11, <2>12
<1> QED BY <1>2, <1>3 DEF Sums

\* Functions that agree on a set have the same sum over it.
LEMMA SameSums ==
    ASSUME NEW S, IsFiniteSet(S),
           NEW f, NEW g, Sums(g, f, S), NEW e, NEW h, Sums(h, e, S),
           \A x \in S : f[x] = e[x]
    PROVE  g[S] = h[S]
<1> DEFINE Bad == {s \in SUBSET S : g[s] # h[s]}
<1> SUFFICES ASSUME Bad # {} PROVE FALSE
  OBVIOUS
<1>1. \A s \in Bad : IsFiniteSet(s)
  BY FS_Subset
<1>2. PICK s \in Bad : \A r \in Bad : r \subseteq s => r = s
  <2> HIDE DEF Bad
  <2> QED BY <1>1, SmallestSet
<1>3. s \in SUBSET S /\ g[s] # h[s]
  OBVIOUS
<1>4. s # {}
  BY <1>3 DEF Sums
<1>5. PICK x \in s : TRUE
  BY <1>4
<1>6. g[s] = f[x] + g[s \ {x}] /\ h[s] = e[x] + h[s \ {x}]
  BY <1>3, <1>5 DEF Sums
<1>7. s \ {x} \notin Bad
  <2> HIDE DEF Bad
  <2> QED BY <1>2, <1>5
<1>8. g[s \ {x}] = h[s \ {x}]
  BY <1>3, <1>7
<1> QED BY <1>3, <1>5, <1>6, <1>8

\* The sum over no elements is 0.
LEMMA SumOfNothing ==
    ASSUME NEW f
    PROVE  SumFunctionOnSet(f, {}) = 0
<1>1. IsFiniteSet({})
  BY FS_EmptySet
<1>2. PICK g : IsSum(g, f, {}) /\ SumFunctionOnSet(f, {}) = g[{}]
  BY <1>1, FoldIsSum
<1>3. g[{}] = RestOfSum(g, f, {})
  BY <1>2 DEF IsSum
<1> QED BY <1>2, <1>3 DEF RestOfSum

\* The sum of integers over a finite set is an integer.
LEMMA SumType ==
    ASSUME NEW S, IsFiniteSet(S), NEW f, \A x \in S : f[x] \in Int
    PROVE  SumFunctionOnSet(f, S) \in Int
<1>1. PICK g : IsSum(g, f, S) /\ SumFunctionOnSet(f, S) = g[S]
  BY FoldIsSum
<1>2. \A s \in SUBSET S : g[s] \in Int
  BY <1>1, SumIsInt
<1> QED BY <1>1, <1>2

\* An element can be taken out of a sum.
LEMMA SumWithout ==
    ASSUME NEW S, IsFiniteSet(S), NEW f, \A y \in S : f[y] \in Int, NEW x \in S
    PROVE  SumFunctionOnSet(f, S) = f[x] + SumFunctionOnSet(f, S \ {x})
<1> DEFINE R == S \ {x}
<1>1. IsFiniteSet(R) /\ \A y \in R : f[y] \in Int
  BY FS_RemoveElement
<1>2. PICK g : IsSum(g, f, S) /\ SumFunctionOnSet(f, S) = g[S]
  BY FoldIsSum
<1>3. Sums(g, f, S)
  BY <1>2, AnyOrder
<1>4. PICK h : IsSum(h, f, R) /\ SumFunctionOnSet(f, R) = h[R]
  <2> HIDE DEF R
  <2> QED BY <1>1, FoldIsSum
<1>5. Sums(h, f, R)
  <2> HIDE DEF R
  <2> QED BY <1>1, <1>4, AnyOrder
<1>6. Sums(g, f, R)
  BY <1>3 DEF Sums
<1>7. g[R] = h[R]
  <2> HIDE DEF R
  <2> QED BY <1>1, <1>5, <1>6, SameSums
<1>8. g[S] = f[x] + g[R]
  BY <1>3 DEF Sums
<1> QED BY <1>2, <1>4, <1>7, <1>8

\* An element can be added to a sum.
LEMMA SumWith ==
    ASSUME NEW S, IsFiniteSet(S), NEW f, \A y \in S : f[y] \in Int,
           NEW x, x \notin S, f[x] \in Int
    PROVE  SumFunctionOnSet(f, S \cup {x}) = SumFunctionOnSet(f, S) + f[x]
<1> DEFINE T == S \cup {x}
<1>1. IsFiniteSet(T) /\ x \in T /\ \A y \in T : f[y] \in Int
  BY FS_AddElement
<1>2. SumFunctionOnSet(f, T \ {x}) = SumFunctionOnSet(f, S)
  <2>1. T \ {x} = S
    OBVIOUS
  <2> QED BY <2>1
<1>3. SumFunctionOnSet(f, T) = f[x] + SumFunctionOnSet(f, T \ {x})
  <2> HIDE DEF T
  <2> QED BY <1>1, SumWithout
<1>4. SumFunctionOnSet(f, S) \in Int
  BY SumType
<1> QED BY <1>2, <1>3, <1>4

\* The sum depends only on the values of the function in the set.
LEMMA SumAgrees ==
    ASSUME NEW S, IsFiniteSet(S), NEW f, NEW e,
           \A x \in S : f[x] \in Int /\ e[x] = f[x]
    PROVE  SumFunctionOnSet(e, S) = SumFunctionOnSet(f, S)
<1>1. PICK g : IsSum(g, f, S) /\ SumFunctionOnSet(f, S) = g[S]
  BY FoldIsSum
<1>2. PICK h : IsSum(h, e, S) /\ SumFunctionOnSet(e, S) = h[S]
  BY FoldIsSum
<1>3. Sums(g, f, S)
  BY <1>1, AnyOrder
<1>4. Sums(h, e, S)
  <2>1. \A x \in S : e[x] \in Int
    OBVIOUS
  <2> QED BY <1>2, <2>1, AnyOrder
<1>5. \A x \in S : f[x] = e[x]
  OBVIOUS
<1> QED BY <1>1, <1>2, <1>3, <1>4, <1>5, SameSums

\* One summand changes.
LEMMA SumChanges ==
    ASSUME NEW S, IsFiniteSet(S), NEW f, NEW e, NEW x \in S,
           \A y \in S : f[y] \in Int /\ e[y] \in Int,
           \A y \in S \ {x} : e[y] = f[y]
    PROVE  SumFunctionOnSet(e, S) = SumFunctionOnSet(f, S) + e[x] - f[x]
<1>1. IsFiniteSet(S \ {x})
  BY FS_RemoveElement
<1>2. SumFunctionOnSet(e, S) = e[x] + SumFunctionOnSet(e, S \ {x})
  BY SumWithout
<1>3. SumFunctionOnSet(f, S) = f[x] + SumFunctionOnSet(f, S \ {x})
  BY SumWithout
<1>4. \A y \in S \ {x} : f[y] \in Int /\ e[y] = f[y]
  OBVIOUS
<1>5. SumFunctionOnSet(e, S \ {x}) = SumFunctionOnSet(f, S \ {x})
  BY <1>1, <1>4, SumAgrees
<1>6. SumFunctionOnSet(f, S \ {x}) \in Int
  BY <1>1, <1>4, SumType
<1> QED BY <1>2, <1>3, <1>5, <1>6

\* A sum of zeros.
LEMMA SumOfZeros ==
    ASSUME NEW S, IsFiniteSet(S), NEW f, \A x \in S : f[x] = 0
    PROVE  SumFunctionOnSet(f, S) = 0
<1> DEFINE Bad == {T \in SUBSET S : SumFunctionOnSet(f, T) # 0}
<1> SUFFICES ASSUME Bad # {} PROVE FALSE
  OBVIOUS
<1>1. \A T \in Bad : IsFiniteSet(T)
  BY FS_Subset
<1>2. PICK T \in Bad : \A V \in Bad : V \subseteq T => V = T
  <2> HIDE DEF Bad
  <2> QED BY <1>1, SmallestSet
<1>3. PICK x \in T : TRUE
  BY <1>2, SumOfNothing
<1>4. SumFunctionOnSet(f, T) = f[x] + SumFunctionOnSet(f, T \ {x})
  <2>1. IsFiniteSet(T) /\ \A y \in T : f[y] \in Int
    BY <1>1
  <2> QED BY <2>1, SumWithout
<1>5. SumFunctionOnSet(f, T \ {x}) = 0
  BY <1>2
<1> QED BY <1>4, <1>5

\* A sum of what is nowhere greater is not greater.
LEMMA SumAtMost ==
    ASSUME NEW S, IsFiniteSet(S), NEW f, NEW e,
           \A x \in S : f[x] \in Int /\ e[x] \in Int /\ f[x] <= e[x]
    PROVE  SumFunctionOnSet(f, S) <= SumFunctionOnSet(e, S)
<1> DEFINE Bad == {T \in SUBSET S : ~ (SumFunctionOnSet(f, T) <= SumFunctionOnSet(e, T))}
<1> SUFFICES ASSUME Bad # {} PROVE FALSE
  OBVIOUS
<1>1. \A T \in Bad : IsFiniteSet(T)
  BY FS_Subset
<1>2. PICK T \in Bad : \A V \in Bad : V \subseteq T => V = T
  <2> HIDE DEF Bad
  <2> QED BY <1>1, SmallestSet
<1>3. PICK x \in T : TRUE
  BY <1>2, SumOfNothing
<1>4. /\ IsFiniteSet(T) /\ IsFiniteSet(T \ {x})
      /\ (\A y \in T : f[y] \in Int) /\ (\A y \in T : e[y] \in Int)
  BY <1>1, FS_RemoveElement
<1>5. SumFunctionOnSet(f, T) = f[x] + SumFunctionOnSet(f, T \ {x})
  BY <1>4, SumWithout
<1>6. SumFunctionOnSet(e, T) = e[x] + SumFunctionOnSet(e, T \ {x})
  BY <1>4, SumWithout
<1>7. SumFunctionOnSet(f, T \ {x}) \in Int /\ SumFunctionOnSet(e, T \ {x}) \in Int
  BY <1>4, SumType
<1>8. SumFunctionOnSet(f, T \ {x}) <= SumFunctionOnSet(e, T \ {x})
  BY <1>2
<1>9. f[x] \in Int /\ e[x] \in Int /\ f[x] <= e[x]
  OBVIOUS
<1> QED BY <1>5, <1>6, <1>7, <1>8, <1>9

=============================================================================
