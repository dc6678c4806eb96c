---------------------------- MODULE CommonLemmas ----------------------------
(***************************************************************************)
(* The lemmas that several components' proofs rest on.                     *)
(*                                                                         *)
(* First, what the proofs use where an informal argument would say "by     *)
(* induction": the least and the greatest element of a set of naturals,    *)
(* and sums over finite sets.                                              *)
(*                                                                         *)
(* Then the slot list.  The two things an action does to it preserve its   *)
(* shape: replacing a slot by one with the same key and pointers, and      *)
(* splicing a new key in between two slots that point at each other.  And  *)
(* the list has no holes: every key that is not in it lies between two     *)
(* slots that point at each other, so that a registration can always name  *)
(* its pair.                                                               *)
(***************************************************************************)
EXTENDS SlotList, WellFoundedInduction, FiniteSetTheorems, TLAPS

\* A nonempty set of naturals has a least element (the library's minimal
\* element of a well-founded relation, read for <).
LEMMA LeastNat ==
    ASSUME NEW T, T \subseteq Nat, T # {}
    PROVE  \E m \in T : \A n \in T : m <= n
<1> DEFINE R == OpToRel(<, Nat)
<1>1. IsWellFoundedOn(R, Nat)
  BY NatLessThanWellFounded
<1>2. R = {ss \in Nat \X Nat : ss[1] < ss[2]}
  BY DEF OpToRel
<1>3. \A x, y \in Nat : x < y => <<x, y>> \in R
  <2> HIDE DEF R
  <2> QED BY <1>2
<1> HIDE DEF R
<1>4. PICK m \in T : \A n \in T : ~ (<<n, m>> \in R)
  BY <1>1, WFMin
<1>5. \A n \in T : ~ (n < m)
  BY <1>3, <1>4
<1> QED BY <1>5

\* A nonempty set of naturals up to a bound has a greatest element: the one at
\* the least distance from the bound.
LEMMA GreatestNat ==
    ASSUME NEW T, NEW b \in Nat, T \subseteq 0 .. b, T # {}
    PROVE  \E m \in T : \A n \in T : n <= m
<1> DEFINE D == {b - n : n \in T}
<1>1. D \subseteq Nat /\ D # {}
  <2>1. \A n \in T : b - n \in Nat
    OBVIOUS
  <2> QED BY <2>1
<1>2. PICK d \in D : \A e \in D : d <= e
  <2> HIDE DEF D
  <2> QED BY <1>1, LeastNat
<1>3. PICK m \in T : d = b - m
  OBVIOUS
<1>4. ASSUME NEW n \in T PROVE n <= m
  <2>1. b - m <= b - n
    BY <1>2, <1>3
  <2> QED BY <2>1
<1> QED BY <1>4

\* A set of naturals that contains 0 and every successor contains them all.
LEMMA AllNat ==
    ASSUME NEW T, 0 \in T, \A n \in Nat : n \in T => n + 1 \in T
    PROVE  Nat \subseteq T
<1> DEFINE U == {n \in Nat : n \notin T}
<1> SUFFICES ASSUME U # {} PROVE FALSE
  OBVIOUS
<1>1. PICK m \in U : \A n \in U : m <= n
  <2>1. U \subseteq Nat
    OBVIOUS
  <2> HIDE DEF U
  <2> QED BY <2>1, LeastNat
<1>2. m # 0 /\ m \in Nat
  OBVIOUS
<1>3. m - 1 \in Nat /\ m - 1 \notin U
  BY <1>1, <1>2
<1>4. m \in T
  BY <1>3, <1>2
<1> QED BY <1>4

\* f is defined by recursion on its index: G[i] makes its i-th value from the
\* one before.
Steps(G, n, S) == G \in [1 .. n -> [S -> S]]
Iterates(f, G, b, n, S) ==
    f \in [0 .. n -> S] /\ f[0] = b /\ \A i \in 1 .. n : f[i] = G[i][f[i - 1]]

\* There is such a function.
LEMMA Recursion ==
    ASSUME NEW S, NEW b, b \in S, NEW n, n \in Nat, NEW G, Steps(G, n, S)
    PROVE  \E f : Iterates(f, G, b, n, S)
<1>0. G \in [1 .. n -> [S -> S]]
  BY DEF Steps
<1> DEFINE Part(k) == \E f \in [0 .. k -> S] : f[0] = b /\ \A i \in 1 .. k : f[i] = G[i][f[i - 1]]
           T == {k \in Nat : k <= n => Part(k)}
<1>1. 0 \in T
  <2> DEFINE f == [i \in 0 .. 0 |-> b]
  <2>1. f \in [0 .. 0 -> S] /\ f[0] = b
    OBVIOUS
  <2>2. 1 .. 0 = {}
    OBVIOUS
  <2> HIDE DEF f
  <2>3. Part(0)
    BY <2>1, <2>2
  <2> QED BY <2>3
<1>2. ASSUME NEW k \in Nat, k \in T PROVE k + 1 \in T
  <2> SUFFICES ASSUME k + 1 <= n PROVE Part(k + 1)
    OBVIOUS
  <2>1. PICK f \in [0 .. k -> S] : f[0] = b /\ \A i \in 1 .. k : f[i] = G[i][f[i - 1]]
    BY <1>2
  <2> DEFINE g == [i \in 0 .. k + 1 |-> IF i = k + 1 THEN G[i][f[i - 1]] ELSE f[i]]
  <2>2. k + 1 \in 1 .. n /\ f[k] \in S
    OBVIOUS
  <2>3. G[k + 1][f[k]] \in S
    BY <1>0, <2>2
  <2>4. \A i \in 0 .. k : g[i] = f[i] /\ i \in 0 .. k + 1
    OBVIOUS
  <2>5. g[k + 1] = G[k + 1][f[k]]
    OBVIOUS
  <2>6. g \in [0 .. k + 1 -> S]
    BY <2>3
  <2>7. g[0] = b
    BY <2>1, <2>4
  <2>8. ASSUME NEW i \in 1 .. k + 1 PROVE g[i] = G[i][g[i - 1]]
    <3>1. i - 1 \in 0 .. k
      OBVIOUS
    <3>2. CASE i = k + 1
      BY <2>4, <2>5, <3>1, <3>2
    <3>3. CASE i # k + 1
      <4>1. i \in 1 .. k
        BY <3>3
      <4> HIDE DEF g
      <4> QED BY <2>1, <2>4, <3>1, <4>1
    <3> QED BY <3>2, <3>3
  <2> HIDE DEF g
  <2> QED BY <2>6, <2>7, <2>8
<1>3. n \in T
  <2> HIDE DEF T
  <2> QED BY <1>1, <1>2, AllNat
<1> QED BY <1>3 DEF Iterates

-----------------------------------------------------------------------------
\* Sums over finite sets, by the recursion of the fold they are written with.

Pick(s) == CHOOSE x \in s : TRUE

\* g is the table of the sums of f over the subsets of S.
IsSum(g, f, S) ==
    g = [s \in SUBSET S |-> IF s = {} THEN 0 ELSE f[Pick(s)] + g[s \ {Pick(s)}]]

Sum(f, S) == (CHOOSE g : IsSum(g, f, S))[S]

\* The element picked is one of the set.
LEMMA PickIn ==
    ASSUME NEW s, s # {}
    PROVE  Pick(s) \in s
BY DEF Pick

\* Removing an element of a finite set.
LEMMA SmallerSet ==
    ASSUME NEW S, IsFiniteSet(S), NEW s \in SUBSET S, NEW x \in s
    PROVE  /\ s \ {x} \in SUBSET S /\ IsFiniteSet(s) /\ IsFiniteSet(s \ {x})
           /\ Cardinality(s) \in Nat \ {0} /\ Cardinality(s \ {x}) = Cardinality(s) - 1
<1>1. IsFiniteSet(s)
  BY FS_Subset
<1>2. IsFiniteSet(s \ {x}) /\ Cardinality(s \ {x}) = Cardinality(s) - 1
  BY <1>1, FS_RemoveElement
<1>3. Cardinality(s) \in Nat /\ Cardinality(s \ {x}) \in Nat
  BY <1>1, <1>2, FS_CardinalityType
<1> QED BY <1>1, <1>2, <1>3

\* The table exists: it is built up from the small subsets to the large ones.
LEMMA SumTable ==
    ASSUME NEW S, IsFiniteSet(S), NEW f
    PROVE  \E g : IsSum(g, f, S)
<1> DEFINE Up(n) == {s \in SUBSET S : Cardinality(s) <= n}
           Next1(g, s) == IF s = {} THEN 0 ELSE f[Pick(s)] + g[s \ {Pick(s)}]
           Part(n) == \E g : g = [s \in Up(n) |-> Next1(g, s)]
           T == {n \in Nat : Part(n)}
<1>0. \A s \in SUBSET S : IsFiniteSet(s) /\ Cardinality(s) \in Nat /\ (Cardinality(s) = 0 <=> s = {})
  BY FS_Subset, FS_CardinalityType, FS_EmptySet
<1>1. Part(0)
  <2> DEFINE g == [s \in Up(0) |-> 0]
  <2>1. \A s \in Up(0) : s = {}
    BY <1>0
  <2>2. g = [s \in Up(0) |-> Next1(g, s)]
    BY <2>1
  <2> QED BY <2>2
<1>2. ASSUME NEW n \in Nat, Part(n) PROVE Part(n + 1)
  <2>1. PICK g : g = [s \in Up(n) |-> Next1(g, s)]
    BY <1>2
  <2> DEFINE h == [s \in Up(n + 1) |-> Next1(g, s)]
  <2>2. ASSUME NEW s \in Up(n + 1) PROVE Next1(g, s) = Next1(h, s)
    <3>1. CASE s = {}
      BY <3>1
    <3>2. CASE s # {}
      <4> DEFINE r == s \ {Pick(s)}
      <4>1. r \in SUBSET S /\ Cardinality(r) = Cardinality(s) - 1 /\ Cardinality(s) \in Nat
        BY <3>2, PickIn, SmallerSet
      <4>2. r \in Up(n) /\ r \in Up(n + 1)
        BY <4>1, <1>0
      <4>3. h[r] = Next1(g, r)
        BY <4>2
      <4>4. g[r] = Next1(g, r)
        <5> HIDE DEF r, Next1, Up
        <5> QED BY <2>1, <4>2
      <4>5. g[r] = h[r]
        BY <4>3, <4>4
      <4> QED BY <3>2, <4>5
    <3> QED BY <3>1, <3>2
  <2>3. h = [s \in Up(n + 1) |-> Next1(h, s)]
    <3> HIDE DEF Next1, Up
    <3> QED BY <2>2
  <2> QED
    <3> HIDE DEF h, Next1, Up
    <3> QED BY <2>3
<1>3. Nat \subseteq T
  <2>1. 0 \in T /\ \A n \in Nat : n \in T => n + 1 \in T
    <3> HIDE DEF Part
    <3> QED BY <1>1, <1>2
  <2> HIDE DEF T
  <2> QED BY <2>1, AllNat
<1>4. Cardinality(S) \in Nat
  BY FS_CardinalityType
<1>5. Up(Cardinality(S)) = SUBSET S
  BY FS_Subset
<1>6. Part(Cardinality(S))
  <2> HIDE DEF Part
  <2> QED BY <1>3, <1>4
<1> QED BY <1>5, <1>6 DEF IsSum

\* The table does not depend on the order in which elements are picked: taking
\* any element of a set away takes its value away.
LEMMA TableRemove ==
    ASSUME NEW S, IsFiniteSet(S), NEW f, NEW g, IsSum(g, f, S), \A x \in S : f[x] \in Int
    PROVE  \A s \in SUBSET S : g[s] \in Int /\ \A x \in s : g[s] = f[x] + g[s \ {x}]
<1> DEFINE Good(s) == g[s] \in Int /\ \A x \in s : g[s] = f[x] + g[s \ {x}]
           T == {n \in Nat : \A s \in SUBSET S : Cardinality(s) <= n => Good(s)}
<1>0. \A s \in SUBSET S : IsFiniteSet(s) /\ Cardinality(s) \in Nat /\ (Cardinality(s) = 0 <=> s = {})
  BY FS_Subset, FS_CardinalityType, FS_EmptySet
<1>1. g[{}] = 0
  BY DEF IsSum
<1>2. \A s \in SUBSET S : s # {} => g[s] = f[Pick(s)] + g[s \ {Pick(s)}]
  BY DEF IsSum
<1>3. 0 \in T
  BY <1>0, <1>1
<1>4. ASSUME NEW n \in Nat, n \in T PROVE n + 1 \in T
  <2> SUFFICES ASSUME NEW s \in SUBSET S, Cardinality(s) <= n + 1, s # {}
               PROVE  Good(s)
    <3>1. Good({})
      BY <1>1
    <3> HIDE DEF Good
    <3> QED BY <3>1
  <2> DEFINE c == Pick(s)
  <2>1. c \in s
    BY PickIn
  <2>2. \A x \in s : s \ {x} \in SUBSET S /\ Good(s \ {x})
    <3> TAKE x \in s
    <3>1. s \ {x} \in SUBSET S /\ Cardinality(s \ {x}) = Cardinality(s) - 1 /\ Cardinality(s) \in Nat
      BY SmallerSet
    <3> HIDE DEF Good
    <3> QED BY <3>1, <1>4
  <2>3. g[s] = f[c] + g[s \ {c}]
    BY <1>2
  <2>4. g[s] \in Int
    <3>1. f[c] \in Int /\ g[s \ {c}] \in Int
      BY <2>1, <2>2
    <3> HIDE DEF c
    <3> QED BY <2>3, <3>1
  <2>5. ASSUME NEW x \in s PROVE g[s] = f[x] + g[s \ {x}]
    <3>1. CASE x = c
      BY <2>3, <3>1
    <3>2. CASE x # c
      <4> DEFINE r == (s \ {c}) \ {x}
      <4>1. r = (s \ {x}) \ {c}
        OBVIOUS
      <4>2. g[s \ {c}] = f[x] + g[r]
        BY <2>1, <2>2, <3>2
      <4>3. g[s \ {x}] = f[c] + g[r]
        BY <2>1, <2>2, <3>2, <4>1
      <4>4. f[x] \in Int /\ f[c] \in Int /\ g[r] \in Int
        <5>1. r \in SUBSET S /\ Cardinality(r) <= n
          <6>1. Cardinality(s \ {c}) = Cardinality(s) - 1 /\ IsFiniteSet(s \ {c}) /\ s \ {c} \in SUBSET S
            BY <2>1, SmallerSet
          <6>2. r \in SUBSET S /\ Cardinality(r) = Cardinality(s) - 2
            BY <6>1, <3>2, <1>0, SmallerSet
          <6> QED BY <6>2, <1>0
        <5>2. Good(r)
          <6> HIDE DEF Good, r
          <6> QED BY <5>1, <1>4
        <5> QED BY <2>1, <5>2
      <4> HIDE DEF r, c
      <4> QED BY <2>3, <4>2, <4>3, <4>4
    <3> QED BY <3>1, <3>2
  <2> QED BY <2>4, <2>5
<1>5. Nat \subseteq T
  <2> HIDE DEF T
  <2> QED BY <1>3, <1>4, AllNat
<1> QED
  <2> TAKE s \in SUBSET S
  <2> HIDE DEF Good
  <2>1. Good(s)
    BY <1>0, <1>5
  <2> QED BY <2>1 DEF Good

\* Two tables agree on the sets on which what they sum agrees.
LEMMA TablesAgree ==
    ASSUME NEW S, IsFiniteSet(S), NEW f, NEW g, IsSum(g, f, S), \A x \in S : f[x] \in Int,
           NEW R, IsFiniteSet(R), NEW e, NEW h, IsSum(h, e, R), \A x \in R : e[x] \in Int,
           NEW Q, Q \subseteq S, Q \subseteq R, \A x \in Q : f[x] = e[x]
    PROVE  g[Q] = h[Q]
<1> DEFINE T == {n \in Nat : \A s \in SUBSET Q : Cardinality(s) <= n => g[s] = h[s]}
<1>0. \A s \in SUBSET Q : IsFiniteSet(s) /\ Cardinality(s) \in Nat /\ (Cardinality(s) = 0 <=> s = {})
  BY FS_Subset, FS_CardinalityType, FS_EmptySet
<1>1. g[{}] = 0 /\ h[{}] = 0
  BY DEF IsSum
<1>2. \A s \in SUBSET Q : \A x \in s : g[s] = f[x] + g[s \ {x}] /\ h[s] = e[x] + h[s \ {x}]
  <2>1. \A s \in SUBSET S : g[s] \in Int /\ \A x \in s : g[s] = f[x] + g[s \ {x}]
    BY TableRemove
  <2>2. \A s \in SUBSET R : h[s] \in Int /\ \A x \in s : h[s] = e[x] + h[s \ {x}]
    <3>1. IsFiniteSet(R) /\ IsSum(h, e, R) /\ \A x \in R : e[x] \in Int
      OBVIOUS
    <3> QED BY ONLY <3>1, TableRemove, SMT
  <2> QED BY <2>1, <2>2
<1>3. 0 \in T
  BY <1>0, <1>1
<1>4. ASSUME NEW n \in Nat, n \in T PROVE n + 1 \in T
  <2> SUFFICES ASSUME NEW s \in SUBSET Q, Cardinality(s) <= n + 1, s # {}
               PROVE  g[s] = h[s]
    <3>1. \A s \in SUBSET Q : s = {} => g[s] = h[s]
      BY <1>1
    <3> QED BY <3>1
  <2>1. PICK x : x \in s
    OBVIOUS
  <2>2. s \ {x} \in SUBSET Q /\ Cardinality(s \ {x}) = Cardinality(s) - 1 /\ Cardinality(s) \in Nat
    <3>1. IsFiniteSet(Q)
      BY FS_Subset
    <3> QED BY <2>1, <3>1, SmallerSet
  <2>3. g[s \ {x}] = h[s \ {x}]
    BY <1>4, <2>2
  <2> QED BY <1>2, <2>1, <2>3
<1>5. Nat \subseteq T
  <2> HIDE DEF T
  <2> QED BY <1>3, <1>4, AllNat
<1> QED BY <1>0, <1>5

\* Any table of the sums of f gives Sum(f, S).
LEMMA SumIs ==
    ASSUME NEW S, IsFiniteSet(S), NEW f, \A x \in S : f[x] \in Int,
           NEW e, NEW g, IsSum(g, e, S), \A x \in S : f[x] = e[x]
    PROVE  g[S] = Sum(f, S)
<1> DEFINE h == CHOOSE k : IsSum(k, f, S)
<1>1. IsSum(h, f, S)
  BY SumTable
<1> HIDE DEF h
<1>2. g[S] = h[S]
  BY <1>1, TablesAgree
<1> QED BY <1>2 DEF Sum, h

\* Nothing sums to 0.
LEMMA SumEmpty ==
    ASSUME NEW f
    PROVE  Sum(f, {}) = 0
<1> DEFINE h == CHOOSE k : IsSum(k, f, {})
<1>1. IsSum(h, f, {})
  BY SumTable, FS_EmptySet
<1> HIDE DEF h
<1>2. h[{}] = 0
  BY <1>1 DEF IsSum
<1> QED BY <1>2 DEF Sum, h

\* A sum depends on the values of the elements only.
LEMMA SumSame ==
    ASSUME NEW S, IsFiniteSet(S), NEW f, NEW e, \A x \in S : f[x] \in Int /\ f[x] = e[x]
    PROVE  Sum(f, S) = Sum(e, S)
<1> DEFINE h == CHOOSE k : IsSum(k, e, S)
<1>1. IsSum(h, e, S)
  BY SumTable
<1> HIDE DEF h
<1>2. h[S] = Sum(f, S)
  BY <1>1, SumIs
<1> QED BY <1>2 DEF Sum, h

\* The value of an element is its share of the sum.
LEMMA SumRemove ==
    ASSUME NEW S, IsFiniteSet(S), NEW f, \A x \in S : f[x] \in Int, NEW x \in S
    PROVE  Sum(f, S) = f[x] + Sum(f, S \ {x})
<1> DEFINE h == CHOOSE k : IsSum(k, f, S)
           e == CHOOSE k : IsSum(k, f, S \ {x})
<1>0. IsFiniteSet(S \ {x})
  BY FS_RemoveElement
<1>1. IsSum(h, f, S) /\ IsSum(e, f, S \ {x})
  BY <1>0, SumTable
<1>2. Sum(f, S) = h[S] /\ Sum(f, S \ {x}) = e[S \ {x}]
  BY DEF Sum
<1> HIDE DEF h, e
<1>3. h[S] = f[x] + h[S \ {x}]
  BY <1>1, TableRemove
<1>4. h[S \ {x}] = e[S \ {x}]
  BY <1>0, <1>1, TablesAgree
<1> QED BY <1>2, <1>3, <1>4

\* A sum of integers is an integer.
LEMMA SumInt ==
    ASSUME NEW S, IsFiniteSet(S), NEW f, \A x \in S : f[x] \in Int
    PROVE  Sum(f, S) \in Int
<1> DEFINE h == CHOOSE k : IsSum(k, f, S)
<1>1. IsSum(h, f, S)
  BY SumTable
<1>2. Sum(f, S) = h[S]
  BY DEF Sum
<1> HIDE DEF h
<1>3. h[S] \in Int
  BY <1>1, TableRemove
<1> QED BY <1>2, <1>3

\* A new element adds its value.
LEMMA SumAdd ==
    ASSUME NEW S, IsFiniteSet(S), NEW x, x \notin S, NEW f, \A y \in S \cup {x} : f[y] \in Int
    PROVE  Sum(f, S \cup {x}) = Sum(f, S) + f[x]
<1>1. IsFiniteSet(S \cup {x}) /\ (S \cup {x}) \ {x} = S
  BY FS_AddElement
<1>2. Sum(f, S \cup {x}) = f[x] + Sum(f, S)
  BY <1>1, SumRemove
<1> QED BY <1>2, SumInt

\* The sum over a set is the sum over a part and the sum over the rest.
LEMMA SumSplit ==
    ASSUME NEW S, IsFiniteSet(S), NEW f, \A x \in S : f[x] \in Int, NEW U, U \subseteq S
    PROVE  Sum(f, S) = Sum(f, U) + Sum(f, S \ U)
<1> DEFINE T == {n \in Nat : \A s \in SUBSET S :
                   Cardinality(s) <= n => Sum(f, S) = Sum(f, s) + Sum(f, S \ s)}
<1>0. \A s \in SUBSET S : /\ IsFiniteSet(s) /\ Cardinality(s) \in Nat /\ (Cardinality(s) = 0 <=> s = {})
                          /\ Sum(f, s) \in Int /\ Sum(f, S \ s) \in Int
  BY FS_Subset, FS_CardinalityType, FS_EmptySet, SumInt
<1>1. 0 \in T
  <2>1. Sum(f, S) = Sum(f, {}) + Sum(f, S \ {})
    <3>1. S \ {} = S
      OBVIOUS
    <3> QED BY <3>1, SumEmpty, SumInt
  <2>2. \A s \in SUBSET S : Cardinality(s) <= 0 => s = {}
    <3>1. \A n \in Nat : n <= 0 => n = 0
      OBVIOUS
    <3> QED BY <1>0, <3>1
  <2> QED BY <2>1, <2>2
<1>2. ASSUME NEW n \in Nat, n \in T PROVE n + 1 \in T
  <2> SUFFICES ASSUME NEW s \in SUBSET S, Cardinality(s) <= n + 1, s # {}
               PROVE  Sum(f, S) = Sum(f, s) + Sum(f, S \ s)
    <3>1. 0 <= n /\ Cardinality({}) = 0
      BY FS_EmptySet
    <3> QED BY <1>2, <3>1
  <2>1. PICK x : x \in s
    OBVIOUS
  <2> DEFINE r == s \ {x}
  <2>2. r \in SUBSET S /\ Cardinality(r) = Cardinality(s) - 1 /\ Cardinality(s) \in Nat
    BY <2>1, SmallerSet
  <2>3. Sum(f, S) = Sum(f, r) + Sum(f, S \ r)
    BY <1>2, <2>2
  <2>4. Sum(f, s) = f[x] + Sum(f, r)
    BY <1>0, <2>1, SumRemove
  <2>5. Sum(f, S \ r) = f[x] + Sum(f, S \ s)
    <3>1. x \in S \ r /\ (S \ r) \ {x} = S \ s /\ IsFiniteSet(S \ r) /\ S \ r \subseteq S
      BY <2>1, <1>0
    <3>2. Sum(f, S \ r) = f[x] + Sum(f, (S \ r) \ {x})
      BY <3>1, SumRemove
    <3> QED BY <3>1, <3>2
  <2>6. f[x] \in Int /\ Sum(f, r) \in Int /\ Sum(f, S \ s) \in Int
    BY <1>0, <2>1, <2>2
  <2> QED BY <2>3, <2>4, <2>5, <2>6
<1>3. Nat \subseteq T
  <2> HIDE DEF T
  <2> QED BY <1>1, <1>2, AllNat
<1>4. U \in SUBSET S /\ Cardinality(U) \in T
  BY <1>0, <1>3
<1> QED BY <1>0, <1>4

\* A sum of naturals is at least each of its terms.
LEMMA SumBounds ==
    ASSUME NEW S, IsFiniteSet(S), NEW f, \A x \in S : f[x] \in Nat
    PROVE  Sum(f, S) \in Nat /\ \A x \in S : f[x] <= Sum(f, S)
<1> DEFINE T == {n \in Nat : \A s \in SUBSET S : Cardinality(s) <= n => Sum(f, s) \in Nat}
<1>0. \A s \in SUBSET S : IsFiniteSet(s) /\ Cardinality(s) \in Nat /\ (Cardinality(s) = 0 <=> s = {})
  BY FS_Subset, FS_CardinalityType, FS_EmptySet
<1>1. 0 \in T
  BY <1>0, SumEmpty
<1>2. ASSUME NEW n \in Nat, n \in T PROVE n + 1 \in T
  <2> SUFFICES ASSUME NEW s \in SUBSET S, Cardinality(s) <= n + 1, s # {}
               PROVE  Sum(f, s) \in Nat
    BY SumEmpty
  <2>1. PICK x : x \in s
    OBVIOUS
  <2>2. s \ {x} \in SUBSET S /\ Cardinality(s \ {x}) = Cardinality(s) - 1 /\ Cardinality(s) \in Nat
    BY <2>1, SmallerSet
  <2>3. Sum(f, s \ {x}) \in Nat
    BY <1>2, <2>2
  <2>4. Sum(f, s) = f[x] + Sum(f, s \ {x})
    BY <1>0, <2>1, SumRemove
  <2> QED BY <2>1, <2>3, <2>4
<1>3. Nat \subseteq T
  <2> HIDE DEF T
  <2> QED BY <1>1, <1>2, AllNat
<1>4. \A s \in SUBSET S : Sum(f, s) \in Nat
  BY <1>0, <1>3
<1>5. ASSUME NEW x \in S PROVE f[x] <= Sum(f, S)
  <2>1. Sum(f, S) = f[x] + Sum(f, S \ {x})
    BY SumRemove
  <2>2. Sum(f, S \ {x}) \in Nat
    BY <1>4
  <2> QED BY <2>1, <2>2
<1> QED BY <1>4, <1>5

-----------------------------------------------------------------------------
\* The slot list.

\* Keys and pointers are integers.
Numbered(S) ==
    \A s \in S : s.key \in Int /\ s.left \in Int /\ s.right \in Int

\* A slot re-created with its key and its pointers (oracle, extend, expire,
\* both update actions, refund) leaves the list as it was.
LEMMA ReplaceKeepsList ==
    ASSUME NEW S, NEW lo, NEW hi, NEW s \in S, NEW t,
           ListInv(S, lo, hi),
           t.key = s.key, t.left = s.left, t.right = s.right
    PROVE  /\ ListInv((S \ {s}) \cup {t}, lo, hi)
           /\ Keys((S \ {s}) \cup {t}) = Keys(S)
<1> DEFINE new == (S \ {s}) \cup {t}
<1>1. \A x \in new : \E y \in S :
          x.key = y.key /\ x.left = y.left /\ x.right = y.right /\ (x = y \/ (x = t /\ y = s))
  OBVIOUS
<1>2. \A y \in S : \E x \in new :
          x.key = y.key /\ x.left = y.left /\ x.right = y.right
  OBVIOUS
<1>3. OneSlotPerKey(new)
  BY DEF ListInv, OneSlotPerKey
<1>4. NothingInGaps(new)
  BY <1>1 DEF ListInv, NothingInGaps
<1>5. Mirrored(new, lo, hi)
  <2>1. \A x \in new : x.key # hi => \E z \in new : z.key = x.right /\ z.left = x.key
    BY <1>1, <1>2 DEF ListInv, Mirrored
  <2>2. \A x \in new : x.key # lo => \E z \in new : z.key = x.left /\ z.right = x.key
    BY <1>1, <1>2 DEF ListInv, Mirrored
  <2> QED BY <2>1, <2>2 DEF Mirrored
<1>8. Ascending(new, lo, hi)
  BY <1>1 DEF ListInv, Ascending
<1>6. Keys(new) = Keys(S)
  BY <1>1, <1>2 DEF Keys
<1>7. Bounded(new, lo, hi)
  BY <1>1, <1>6 DEF ListInv, Bounded
<1> QED BY <1>3, <1>4, <1>5, <1>6, <1>7, <1>8 DEF ListInv

\* The situation of a registration: n is to be spliced between l and r,
\* which are replaced by l2 and r2.
SpliceCase(S, lo, hi, l, r, n, l2, r2) ==
    /\ lo \in Int /\ hi \in Int /\ l \in S /\ r \in S
    /\ Numbered(S) /\ ListInv(S, lo, hi)
    /\ n.key \in Int /\ Brackets(l, r, n.key)
    /\ n.left = l.key /\ n.right = r.key
    /\ l2.key = l.key /\ l2.left = l.left /\ l2.right = n.key
    /\ r2.key = r.key /\ r2.left = n.key /\ r2.right = r.right

\* Splicing a key between two slots that point at each other keeps the list
\* sorted, linked both ways and free of duplicates, and adds exactly that
\* key, which was not in the list: adjacency alone proves that a handle or an
\* asset is free.
LEMMA SpliceKeepsList ==
    ASSUME NEW S, NEW lo, NEW hi, NEW l, NEW r, NEW n, NEW l2, NEW r2,
           SpliceCase(S, lo, hi, l, r, n, l2, r2)
    PROVE  /\ n.key \notin Keys(S)
           /\ ListInv((S \ {l, r}) \cup {n, l2, r2}, lo, hi)
           /\ Keys((S \ {l, r}) \cup {n, l2, r2}) = Keys(S) \cup {n.key}
<1> DEFINE new == (S \ {l, r}) \cup {n, l2, r2}
<1> USE DEF Numbered, Brackets, SpliceCase
<1>1. \A s \in S : s.key # n.key
  <2> SUFFICES ASSUME NEW s \in S, s.key = n.key PROVE FALSE
    OBVIOUS
  <2>1. l.key < s.key /\ l.right > s.key
    OBVIOUS
  <2> QED BY <2>1 DEF ListInv, NothingInGaps
<1>2. n.key \notin Keys(S)
  BY <1>1 DEF Keys
<1>3. \A s \in S \ {l, r} : s.key # l.key /\ s.key # r.key
  BY DEF ListInv, OneSlotPerKey
<1>4. OneSlotPerKey(new)
  BY <1>1, <1>3 DEF ListInv, OneSlotPerKey
<1>5. \A s \in S \ {l, r} : s.key < l.key \/ r.key < s.key
  <2> SUFFICES ASSUME NEW s \in S \ {l, r} PROVE s.key < l.key \/ r.key < s.key
    OBVIOUS
  <2>1. s.key # l.key /\ s.key # r.key
    BY <1>3
  <2>2. CASE l.key < s.key
    BY <2>1, <2>2 DEF ListInv, NothingInGaps
  <2> QED BY <2>1, <2>2
<1>6. NothingInGaps(new)
  <2> SUFFICES ASSUME NEW s \in new, NEW t \in new, s.key < t.key
               PROVE  s.right <= t.key /\ s.key <= t.left
    BY DEF NothingInGaps
  <2>0. NothingInGaps(S)
    BY DEF ListInv
  <2>1. CASE s \in S \ {l, r} /\ t \in S \ {l, r}
    BY <2>0, <2>1 DEF NothingInGaps
  <2>2. CASE s \in S \ {l, r} /\ t \in {n, l2, r2}
    <3>1. s.key < l.key
      BY <1>5, <2>2
    <3>2. s.right <= l.key /\ s.key <= l.left
      BY <3>1, <2>0, <2>2 DEF NothingInGaps
    <3>3. CASE t = n BY <3>1, <3>2, <3>3
    <3>4. CASE t = l2 BY <3>1, <3>2, <3>4
    <3>5. CASE t = r2 BY <3>1, <3>2, <3>5
    <3> QED BY <2>2, <3>3, <3>4, <3>5
  <2>3. CASE s \in {n, l2, r2} /\ t \in S \ {l, r}
    <3>1. r.key < t.key
      BY <1>5, <2>3
    <3>2. r.right <= t.key /\ r.key <= t.left
      BY <3>1, <2>0, <2>3 DEF NothingInGaps
    <3>3. CASE s = n BY <3>1, <3>2, <3>3
    <3>4. CASE s = l2 BY <3>1, <3>2, <3>4
    <3>5. CASE s = r2 BY <3>1, <3>2, <3>5
    <3> QED BY <2>3, <3>3, <3>4, <3>5
  <2>4. CASE s \in {n, l2, r2} /\ t \in {n, l2, r2}
    BY <2>4
  <2> QED BY <2>1, <2>2, <2>3, <2>4
<1>7. Mirrored(new, lo, hi)
  <2>0. Mirrored(S, lo, hi) /\ OneSlotPerKey(S) /\ Bounded(S, lo, hi)
    BY DEF ListInv
  <2>1. ASSUME NEW s \in new, s.key # hi
        PROVE  \E t \in new : t.key = s.right /\ t.left = s.key
    <3>1. CASE s = n BY <3>1
    <3>2. CASE s = l2 BY <3>2
    <3>3. CASE s = r2
      <4>1. PICK t \in S : t.key = r.right /\ t.left = r.key
        BY <2>0, <2>1, <3>3 DEF Mirrored
      <4>2. t # r /\ t # l
        BY <4>1, <2>0, <2>1, <3>3 DEF ListInv, Ascending
      <4> QED BY <4>1, <4>2, <3>3
    <3>4. CASE s \in S \ {l, r}
      <4>1. PICK t \in S : t.key = s.right /\ t.left = s.key
        BY <2>0, <2>1, <3>4 DEF Mirrored
      <4>2. CASE t = l BY <4>1, <4>2
      <4>3. t # r
        BY <4>1, <3>4, <1>3
      <4> QED BY <4>1, <4>2, <4>3
    <3> QED BY <2>1, <3>1, <3>2, <3>3, <3>4
  <2>2. ASSUME NEW s \in new, s.key # lo
        PROVE  \E t \in new : t.key = s.left /\ t.right = s.key
    <3>1. CASE s = n BY <3>1
    <3>2. CASE s = r2 BY <3>2
    <3>3. CASE s = l2
      <4>1. PICK t \in S : t.key = l.left /\ t.right = l.key
        BY <2>0, <2>2, <3>3 DEF Mirrored
      <4>2. t # r /\ t # l
        BY <4>1, <2>0, <2>2, <3>3 DEF ListInv, Ascending
      <4> QED BY <4>1, <4>2, <3>3
    <3>4. CASE s \in S \ {l, r}
      <4>1. PICK t \in S : t.key = s.left /\ t.right = s.key
        BY <2>0, <2>2, <3>4 DEF Mirrored
      <4>2. CASE t = r BY <4>1, <4>2
      <4>3. t # l
        BY <4>1, <3>4, <1>3
      <4> QED BY <4>1, <4>2, <4>3
    <3> QED BY <2>2, <3>1, <3>2, <3>3, <3>4
  <2> QED BY <2>1, <2>2 DEF Mirrored
<1>8. Keys(new) = Keys(S) \cup {n.key}
  <2>1. \A x \in new : x.key = n.key \/ \E y \in S : x.key = y.key
    OBVIOUS
  <2>2. \A y \in S : \E x \in new : x.key = y.key
    OBVIOUS
  <2>3. n \in new
    OBVIOUS
  <2> QED BY <2>1, <2>2, <2>3 DEF Keys
<1>9. Bounded(new, lo, hi)
  <2>1. Bounded(S, lo, hi)
    BY DEF ListInv
  <2> QED BY <2>1, <1>8 DEF Bounded, Keys
<1>10. Ascending(new, lo, hi)
  <2>1. Ascending(S, lo, hi)
    BY DEF ListInv
  <2> QED BY <2>1 DEF Ascending
<1> QED BY <1>2, <1>4, <1>6, <1>7, <1>8, <1>9, <1>10 DEF ListInv

\* Two slots that point at each other around k keep k out of the list.
LEMMA BracketedIsFree ==
    ASSUME NEW S, NEW lo, NEW hi, NEW k \in Int, NEW l \in S, NEW r \in S,
           ListInv(S, lo, hi), Numbered(S), Brackets(l, r, k)
    PROVE  k \notin Keys(S)
<1> SUFFICES ASSUME NEW s \in S, s.key = k PROVE FALSE
  BY DEF Keys
<1>1. l.key < s.key /\ l.right > s.key
  BY DEF Brackets, Numbered
<1> QED BY <1>1 DEF ListInv, NothingInGaps, Numbered

\* Whatever is registered, a key between the ends that is not in the list lies
\* strictly between two slots that point at each other: the least key above
\* it, and the slot that key's left pointer leads to.
LEMMA GapExists ==
    ASSUME NEW S, NEW lo \in Int, NEW hi \in Int, NEW k \in Int,
           ListInv(S, lo, hi), Numbered(S), lo < k, k < hi, k \notin Keys(S)
    PROVE  \E l, r \in S : Brackets(l, r, k)
<1> DEFINE Above == {s \in S : k < s.key}
           T == {s.key - k : s \in Above}
<1> USE DEF Numbered
<1>1. \A s \in S : s.key # k
  BY DEF Keys
<1>2. PICK h \in S : h.key = hi
  BY DEF ListInv, Bounded, Keys
<1>3. T \subseteq Nat /\ T # {}
  <2>1. h \in Above
    BY <1>2
  <2>2. \A s \in Above : s.key - k \in Nat
    OBVIOUS
  <2> QED BY <2>1, <2>2
<1>4. PICK m \in T : \A n \in T : m <= n
  <2> HIDE DEF T
  <2> QED BY <1>3, LeastNat
<1>5. PICK r \in Above : r.key - k = m
  BY <1>4
<1>6. \A s \in Above : r.key <= s.key
  <2> SUFFICES ASSUME NEW s \in Above PROVE r.key <= s.key
    OBVIOUS
  <2>1. r.key - k <= s.key - k
    BY <1>4, <1>5
  <2> QED BY <2>1
<1>7. r \in S /\ k < r.key /\ r.key # lo
  BY <1>5
<1>8. PICK l \in S : l.key = r.left /\ l.right = r.key
  BY <1>7 DEF ListInv, Mirrored
<1>9. l.key < r.key
  BY <1>7, <1>8 DEF ListInv, Ascending
<1>10. ~ (k < l.key)
  BY <1>6, <1>7, <1>9
<1>11. l.key < k
  BY <1>1, <1>10
<1> QED BY <1>7, <1>8, <1>11 DEF Brackets
=============================================================================
