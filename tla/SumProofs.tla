------------------------------ MODULE SumProofs ------------------------------
(***************************************************************************)
(* Facts about sums over finite sets, for the proofs about what the pages  *)
(* add up and count: SumFunction and SumFunctionOnSet of the community     *)
(* modules are numbers of units, so that sums follow from cardinalities.   *)
(***************************************************************************)
EXTENDS Functions, FiniteSetTheorems, FunctionTheorems, TLAPS

\* A pair for each unit of each element.
Units(f, S) == UNION {{x} \X (1 .. f[x]) : x \in S}

\* A unit is an element with a number no greater than the element's.
LEMMA UnitsAre ==
    ASSUME NEW S, NEW f
    PROVE  \A u : u \in Units(f, S) <=> \E x \in S : \E i \in 1 .. f[x] : u = <<x, i>>
  BY DEF Units

\* The units of one element more.
LEMMA UnitsOfOneMore ==
    ASSUME NEW S, IsFiniteSet(S), NEW f \in [S -> Nat], NEW T \in SUBSET S, NEW x \in T
    PROVE  /\ IsFiniteSet({x} \X (1 .. f[x])) /\ Cardinality({x} \X (1 .. f[x])) = f[x]
           /\ Units(f, T) = Units(f, T \ {x}) \cup ({x} \X (1 .. f[x]))
           /\ Units(f, T \ {x}) \cap ({x} \X (1 .. f[x])) = {}
  <1>1. f[x] \in Nat
    OBVIOUS
  <1>2. IsFiniteSet(1 .. f[x]) /\ Cardinality(1 .. f[x]) = f[x]
    BY <1>1, FS_Interval
  <1>3. IsFiniteSet({x}) /\ Cardinality({x}) = 1
    BY FS_Singleton
  <1>4. /\ IsFiniteSet({x} \X (1 .. f[x]))
        /\ Cardinality({x} \X (1 .. f[x])) = Cardinality({x}) * Cardinality(1 .. f[x])
    BY <1>2, <1>3, FS_Product
  <1>5. Cardinality({x} \X (1 .. f[x])) = f[x]
    BY <1>1, <1>2, <1>3, <1>4
  <1>6. Units(f, T) = Units(f, T \ {x}) \cup ({x} \X (1 .. f[x]))
    BY DEF Units
  <1>7. Units(f, T \ {x}) \cap ({x} \X (1 .. f[x])) = {}
    BY DEF Units
  <1> QED BY <1>4, <1>5, <1>6, <1>7

\* Induction over the subsets of a finite set: a property that some of them lacks
\* is lacked by one whose own subsets have it.
LEMMA SmallestBad ==
    ASSUME NEW S, IsFiniteSet(S), NEW bad, bad \subseteq SUBSET S, bad # {}
    PROVE  \E T \in bad : \A U \in bad : ~ (U \subseteq T /\ U # T)
  <1>1. IsWellFoundedOn(StrictSubsetOrdering(S), FiniteSubsetsOf(S)) /\ bad \subseteq FiniteSubsetsOf(S)
    BY FS_StrictSubsetOrderingWellFounded, FS_FiniteSubsetsOfFinite
  <1>2. PICK T \in bad : \A U \in bad : ~ (<<U, T>> \in StrictSubsetOrdering(S))
    BY <1>1, WFMin
  <1>3. ASSUME NEW U \in bad, U \subseteq T, U # T
        PROVE  FALSE
    <2>1. PICK p : p = <<U, T>>
      OBVIOUS
    <2>2. p \in (SUBSET S) \X (SUBSET S) /\ p[1] = U /\ p[2] = T
      BY <2>1
    <2>3. p \in StrictSubsetOrdering(S)
      BY <1>3, <2>2 DEF StrictSubsetOrdering
    <2> QED BY <1>2, <2>1, <2>3
  <1> QED BY <1>3

\* Finitely many elements have finitely many units.
LEMMA UnitsFinite ==
    ASSUME NEW S, IsFiniteSet(S), NEW f \in [S -> Nat], NEW W \in SUBSET S
    PROVE  IsFiniteSet(Units(f, W))
  <1>0. PICK bad : bad = {T \in SUBSET S : ~ IsFiniteSet(Units(f, T))}
    OBVIOUS
  <1>1. SUFFICES ASSUME bad # {} PROVE FALSE
    BY <1>0
  <1>2. PICK T \in bad : \A U \in bad : ~ (U \subseteq T /\ U # T)
    <2>1. bad \subseteq SUBSET S
      BY <1>0
    <2> QED BY <1>1, <2>1, SmallestBad
  <1>4. Units(f, {}) = {}
    BY DEF Units
  <1>5. PICK x : x \in T
    BY <1>0, <1>4, FS_EmptySet
  <1>6. T \ {x} \notin bad
    BY <1>2, <1>5
  <1>7. PICK A, B : A = Units(f, T \ {x}) /\ B = {x} \X (1 .. f[x])
    OBVIOUS
  <1>8. IsFiniteSet(A) /\ IsFiniteSet(B) /\ Units(f, T) = A \cup B
    <2>1. T \in SUBSET S
      BY <1>0
    <2>2. IsFiniteSet(A)
      BY <1>0, <1>6, <1>7, <2>1
    <2>3. /\ IsFiniteSet({x} \X (1 .. f[x]))
          /\ Units(f, T) = Units(f, T \ {x}) \cup ({x} \X (1 .. f[x]))
      BY <1>5, <2>1, UnitsOfOneMore
    <2> QED BY <1>7, <2>2, <2>3
  <1>9. IsFiniteSet(A \cup B)
    BY <1>8, FS_Union
  <1> QED BY <1>0, <1>8, <1>9

\* One element more adds its units to the count.
LEMMA CountOneMore ==
    ASSUME NEW S, IsFiniteSet(S), NEW f \in [S -> Nat], NEW T \in SUBSET S, NEW x \in T
    PROVE  Cardinality(Units(f, T)) = f[x] + Cardinality(Units(f, T \ {x}))
  <1> DEFINE A == Units(f, T \ {x})
             B == {x} \X (1 .. f[x])
  <1>1. /\ IsFiniteSet(B) /\ Cardinality(B) = f[x]
        /\ Units(f, T) = A \cup B /\ A \cap B = {}
    BY UnitsOfOneMore
  <1>2. IsFiniteSet(A) /\ Cardinality(A) \in Nat
    BY UnitsFinite, FS_CardinalityType
  <1>3. Cardinality(A \cup B) = Cardinality(A) + Cardinality(B) - Cardinality(A \cap B)
    BY <1>1, <1>2, FS_Union
  <1>4. Cardinality(A \cap B) = 0
    BY <1>1, FS_EmptySet
  <1> HIDE DEF A, B
  <1>5. f[x] \in Nat
    OBVIOUS
  <1> QED BY <1>1, <1>2, <1>3, <1>4, <1>5 DEF A

\* A sum of natural numbers is the number of their units: the recursion over the
\* subsets that the library computes it by has one solution.
LEMMA SumIsUnits ==
    ASSUME NEW S, IsFiniteSet(S), NEW f \in [S -> Nat], NEW A \in SUBSET S
    PROVE  SumFunctionOnSet(f, A) = Cardinality(Units(f, A))
  <1> DEFINE Step(g) == [s \in SUBSET A |-> IF s = {} THEN 0
                          ELSE f[CHOOSE x \in s : TRUE] + g[s \ {CHOOSE x \in s : TRUE}]]
  <1> DEFINE h == [s \in SUBSET A |-> Cardinality(Units(f, s))]
  <1>0. IsFiniteSet(A)
    BY FS_Subset
  <1>1. h = Step(h)
    <2>1. ASSUME NEW s \in SUBSET A, s # {}
          PROVE  h[s] = f[CHOOSE x \in s : TRUE] + h[s \ {CHOOSE x \in s : TRUE}]
      <3>1. PICK x : x = (CHOOSE y \in s : TRUE) /\ x \in s
        BY <2>1
      <3>2. x \in s
        BY <3>1
      <3>3. Cardinality(Units(f, s)) = f[x] + Cardinality(Units(f, s \ {x}))
        <4> HIDE DEF h, Step
        <4>1. s \in SUBSET S
          OBVIOUS
        <4> QED BY <3>2, <4>1, CountOneMore
      <3>4. s \ {x} \in SUBSET A
        OBVIOUS
      <3> QED BY <3>1, <3>3, <3>4
    <2>2. h[{}] = 0
      <3>1. Units(f, {}) = {}
        BY DEF Units
      <3> QED BY <3>1, FS_EmptySet
    <2> QED BY <2>1, <2>2
  <1>2. ASSUME NEW g, g = Step(g)
        PROVE  g = h
    <2>0. PICK bad : bad = {s \in SUBSET A : g[s] # h[s]}
      OBVIOUS
    <2>1. SUFFICES ASSUME bad # {} PROVE FALSE
      BY <1>2, <2>0
    <2>2. PICK T \in bad : \A U \in bad : ~ (U \subseteq T /\ U # T)
      <3>1. bad \subseteq SUBSET A
        BY <2>0
      <3> QED BY <1>0, <2>1, <3>1, SmallestBad
    <2>3. T # {}
      <3>1. g[{}] = 0
        BY <1>2
      <3>2. h[{}] = 0
        BY <1>1
      <3> QED BY <2>0, <3>1, <3>2
    <2>4. PICK x : x = (CHOOSE y \in T : TRUE) /\ x \in T
      BY <2>3
    <2>5. T \ {x} \notin bad
      BY <2>2, <2>4
    <2>6. g[T \ {x}] = h[T \ {x}] /\ T \in SUBSET A
      BY <2>0, <2>5
    <2>7. g[T] = f[x] + g[T \ {x}]
      BY <1>2, <2>3, <2>4, <2>6
    <2>8. h[T] = f[x] + h[T \ {x}]
      BY <1>1, <2>3, <2>4, <2>6
    <2> QED BY <2>0, <2>6, <2>7, <2>8
  <1>3. SumFunctionOnSet(f, A) = (CHOOSE g : g = Step(g))[A]
    BY DEF SumFunctionOnSet, FoldFunctionOnSet, MapThenFoldSet
  <1>4. (CHOOSE g : g = Step(g)) = h
    <2> HIDE DEF h
    <2> QED BY <1>1, <1>2
  <1> QED BY <1>3, <1>4

\* The sum over a part.
LEMMA SumOfPart ==
    ASSUME NEW S, IsFiniteSet(S), NEW f \in [S -> Nat], NEW A \in SUBSET S
    PROVE  /\ SumFunctionOnSet(f, A) = Cardinality(Units(f, A))
           /\ IsFiniteSet(Units(f, A)) /\ Cardinality(Units(f, A)) \in Nat
           /\ SumFunctionOnSet(f, A) \in Nat
  <1>1. IsFiniteSet(Units(f, A))
    BY UnitsFinite
  <1>2. Cardinality(Units(f, A)) \in Nat
    BY <1>1, FS_CardinalityType
  <1> QED BY <1>1, <1>2, SumIsUnits

\* Nothing adds up to zero.
LEMMA SumOfNone ==
    ASSUME NEW S, IsFiniteSet(S), NEW f \in [S -> Nat]
    PROVE  SumFunctionOnSet(f, {}) = 0
  <1>1. Units(f, {}) = {}
    BY DEF Units
  <1> QED BY <1>1, SumOfPart, FS_EmptySet

\* A sum is one of its numbers and the sum of the others.
LEMMA SumOfOneMore ==
    ASSUME NEW S, IsFiniteSet(S), NEW f \in [S -> Nat], NEW T \in SUBSET S, NEW x \in T
    PROVE  SumFunctionOnSet(f, T) = f[x] + SumFunctionOnSet(f, T \ {x})
  <1>1. T \ {x} \in SUBSET S
    OBVIOUS
  <1> QED BY <1>1, SumOfPart, CountOneMore

\* The sum of two parts that share nothing is the sum of their sums.
LEMMA SumOfTwoParts ==
    ASSUME NEW S, IsFiniteSet(S), NEW f \in [S -> Nat], NEW A \in SUBSET S, NEW B \in SUBSET S,
           A \cap B = {}
    PROVE  SumFunctionOnSet(f, A \cup B)
              = SumFunctionOnSet(f, A) + SumFunctionOnSet(f, B)
  <1>1. Units(f, A \cup B) = Units(f, A) \cup Units(f, B)
    BY DEF Units
  <1>2. Units(f, A) \cap Units(f, B) = {}
    BY DEF Units
  <1>3. PICK U, V : U = Units(f, A) /\ V = Units(f, B)
    OBVIOUS
  <1>4. IsFiniteSet(U) /\ IsFiniteSet(V) /\ Cardinality(U) \in Nat /\ Cardinality(V) \in Nat
    BY <1>3, SumOfPart
  <1>5. Cardinality(U \cup V) = Cardinality(U) + Cardinality(V) - Cardinality(U \cap V)
    BY <1>4, FS_Union
  <1>6. Cardinality(U \cap V) = 0
    BY <1>2, <1>3, FS_EmptySet
  <1>7. Cardinality(U \cup V) = Cardinality(U) + Cardinality(V)
    BY <1>4, <1>5, <1>6
  <1>8. A \cup B \in SUBSET S
    OBVIOUS
  <1>9. SumFunctionOnSet(f, A \cup B) = Cardinality(U \cup V)
    <2>1. PICK C : C = A \cup B
      OBVIOUS
    <2>2. Units(f, C) = U \cup V
      BY <1>1, <1>3, <2>1
    <2>4. C \in SUBSET S
      BY <2>1
    <2>3. SumFunctionOnSet(f, C) = Cardinality(Units(f, C))
      BY <2>4, SumOfPart
    <2> QED BY <2>1, <2>2, <2>3
  <1> QED BY <1>3, <1>7, <1>9, SumOfPart

\* The sum of a function is the sum over its domain.
LEMMA SumOfAll ==
    ASSUME NEW S, NEW f, f = [x \in S |-> f[x]]
    PROVE  SumFunction(f) = SumFunctionOnSet(f, S)
  BY DEF SumFunction

\* Only what is added up matters.
LEMMA SumAlike ==
    ASSUME NEW S, IsFiniteSet(S), NEW f \in [S -> Nat],
           NEW T, IsFiniteSet(T), NEW g \in [T -> Nat],
           NEW A \in SUBSET S, A \in SUBSET T, \A x \in A : f[x] = g[x]
    PROVE  SumFunctionOnSet(f, A) = SumFunctionOnSet(g, A)
  <1>1. Units(f, A) = Units(g, A)
    BY DEF Units
  <1> QED BY <1>1, SumIsUnits

\* Of fewer and smaller numbers the sum is no greater.
LEMMA SumGrows ==
    ASSUME NEW S, IsFiniteSet(S), NEW f \in [S -> Nat], NEW g \in [S -> Nat],
           NEW A \in SUBSET S, NEW B \in SUBSET S, A \subseteq B, \A x \in A : f[x] <= g[x]
    PROVE  SumFunctionOnSet(f, A) <= SumFunctionOnSet(g, B)
  <1>1. \A x \in A : f[x] \in Nat /\ g[x] \in Nat /\ f[x] <= g[x]
    OBVIOUS
  <1>2. Units(f, A) \subseteq Units(g, B)
    <2>1. \A x \in A : 1 .. f[x] \subseteq 1 .. g[x]
      BY <1>1
    <2> QED BY <2>1 DEF Units
  <1>3. PICK U, V : U = Units(f, A) /\ V = Units(g, B)
    OBVIOUS
  <1>4. IsFiniteSet(V)
    BY <1>3, UnitsFinite
  <1>5. U \in SUBSET V
    BY <1>2, <1>3
  <1>6. Cardinality(U) <= Cardinality(V)
    BY <1>4, <1>5, FS_Subset
  <1> QED BY <1>3, <1>6, SumIsUnits

\* The elements are grouped by a key, and each group is counted.
Grouping(R, K, key, part) ==
    /\ key \in [R -> K] /\ part \in [K -> SUBSET R]
    /\ \A k \in K, r \in R : r \in part[k] <=> key[r] = k
\* Each part has something, and each number is the sum of its part.
NoneEmpty(part, K) == \A k \in K : part[k] # {}
Counts(g, K, w, part) ==
    g = [k \in K |-> g[k]] /\ \A k \in K : g[k] = SumFunctionOnSet(w, part[k])

\* What is counted group by group is counted once.
LEMMA SumOfGroups ==
    ASSUME NEW R, IsFiniteSet(R), NEW w \in [R -> Nat], NEW K, IsFiniteSet(K), NEW g \in [K -> Nat],
           NEW key, NEW part, Grouping(R, K, key, part), Counts(g, K, w, part)
    PROVE  SumFunctionOnSet(g, K) = SumFunctionOnSet(w, R)
  <1> DEFINE Gathered(T) == {r \in R : key[r] \in T}
             good(T) == SumFunctionOnSet(g, T) = SumFunctionOnSet(w, Gathered(T))
  <1>1. PICK bad : bad = {T \in SUBSET K : ~ good(T)}
    OBVIOUS
  <1>2. SUFFICES ASSUME bad # {} PROVE FALSE
    <2>1. Gathered(K) = R
      BY DEF Grouping
    <2>2. K \notin bad /\ K \in SUBSET K
      BY <1>2
    <2>3. SumFunctionOnSet(g, K) = SumFunctionOnSet(w, R)
      BY <1>1, <2>1, <2>2
    <2> QED BY <2>3
  <1>3. PICK T \in bad : \A U \in bad : ~ (U \subseteq T /\ U # T)
    <2>1. bad \subseteq SUBSET K
      BY <1>1
    <2> QED BY <1>2, <2>1, SmallestBad
  <1>4. T # {}
    <2>1. Gathered({}) = {}
      OBVIOUS
    <2>2. SumFunctionOnSet(g, {}) = 0 /\ SumFunctionOnSet(w, {}) = 0
      BY SumOfNone
    <2> QED BY <1>1, <2>1, <2>2
  <1>5. PICK k : k \in T
    BY <1>4
  <1>6. good(T \ {k}) /\ T \in SUBSET K
    BY <1>1, <1>3, <1>5
  <1>7. PICK A, B : A = Gathered(T \ {k}) /\ B = part[k]
    OBVIOUS
  <1>8. A \in SUBSET R /\ B \in SUBSET R /\ A \cap B = {} /\ Gathered(T) = A \cup B
    BY <1>5, <1>6, <1>7 DEF Grouping
  <1>9. SumFunctionOnSet(w, A \cup B) = SumFunctionOnSet(w, A) + SumFunctionOnSet(w, B)
    BY <1>8, SumOfTwoParts
  <1>10. SumFunctionOnSet(g, T) = g[k] + SumFunctionOnSet(g, T \ {k})
    BY <1>5, <1>6, SumOfOneMore
  <1>11. SumFunctionOnSet(w, A) \in Nat /\ SumFunctionOnSet(w, B) \in Nat
    BY <1>8, SumOfPart
  <1>12. g[k] = SumFunctionOnSet(w, B)
    BY <1>5, <1>6, <1>7 DEF Counts
  <1>13. SumFunctionOnSet(g, T \ {k}) = SumFunctionOnSet(w, A)
    BY <1>6, <1>7
  <1>14. SumFunctionOnSet(g, T) = SumFunctionOnSet(w, Gathered(T))
    <2>1. PICK a, b : a = SumFunctionOnSet(w, A) /\ b = SumFunctionOnSet(w, B)
      OBVIOUS
    <2>2. a \in Nat /\ b \in Nat
      BY <1>11, <2>1
    <2>3. SumFunctionOnSet(w, A \cup B) = a + b
      BY <1>9, <2>1
    <2>4. SumFunctionOnSet(g, T) = b + a
      BY <1>10, <1>12, <1>13, <2>1
    <2>5. a + b = b + a
      BY <2>2
    <2> QED BY <1>8, <2>3, <2>4, <2>5
  <1> QED BY <1>1, <1>3, <1>14

\* Ones count.
LEMMA SumOfOnes ==
    ASSUME NEW S, IsFiniteSet(S), NEW f \in [S -> Nat], NEW B \in SUBSET S, \A x \in B : f[x] \in {0, 1}
    PROVE  SumFunctionOnSet(f, B) = Cardinality({x \in B : f[x] = 1})
  <1>1. PICK A : A = {x \in B : f[x] = 1}
    OBVIOUS
  <1>2. Units(f, B) = {<<x, 1>> : x \in A}
    <2>1. ASSUME NEW x \in B
          PROVE  1 .. f[x] = IF x \in A THEN {1} ELSE {}
      <3>1. CASE f[x] = 0
        BY <1>1, <3>1
      <3>2. CASE f[x] = 1
        <4>1. 1 .. 1 = {1}
          OBVIOUS
        <4> QED BY <1>1, <3>2, <4>1
      <3> QED BY <3>1, <3>2
    <2>2. \A x \in B : {x} \X (1 .. f[x]) = IF x \in A THEN {<<x, 1>>} ELSE {}
      BY <2>1
    <2> QED BY <1>1, <2>2 DEF Units
  <1>3. IsFiniteSet(A)
    BY <1>1, FS_Subset
  <1>4. PICK b : b = [x \in A |-> <<x, 1>>]
    OBVIOUS
  <1>5. PICK U : U = Units(f, B)
    OBVIOUS
  <1>6. /\ b \in [A -> U] /\ \A x, y \in A : b[x] = b[y] => x = y
        /\ \A u \in U : \E x \in A : b[x] = u
    BY <1>2, <1>4, <1>5
  <1>7. b \in Bijection(A, U)
    BY <1>6, Fun_IsBij
  <1>8. Cardinality(U) = Cardinality(A)
    BY <1>3, <1>7, FS_Bijection DEF ExistsBijection
  <1> QED BY <1>1, <1>5, <1>8, SumIsUnits

\* ... and noughts do not.
LEMMA SumOfZeros ==
    ASSUME NEW S, IsFiniteSet(S), NEW f \in [S -> Nat], NEW B \in SUBSET S, \A x \in B : f[x] = 0
    PROVE  SumFunctionOnSet(f, B) = 0
  <1>1. Units(f, B) = {}
    BY DEF Units
  <1> QED BY <1>1, SumIsUnits, FS_EmptySet

\* Entries are made of the rows of one key each: what they count adds up.
LEMMA EntriesAddUp ==
    ASSUME NEW R, IsFiniteSet(R), NEW w \in [R -> Nat], NEW E, NEW key, NEW part,
           Grouping(R, E, key, part), NoneEmpty(part, E),
           NEW v, Counts(v, E, w, part)
    PROVE  IsFiniteSet(E) /\ v \in [E -> Nat] /\ SumFunction(v) = SumFunction(w)
  <1>1. IsFiniteSet(E)
    <2>1. key \in Surjection(R, E)
      BY DEF Surjection, Grouping, NoneEmpty
    <2> QED BY <2>1, FS_Surjection
  <1>2. ASSUME NEW e \in E
        PROVE  v[e] \in Nat
    <2>1. part[e] \in SUBSET R
      BY DEF Grouping
    <2>2. SumFunctionOnSet(w, part[e]) \in Nat
      BY <2>1, SumOfPart
    <2> QED BY <2>2 DEF Counts
  <1>3. v \in [E -> Nat] /\ v = [e \in E |-> v[e]]
    BY <1>2 DEF Counts
  <1>4. SumFunctionOnSet(v, E) = SumFunctionOnSet(w, R)
    BY <1>1, <1>3, SumOfGroups
  <1>5. w = [r \in R |-> w[r]]
    OBVIOUS
  <1>6. SumFunction(v) = SumFunctionOnSet(v, E) /\ SumFunction(w) = SumFunctionOnSet(w, R)
    BY <1>3, <1>5, SumOfAll
  <1> QED BY <1>1, <1>3, <1>4, <1>6

\* What is added up of a part is the sum over it.
LEMMA SumOfSome ==
    ASSUME NEW R, IsFiniteSet(R), NEW w \in [R -> Nat], NEW A \in SUBSET R,
           NEW f, f = [x \in A |-> w[x]]
    PROVE  SumFunction(f) = SumFunctionOnSet(w, A) /\ SumFunction(f) \in Nat
  <1>1. f \in [A -> Nat] /\ f = [x \in A |-> f[x]] /\ A \in SUBSET A /\ IsFiniteSet(A)
    BY FS_Subset
  <1>2. SumFunction(f) = SumFunctionOnSet(f, A)
    BY <1>1, SumOfAll
  <1>3. \A x \in A : f[x] = w[x]
    OBVIOUS
  <1>4. SumFunctionOnSet(f, A) = SumFunctionOnSet(w, A)
    BY <1>1, <1>3, SumAlike
  <1>5. SumFunctionOnSet(w, A) \in Nat
    BY SumOfPart
  <1> QED BY <1>2, <1>4, <1>5

\* Counting group by group.
LEMMA CountByGroups ==
    ASSUME NEW R, IsFiniteSet(R), NEW K, IsFiniteSet(K), NEW key, NEW part, Grouping(R, K, key, part),
           NEW g, g = [k \in K |-> Cardinality(part[k])]
    PROVE  g \in [K -> Nat] /\ SumFunction(g) = Cardinality(R)
  <1>1. PICK w : w = [r \in R |-> 1]
    OBVIOUS
  <1>2. w \in [R -> Nat]
    BY <1>1
  <1>3. ASSUME NEW A \in SUBSET R
        PROVE  SumFunctionOnSet(w, A) = Cardinality(A)
    <2>1. \A r \in A : w[r] \in {0, 1}
      BY <1>1
    <2>2. SumFunctionOnSet(w, A) = Cardinality({r \in A : w[r] = 1})
      BY <1>2, <2>1, SumOfOnes
    <2>3. {r \in A : w[r] = 1} = A
      BY <1>1
    <2> QED BY <2>2, <2>3
  <1>4. ASSUME NEW k \in K
        PROVE  part[k] \in SUBSET R /\ Cardinality(part[k]) \in Nat
    <2>1. part[k] \in SUBSET R
      BY DEF Grouping
    <2> QED BY <2>1, FS_Subset, FS_CardinalityType
  <1>5. g \in [K -> Nat] /\ g = [k \in K |-> g[k]]
    BY <1>4
  <1>6. Counts(g, K, w, part)
    BY <1>3, <1>4, <1>5 DEF Counts
  <1>7. SumFunctionOnSet(g, K) = SumFunctionOnSet(w, R)
    BY <1>2, <1>5, <1>6, SumOfGroups
  <1>8. SumFunction(g) = SumFunctionOnSet(g, K)
    BY <1>5, SumOfAll
  <1>9. SumFunctionOnSet(w, R) = Cardinality(R)
    BY <1>3
  <1> QED BY <1>5, <1>7, <1>8, <1>9

\* Sets that cover another have as many elements together, at least.
LEMMA CoverCounts ==
    ASSUME NEW R, IsFiniteSet(R), NEW K, IsFiniteSet(K), NEW cover, \A k \in K : IsFiniteSet(cover[k]),
           \A r \in R : \E k \in K : r \in cover[k],
           NEW g, g = [k \in K |-> Cardinality(cover[k])]
    PROVE  Cardinality(R) <= SumFunction(g)
  <1>1. PICK key : key = [r \in R |-> CHOOSE k \in K : r \in cover[k]]
    OBVIOUS
  <1>2. \A r \in R : key[r] \in K /\ r \in cover[key[r]]
    BY <1>1
  <1>3. PICK part : part = [k \in K |-> {r \in R : key[r] = k}]
    OBVIOUS
  <1>4. key \in [R -> K]
    BY <1>1, <1>2
  <1>5. Grouping(R, K, key, part)
    BY <1>3, <1>4 DEF Grouping
  <1>6. PICK h : h = [k \in K |-> Cardinality(part[k])]
    OBVIOUS
  <1>7. h \in [K -> Nat] /\ SumFunction(h) = Cardinality(R)
    BY <1>5, <1>6, CountByGroups
  <1>8. ASSUME NEW k \in K
        PROVE  g[k] \in Nat /\ h[k] <= g[k]
    <2>1. part[k] \in SUBSET cover[k] /\ IsFiniteSet(cover[k])
      BY <1>2, <1>3
    <2>2. Cardinality(part[k]) <= Cardinality(cover[k]) /\ Cardinality(cover[k]) \in Nat
      BY <2>1, FS_Subset, FS_CardinalityType
    <2> QED BY <1>6, <2>2
  <1>9. g \in [K -> Nat] /\ K \in SUBSET K /\ g = [k \in K |-> g[k]] /\ h = [k \in K |-> h[k]]
    BY <1>6, <1>8
  <1>10. SumFunctionOnSet(h, K) <= SumFunctionOnSet(g, K)
    BY <1>7, <1>8, <1>9, SumGrows
  <1>11. SumFunction(g) = SumFunctionOnSet(g, K) /\ SumFunction(h) = SumFunctionOnSet(h, K)
    BY <1>9, SumOfAll
  <1> QED BY <1>7, <1>10, <1>11

\* Groups of what has a name in common, and a row for each with that name on it.
Grouped(G, Q, name) == G = {{d \in Q : name[d] = name[c]} : c \in Q}
\* Each group has a row, each row a group, and a row says what its calls are named.
OneEach(G, E, row) == row \in [G -> E] /\ \A e \in E : \E g \in G : row[g] = e
Labelled(G, name, row, label) == \A g \in G : \A c \in g : label[row[g]] = name[c]

\* Calls that are grouped by a name, with a row for each group that says the name, are
\* grouped by their rows.
LEMMA RowsOfGroups ==
    ASSUME NEW Q, NEW name, NEW G, Grouped(G, Q, name), NEW E, NEW row, OneEach(G, E, row),
           NEW label, Labelled(G, name, row, label)
    PROVE  \E key, part : /\ Grouping(Q, E, key, part) /\ NoneEmpty(part, E)
                          /\ \A g \in G : part[row[g]] = g
  <1>0. /\ G = {{d \in Q : name[d] = name[c]} : c \in Q}
        /\ row \in [G -> E] /\ \A e \in E : \E g \in G : row[g] = e
        /\ \A g \in G : \A c \in g : label[row[g]] = name[c]
    BY DEF Grouped, OneEach, Labelled
  <1>1. PICK of : of = [c \in Q |-> {d \in Q : name[d] = name[c]}]
    OBVIOUS
  <1>2. \A c \in Q : of[c] \in G /\ c \in of[c] /\ \A d \in Q : d \in of[c] <=> name[d] = name[c]
    BY <1>0, <1>1
  <1>3. \A g \in G : \E c \in Q : g = of[c]
    BY <1>0, <1>1
  <1>4. PICK key : key = [c \in Q |-> row[of[c]]]
    OBVIOUS
  <1>5. PICK part : part = [e \in E |-> {c \in Q : name[c] = label[e]}]
    OBVIOUS
  <1>6. \A c \in Q : label[row[of[c]]] = name[c]
    BY <1>0, <1>2
  <1>7. ASSUME NEW c \in Q
        PROVE  part[row[of[c]]] = of[c]
    <2>1. row[of[c]] \in E
      BY <1>0, <1>2
    <2> QED BY <1>1, <1>5, <1>6, <2>1
  <1>8. ASSUME NEW g \in G
        PROVE  part[row[g]] = g
    <2>1. PICK c \in Q : g = of[c]
      BY <1>3
    <2> QED BY <1>7, <2>1
  <1>9. ASSUME NEW e \in E
        PROVE  \E c \in Q : e = row[of[c]]
    <2>1. PICK g \in G : row[g] = e
      BY <1>0
    <2>2. PICK c \in Q : g = of[c]
      BY <1>3
    <2> QED BY <2>1, <2>2
  <1>10. NoneEmpty(part, E)
    BY <1>2, <1>7, <1>9 DEF NoneEmpty
  <1>11. Grouping(Q, E, key, part)
    <2>1. key \in [Q -> E] /\ part \in [E -> SUBSET Q]
      BY <1>0, <1>2, <1>4, <1>5
    <2>2. ASSUME NEW c \in Q, NEW d \in Q
          PROVE  d \in part[row[of[c]]] <=> key[d] = row[of[c]]
      <3>1. d \in part[row[of[c]]] <=> name[d] = name[c]
        BY <1>2, <1>7
      <3>2. name[d] = name[c] => of[d] = of[c]
        BY <1>1
      <3>3. row[of[d]] = row[of[c]] => name[d] = name[c]
        BY <1>6
      <3> QED BY <1>4, <3>1, <3>2, <3>3
    <2>3. \A e \in E, d \in Q : d \in part[e] <=> key[d] = e
      <3>1. ASSUME NEW e \in E, NEW d \in Q
            PROVE  d \in part[e] <=> key[d] = e
        <4>1. PICK c \in Q : e = row[of[c]]
          BY <1>9
        <4> QED BY <2>2, <4>1
      <3> QED BY <3>1
    <2> QED BY <2>1, <2>3 DEF Grouping
  <1> QED BY <1>8, <1>10, <1>11
================================================================================
