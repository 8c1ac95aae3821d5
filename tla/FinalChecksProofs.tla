--------------------------- MODULE FinalChecksProofs ---------------------------
(***************************************************************************)
(* Proofs about the two checks that stand between the work and the outside: *)
(* the evaluation gate, and commit_and_push. The first part is about sums   *)
(* over finite sets, which the metrics of the gate are made of.             *)
(***************************************************************************)
EXTENDS Gate, GitPublisher, TLAPS, FiniteSetTheorems, SequenceTheorems

-----------------------------------------------------------------------------
(* Sums over finite sets                                                    *)

(* A sum is counted: a weight of n stands for n units.                      *)
Units(f, S) == {p \in S \X Nat : p[2] \in 1 .. f[p[1]]}
Total(f, S) == Cardinality(Units(f, S))

(* Of sets of subsets of a finite set one has no smaller one in it.         *)
LEMMA Smallest ==
    ASSUME NEW S, IsFiniteSet(S), NEW Sets, Sets \subseteq SUBSET S, Sets # {}
    PROVE  \E s \in Sets : \A u \in SUBSET s : u # s => u \notin Sets
<1> DEFINE R == StrictSubsetOrdering(S)
<1>1. IsWellFoundedOn(R, FiniteSubsetsOf(S))
  BY FS_StrictSubsetOrderingWellFounded
<1>2. FiniteSubsetsOf(S) = SUBSET S
  BY FS_FiniteSubsetsOfFinite
<1>3. \A s, u \in SUBSET S : u \subseteq s /\ u # s => <<u, s>> \in R
  BY DEF StrictSubsetOrdering
<1> HIDE DEF R
<1>4. PICK s \in Sets : \A u \in Sets : ~ (<<u, s>> \in R)
  BY <1>1, <1>2, WFMin
<1>5. ASSUME NEW u \in SUBSET s, u # s PROVE u \notin Sets
  BY <1>3, <1>4, <1>5
<1> QED
  BY <1>4, <1>5

LEMMA ImageIsFinite ==
    ASSUME NEW S, IsFiniteSet(S), NEW f
    PROVE  IsFiniteSet({f[x] : x \in S})
<1> DEFINE T == {f[x] : x \in S}
           g == [x \in S |-> f[x]]
<1>1. g \in Surjection(S, T)
  BY DEF Surjection
<1> QED
  BY <1>1, FS_Surjection

LEMMA UnitsAreFinite ==
    ASSUME NEW S, IsFiniteSet(S), NEW f, \A x \in S : f[x] \in Nat
    PROVE  IsFiniteSet(Units(f, S)) /\ Total(f, S) \in Nat
<1> DEFINE g == [x \in S |-> {x} \X (1 .. f[x])]
           Parts == {g[x] : x \in S}
<1>1. IsFiniteSet(Parts)
  <2> HIDE DEF g
  <2> QED
    BY ImageIsFinite
<1>2. ASSUME NEW x \in S PROVE IsFiniteSet(g[x])
  <2>0. 1 \in Int /\ f[x] \in Int
    OBVIOUS
  <2>1. IsFiniteSet({x}) /\ IsFiniteSet(1 .. f[x])
    BY <2>0, FS_Singleton, FS_Interval
  <2>2. IsFiniteSet({x} \X (1 .. f[x]))
    BY <2>1, FS_Product
  <2> QED
    BY <2>2
<1>3. \A part \in Parts : IsFiniteSet(part)
  BY <1>2
<1>4. Units(f, S) = UNION Parts
  BY DEF Units
<1> HIDE DEF Parts
<1>5. IsFiniteSet(Units(f, S))
  BY <1>1, <1>3, <1>4, FS_UNION
<1> QED
  BY <1>5, FS_CardinalityType DEF Total

LEMMA TotalOfSame ==
    ASSUME NEW S, NEW f, NEW g, \A x \in S : f[x] = g[x]
    PROVE  Total(f, S) = Total(g, S)
<1>1. Units(f, S) = Units(g, S)
  BY DEF Units
<1> QED
  BY <1>1 DEF Total

LEMMA TotalOfNone ==
    ASSUME NEW f
    PROVE  Total(f, {}) = 0
<1>1. Units(f, {}) = {}
  BY DEF Units
<1> QED
  BY <1>1, FS_EmptySet DEF Total

LEMMA TotalOfUnion ==
    ASSUME NEW A, IsFiniteSet(A), NEW B, IsFiniteSet(B), A \cap B = {}, NEW f,
           \A x \in A \cup B : f[x] \in Nat
    PROVE  Total(f, A \cup B) = Total(f, A) + Total(f, B)
<1>1. IsFiniteSet(Units(f, A)) /\ IsFiniteSet(Units(f, B))
  BY UnitsAreFinite
<1>2. Units(f, A \cup B) = Units(f, A) \cup Units(f, B)
  BY DEF Units
<1>3. Units(f, A) \cap Units(f, B) = {}
  BY DEF Units
<1>4. Cardinality(Units(f, A) \cup Units(f, B)) =
          Cardinality(Units(f, A)) + Cardinality(Units(f, B)) - Cardinality({})
  BY <1>1, <1>3, FS_Union
<1>5. Cardinality({}) = 0 /\ Total(f, A) \in Nat /\ Total(f, B) \in Nat
  BY FS_EmptySet, UnitsAreFinite
<1>6. Total(f, A \cup B) = Total(f, A) + Total(f, B) - 0
  BY <1>2, <1>4, <1>5, Zenon DEF Total
<1> QED
  BY <1>5, <1>6

LEMMA TotalOfEqual ==
    ASSUME NEW S, IsFiniteSet(S), NEW c \in Nat, NEW f, \A x \in S : f[x] = c
    PROVE  Total(f, S) = c * Cardinality(S)
<1>1. Units(f, S) = S \X (1 .. c)
  BY DEF Units
<1>2. IsFiniteSet(1 .. c) /\ Cardinality(1 .. c) = c
  BY FS_Interval
<1>3. Cardinality(S \X (1 .. c)) = Cardinality(S) * Cardinality(1 .. c)
  BY <1>2, FS_Product
<1>4. Cardinality(S) \in Nat
  BY FS_CardinalityType
<1> QED
  BY <1>1, <1>2, <1>3, <1>4 DEF Total

LEMMA TotalOfOne ==
    ASSUME NEW x, NEW f, f[x] \in Nat
    PROVE  Total(f, {x}) = f[x]
<1>1. IsFiniteSet({x}) /\ Cardinality({x}) = 1
  BY FS_Singleton
<1>2. Total(f, {x}) = f[x] * Cardinality({x})
  BY <1>1, TotalOfEqual
<1> QED
  BY <1>1, <1>2

LEMMA TotalIsBounded ==
    ASSUME NEW S, IsFiniteSet(S), NEW c \in Nat, NEW f, \A x \in S : f[x] \in Nat /\ f[x] <= c
    PROVE  Total(f, S) <= c * Cardinality(S)
<1>1. Units(f, S) \subseteq S \X (1 .. c)
  BY DEF Units
<1>2. IsFiniteSet(1 .. c) /\ Cardinality(1 .. c) = c
  BY FS_Interval
<1>3. IsFiniteSet(S \X (1 .. c)) /\ Cardinality(S \X (1 .. c)) = Cardinality(S) * Cardinality(1 .. c)
  BY <1>2, FS_Product
<1>4. Cardinality(Units(f, S)) <= Cardinality(S \X (1 .. c))
  BY <1>1, <1>3, FS_Subset
<1>5. Cardinality(S) \in Nat
  BY FS_CardinalityType
<1> QED
  BY <1>2, <1>3, <1>4, <1>5 DEF Total

LEMMA TotalWithout ==
    ASSUME NEW S, IsFiniteSet(S), NEW x \in S, NEW f, \A y \in S : f[y] \in Nat
    PROVE  Total(f, S) = f[x] + Total(f, S \ {x})
<1>1. IsFiniteSet({x}) /\ IsFiniteSet(S \ {x})
  BY FS_Singleton, FS_RemoveElement
<1>2. {x} \cap (S \ {x}) = {} /\ {x} \cup (S \ {x}) = S
  OBVIOUS
<1>3. Total(f, {x} \cup (S \ {x})) = Total(f, {x}) + Total(f, S \ {x})
  BY <1>1, <1>2, TotalOfUnion
<1>4. Total(f, {x}) = f[x]
  BY TotalOfOne
<1> QED
  BY <1>2, <1>3, <1>4

(* One set counted through another.                                         *)
LEMMA TotalThroughBijection ==
    ASSUME NEW S, IsFiniteSet(S), NEW T, NEW b \in Bijection(S, T), NEW f, NEW g,
           \A x \in S : f[x] \in Nat /\ g[b[x]] = f[x]
    PROVE  Total(f, S) = Total(g, T)
<1> DEFINE c == [p \in Units(f, S) |-> <<b[p[1]], p[2]>>]
<1>1. /\ \A x \in S : b[x] \in T
      /\ \A x, y \in S : b[x] = b[y] => x = y
      /\ \A t \in T : \E x \in S : b[x] = t
  BY DEF Bijection, Injection, Surjection, IsInjective
<1>2. c \in [Units(f, S) -> Units(g, T)]
  BY <1>1 DEF Units
<1>3. \A p, q \in Units(f, S) : c[p] = c[q] => p = q
  BY <1>1 DEF Units
<1>4. \A u \in Units(g, T) : \E p \in Units(f, S) : c[p] = u
  <2> SUFFICES ASSUME NEW u \in Units(g, T) PROVE \E p \in Units(f, S) : c[p] = u
    OBVIOUS
  <2> DEFINE t == u[1]
             n == u[2]
  <2>0. u = <<t, n>> /\ t \in T /\ n \in Nat /\ n \in 1 .. g[t]
    BY DEF Units
  <2> HIDE DEF t, n
  <2>1. PICK x \in S : b[x] = t
    BY <1>1, <2>0
  <2>2. <<x, n>> \in Units(f, S)
    BY <2>0, <2>1 DEF Units
  <2>3. c[<<x, n>>] = <<t, n>>
    BY <2>1, <2>2
  <2> QED
    BY <2>0, <2>2, <2>3
<1> HIDE DEF c
<1>5. c \in Bijection(Units(f, S), Units(g, T))
  BY <1>2, <1>3, <1>4 DEF Bijection, Injection, Surjection, IsInjective
<1>6. ExistsBijection(Units(f, S), Units(g, T))
  BY <1>5 DEF ExistsBijection
<1>7. IsFiniteSet(Units(f, S))
  BY UnitsAreFinite
<1> QED
  BY <1>6, <1>7, FS_Bijection DEF Total

(* The members of a set in groups: the total is that of the groups.         *)
LEMMA TotalInGroups ==
    ASSUME NEW S, IsFiniteSet(S), NEW T, IsFiniteSet(T), NEW group, \A x \in S : group[x] \in T,
           NEW f, \A x \in S : f[x] \in Nat
    PROVE  Total(f, S) = Total([t \in T |-> Total(f, {x \in S : group[x] = t})], T)
<1> DEFINE In(U) == {x \in S : group[x] \in U}
           Group(t) == {x \in S : group[x] = t}
           g == [t \in T |-> Total(f, Group(t))]
           Bad == {U \in SUBSET T : Total(f, In(U)) # Total(g, U)}
<1>1. ASSUME NEW A, A \subseteq S PROVE IsFiniteSet(A) /\ Total(f, A) \in Nat
  <2>1. IsFiniteSet(A)
    BY <1>1, FS_Subset
  <2> QED
    BY <1>1, <2>1, UnitsAreFinite
<1>2. \A t \in T : g[t] \in Nat
  BY <1>1
<1> HIDE DEF g
<1>3. ASSUME NEW U \in SUBSET T, \A V \in SUBSET U : V # U => V \notin Bad
      PROVE  U \notin Bad
  <2>1. CASE U = {}
    <3>1. In(U) = {}
      BY <2>1
    <3> QED
      BY <2>1, <3>1, TotalOfNone
  <2>2. CASE U # {}
    <3>1. PICK t \in U : TRUE
      BY <2>2
    <3> DEFINE V == U \ {t}
    <3>2. V \in SUBSET U /\ V # U /\ V \in SUBSET T /\ t \in T
      BY <3>1
    <3>3. Total(f, In(V)) = Total(g, V)
      BY <1>3, <3>2
    <3>4. IsFiniteSet(U) /\ \A u \in U : g[u] \in Nat
      BY <1>2, FS_Subset
    <3>5. Total(g, U) = g[t] + Total(g, V)
      BY <3>1, <3>4, TotalWithout
    <3>6. In(U) = Group(t) \cup In(V) /\ Group(t) \cap In(V) = {}
      BY <3>1
    <3>7. IsFiniteSet(Group(t)) /\ IsFiniteSet(In(V)) /\ \A x \in Group(t) \cup In(V) : f[x] \in Nat
      BY <1>1
    <3> HIDE DEF V
    <3>8. Total(f, In(U)) = Total(f, Group(t)) + Total(f, In(V))
      <4> HIDE DEF In, Group
      <4> QED
        BY <3>6, <3>7, TotalOfUnion
    <3>9. g[t] = Total(f, Group(t))
      BY <3>2 DEF g
    <3> QED
      BY <3>3, <3>5, <3>8, <3>9
  <2> QED
    BY <2>1, <2>2
<1>4. Bad = {}
  <2>1. Bad \subseteq SUBSET T
    OBVIOUS
  <2> HIDE DEF Bad
  <2> QED
    BY <1>3, <2>1, Smallest
<1>5. Total(f, In(T)) = Total(g, T)
  BY <1>4
<1>6. In(T) = S
  OBVIOUS
<1> QED
  BY <1>5, <1>6 DEF g

-----------------------------------------------------------------------------
(* What SumFunction computes                                                *)

Any(s) == CHOOSE x \in s : TRUE

Sums(sum, f, S) ==
    sum = [s \in SUBSET S |-> IF s = {} THEN 0 ELSE f[Any(s)] + sum[s \ {Any(s)}]]

LEMMA SumIsTotal ==
    ASSUME NEW S, IsFiniteSet(S), NEW f, \A x \in S : f[x] \in Nat,
           NEW sum, Sums(sum, f, S)
    PROVE  sum[S] = Total(f, S)
<1> DEFINE Bad == {s \in SUBSET S : sum[s] # Total(f, s)}
<1>1. ASSUME NEW s \in SUBSET S, \A u \in SUBSET s : u # s => u \notin Bad
      PROVE  s \notin Bad
  <2>1. sum[s] = IF s = {} THEN 0 ELSE f[Any(s)] + sum[s \ {Any(s)}]
    BY DEF Sums
  <2>2. CASE s = {}
    BY <2>1, <2>2, TotalOfNone
  <2>3. CASE s # {}
    <3> DEFINE x == Any(s)
    <3>1. x \in s
      BY <2>3 DEF Any
    <3>2. sum[s] = f[x] + sum[s \ {x}]
      BY <2>1, <2>3
    <3> HIDE DEF x
    <3>3. sum[s \ {x}] = Total(f, s \ {x})
      BY <1>1, <3>1
    <3>4. IsFiniteSet(s) /\ \A y \in s : f[y] \in Nat
      BY FS_Subset
    <3>5. Total(f, s) = f[x] + Total(f, s \ {x})
      BY <3>1, <3>4, TotalWithout
    <3> QED
      BY <3>2, <3>3, <3>5
  <2> QED
    BY <2>2, <2>3
<1>2. Bad \subseteq SUBSET S
  OBVIOUS
<1>3. Bad = {}
  <2> HIDE DEF Bad
  <2> QED
    BY <1>1, <1>2, Smallest
<1> QED
  BY <1>3

LEMMA SumExists ==
    ASSUME NEW S, IsFiniteSet(S), NEW f, \A x \in S : f[x] \in Nat
    PROVE  \E sum : Sums(sum, f, S)
<1> DEFINE sum == [s \in SUBSET S |-> Total(f, s)]
<1>1. ASSUME NEW s \in SUBSET S
      PROVE  sum[s] = IF s = {} THEN 0 ELSE f[Any(s)] + sum[s \ {Any(s)}]
  <2>1. CASE s = {}
    BY <2>1, TotalOfNone
  <2>2. CASE s # {}
    <3>1. Any(s) \in s
      BY <2>2 DEF Any
    <3>2. IsFiniteSet(s) /\ \A y \in s : f[y] \in Nat
      BY FS_Subset
    <3>3. Total(f, s) = f[Any(s)] + Total(f, s \ {Any(s)})
      BY <3>1, <3>2, TotalWithout
    <3> QED
      BY <2>2, <3>1, <3>3
  <2> QED
    BY <2>1, <2>2
<1>2. Sums(sum, f, S)
  BY <1>1 DEF Sums
<1> HIDE DEF sum
<1> QED
  BY <1>2

(* The fold that adds up the values of a function.                          *)
LEMMA SumFunctionIsTotal ==
    ASSUME NEW S, IsFiniteSet(S), NEW f, DOMAIN f = S, \A x \in S : f[x] \in Nat
    PROVE  SumFunction(f) = Total(f, S)
<1> DEFINE P(h) == h = [s \in SUBSET S |-> IF s = {} THEN 0
                           ELSE f[CHOOSE x \in s : TRUE] + h[s \ {CHOOSE x \in s : TRUE}]]
           g == CHOOSE h : P(h)
<1>1. \A h : P(h) <=> Sums(h, f, S)
  BY DEF Any, Sums
<1>2. SumFunction(f) = g[S]
  BY DEF SumFunction, SumFunctionOnSet, FoldFunctionOnSet, MapThenFoldSet
<1> HIDE DEF P
<1>3. \E h : P(h)
  BY <1>1, SumExists
<1>4. P(g)
  BY <1>3
<1> HIDE DEF g
<1>5. g[S] = Total(f, S)
  BY <1>1, <1>4, SumIsTotal
<1> QED
  BY <1>2, <1>5

-----------------------------------------------------------------------------
(* The metrics of a scope                                                   *)

LEMMA QuotientIsBounded ==
    ASSUME NEW n \in Nat, NEW b \in Nat, b > 0, NEW s \in Nat, n <= s * b
    PROVE  n \div b \in Nat /\ n \div b <= s
  OBVIOUS

LEMMA LabelsAreFinite ==
    ASSUME NEW scope, IsFiniteSet(scope), NEW truth, NEW predicted
    PROVE  /\ IsFiniteSet(ReferenceLabels(scope, truth))
           /\ IsFiniteSet(ObservedLabels(scope, truth, predicted))
<1>1. IsFiniteSet({truth[i] : i \in scope}) /\ IsFiniteSet({predicted[i] : i \in scope})
  BY ImageIsFinite
<1> QED
  BY <1>1, FS_Union DEF ReferenceLabels, ObservedLabels

(* How the samples of a label are counted.                                  *)
LEMMA Counts ==
    ASSUME NEW scope, IsFiniteSet(scope), NEW truth, NEW predicted, NEW l
    PROVE  /\ Cardinality(Samples(scope, truth, l)) \in Nat
           /\ Cardinality(Samples(scope, predicted, l)) \in Nat
           /\ TruePositives(scope, truth, predicted, l) \in Nat
           /\ TruePositives(scope, truth, predicted, l) <= Cardinality(Samples(scope, truth, l))
           /\ TruePositives(scope, truth, predicted, l) <= Cardinality(Samples(scope, predicted, l))
           /\ l \in ReferenceLabels(scope, truth) => Cardinality(Samples(scope, truth, l)) > 0
           /\ l \in ObservedLabels(scope, truth, predicted) =>
                  Cardinality(Samples(scope, truth, l)) + Cardinality(Samples(scope, predicted, l)) > 0
<1> DEFINE A == Samples(scope, truth, l)
           B == Samples(scope, predicted, l)
<1>1. A \subseteq scope /\ B \subseteq scope
  BY DEF Samples
<1>2. /\ l \in ReferenceLabels(scope, truth) => A # {}
      /\ l \in ObservedLabels(scope, truth, predicted) => A # {} \/ B # {}
  BY DEF Samples, ReferenceLabels, ObservedLabels
<1>3. TruePositives(scope, truth, predicted, l) = Cardinality(A \cap B)
  BY DEF TruePositives
<1> HIDE DEF A, B
<1>4. IsFiniteSet(A) /\ IsFiniteSet(B)
  BY <1>1, FS_Subset
<1>5. IsFiniteSet(A \cap B) /\ Cardinality(A \cap B) <= Cardinality(A)
  BY <1>4, FS_Intersection
<1>6. Cardinality(A \cap B) <= Cardinality(B)
  BY <1>4, FS_Intersection
<1>7. Cardinality(A) \in Nat /\ Cardinality(B) \in Nat /\ Cardinality(A \cap B) \in Nat
  BY <1>4, <1>5, FS_CardinalityType
<1>8. (A # {} => Cardinality(A) # 0) /\ (B # {} => Cardinality(B) # 0)
  BY <1>4, FS_EmptySet
<1> QED
  BY <1>2, <1>3, <1>5, <1>6, <1>7, <1>8 DEF A, B

(* A score is at most Scale.                                                *)
LEMMA Scores ==
    ASSUME NEW scope, IsFiniteSet(scope), NEW truth, NEW predicted
    PROVE  /\ \A l \in ReferenceLabels(scope, truth) :
                  /\ Recall(scope, truth, predicted, l) \in Nat
                  /\ Recall(scope, truth, predicted, l) <= Scale
           /\ \A l \in ObservedLabels(scope, truth, predicted) :
                  /\ F1(scope, truth, predicted, l) \in Nat
                  /\ F1(scope, truth, predicted, l) <= Scale
<1> USE ThresholdAssumption
<1>1. ASSUME NEW l \in ReferenceLabels(scope, truth)
      PROVE  /\ Recall(scope, truth, predicted, l) \in Nat
             /\ Recall(scope, truth, predicted, l) <= Scale
  <2> DEFINE t == TruePositives(scope, truth, predicted, l)
             n == Cardinality(Samples(scope, truth, l))
  <2>1. t \in Nat /\ n \in Nat /\ t <= n /\ n > 0
    BY Counts
  <2>2. Recall(scope, truth, predicted, l) = (Scale * t) \div n
    BY DEF Recall
  <2> HIDE DEF t, n
  <2>3. Scale * t \in Nat /\ Scale * t <= Scale * n
    BY <2>1
  <2> QED
    BY <2>1, <2>2, <2>3, QuotientIsBounded
<1>2. ASSUME NEW l \in ObservedLabels(scope, truth, predicted)
      PROVE  /\ F1(scope, truth, predicted, l) \in Nat
             /\ F1(scope, truth, predicted, l) <= Scale
  <2> DEFINE t == TruePositives(scope, truth, predicted, l)
             n == Cardinality(Samples(scope, truth, l))
             m == Cardinality(Samples(scope, predicted, l))
  <2>1. t \in Nat /\ n \in Nat /\ m \in Nat /\ t <= n /\ t <= m /\ n + m > 0
    BY Counts
  <2>2. F1(scope, truth, predicted, l) = (Scale * 2 * t) \div (n + m)
    BY DEF F1
  <2> HIDE DEF t, n, m
  <2>3. 2 * t \in Nat /\ n + m \in Nat /\ 2 * t <= n + m
    BY <2>1
  <2>4. Scale * (2 * t) <= Scale * (n + m) /\ Scale * (2 * t) \in Nat
    BY <2>3
  <2>5. Scale * 2 * t = Scale * (2 * t)
    BY <2>1
  <2> QED
    BY <2>1, <2>2, <2>3, <2>4, <2>5, QuotientIsBounded
<1> QED
  BY <1>1, <1>2

LEMMA SumsOfScores ==
    ASSUME NEW scope, IsFiniteSet(scope), NEW truth, NEW predicted
    PROVE  /\ BalancedAccuracy(scope, truth, predicted).sum =
                  Total([l \in ReferenceLabels(scope, truth) |-> Recall(scope, truth, predicted, l)],
                        ReferenceLabels(scope, truth))
           /\ MacroF1(scope, truth, predicted).sum =
                  Total([l \in ObservedLabels(scope, truth, predicted) |->
                             F1(scope, truth, predicted, l)],
                        ObservedLabels(scope, truth, predicted))
<1> DEFINE R == ReferenceLabels(scope, truth)
           O == ObservedLabels(scope, truth, predicted)
           f == [l \in R |-> Recall(scope, truth, predicted, l)]
           g == [l \in O |-> F1(scope, truth, predicted, l)]
<1>1. IsFiniteSet(R) /\ IsFiniteSet(O)
  BY LabelsAreFinite
<1>2. DOMAIN f = R /\ DOMAIN g = O /\ (\A l \in R : f[l] \in Nat) /\ \A l \in O : g[l] \in Nat
  BY Scores
<1>3. BalancedAccuracy(scope, truth, predicted).sum = SumFunction(f)
  BY DEF BalancedAccuracy
<1>4. MacroF1(scope, truth, predicted).sum = SumFunction(g)
  BY DEF MacroF1
<1> HIDE DEF f, g, R, O
<1>5. SumFunction(f) = Total(f, R) /\ SumFunction(g) = Total(g, O)
  BY <1>1, <1>2, SumFunctionIsTotal
<1> QED
  BY <1>3, <1>4, <1>5 DEF f, g, R, O

-----------------------------------------------------------------------------
(* What a mean says of each of the scores                                   *)

LEMMA Products ==
    ASSUME NEW a \in Nat, NEW b \in Nat, NEW c \in Nat, a <= b
    PROVE  a * c <= b * c
  OBVIOUS

(* The others cannot make up for more than they may have.                   *)
LEMMA TheOthersAreBounded ==
    ASSUME NEW S, IsFiniteSet(S), NEW x \in S, NEW f,
           \A y \in S : f[y] \in Nat /\ f[y] <= Scale
    PROVE  /\ Cardinality(S) \in Nat /\ Cardinality(S) >= 1
           /\ Total(f, S) \in Nat
           /\ Total(f, S) <= f[x] + Scale * (Cardinality(S) - 1)
<1>1. Cardinality(S) \in Nat /\ Total(f, S) \in Nat
  BY FS_CardinalityType, UnitsAreFinite
<1>2. IsFiniteSet(S \ {x}) /\ Cardinality(S \ {x}) = Cardinality(S) - 1
  BY FS_RemoveElement
<1>3. Cardinality(S \ {x}) \in Nat
  BY <1>2, FS_CardinalityType
<1>4. Total(f, S) = f[x] + Total(f, S \ {x})
  BY TotalWithout
<1>5. Total(f, S \ {x}) <= Scale * Cardinality(S \ {x})
  BY <1>2, ThresholdAssumption, TotalIsBounded
<1>6. Total(f, S \ {x}) \in Nat
  BY <1>2, UnitsAreFinite
<1> QED
  BY <1>1, <1>2, <1>3, <1>4, <1>5, <1>6, ThresholdAssumption

LEMMA AScoreOfAMean ==
    ASSUME NEW S, IsFiniteSet(S), NEW x \in S, NEW f,
           \A y \in S : f[y] \in Nat /\ f[y] <= Scale,
           Total(f, S) * Den >= Num * Scale * Cardinality(S)
    PROVE  /\ f[x] * Den + Scale * Cardinality(S) * (Den - Num) >= Scale * Den
           /\ f[x] = 0 => (Cardinality(S) - 1) * Den >= Num * Cardinality(S)
<1> DEFINE K == Cardinality(S)
           t == Total(f, S)
           a == f[x]
<1>1. /\ K \in Nat /\ K >= 1 /\ t \in Nat /\ a \in Nat
      /\ t <= a + Scale * (K - 1)
      /\ t * Den >= Num * Scale * K
      /\ Scale \in Nat /\ Scale > 0 /\ Num \in Nat /\ Den \in Nat
  BY TheOthersAreBounded, ThresholdAssumption
<1> HIDE DEF K, t, a
<1>2. K - 1 \in Nat /\ Scale * (K - 1) \in Nat
  BY <1>1
<1>3. t * Den <= (a + Scale * (K - 1)) * Den
  BY <1>1, <1>2, Products
<1>4. (a + Scale * (K - 1)) * Den = a * Den + Scale * K * Den - Scale * Den
  BY <1>1
<1>5. Scale * K * (Den - Num) = Scale * K * Den - Num * Scale * K
  BY <1>1
<1>6. /\ a * Den \in Int /\ Scale * K * Den \in Int /\ Scale * Den \in Int
      /\ Num * Scale * K \in Int /\ t * Den \in Int
  BY <1>1
<1>7. a * Den + Scale * K * (Den - Num) >= Scale * Den
  BY <1>1, <1>3, <1>4, <1>5, <1>6
<1>8. ASSUME a = 0 PROVE (K - 1) * Den >= Num * K
  <2>1. Scale * ((K - 1) * Den) >= Scale * (Num * K)
    <3>1. Scale * ((K - 1) * Den) = (a + Scale * (K - 1)) * Den
      BY <1>1, <1>8
    <3>2. Scale * (Num * K) = Num * Scale * K
      BY <1>1
    <3> QED
      BY <1>1, <1>3, <1>6, <3>1, <3>2
  <2>2. (K - 1) * Den \in Int /\ Num * K \in Int
    BY <1>1
  <2>3. \A u, v \in Int : Scale * u >= Scale * v => u >= v
    BY <1>1
  <2> QED
    BY <2>1, <2>2, <2>3
<1> QED
  BY <1>7, <1>8 DEF K, t, a

-----------------------------------------------------------------------------
(* The evaluation gate                                                      *)

(* The nine files.                                                          *)
LEMMA TheOrder ==
    /\ Len(Order) = 9 /\ DOMAIN Order = 1 .. 9
    /\ File = {Order[k] : k \in 1 .. 9}
    /\ \A f \in File : \E k \in 1 .. 9 : Order[k] = f
    /\ Order[1] = "reviews" /\ Order[7] = "predictions" /\ Order[9] = "records"
    /\ "reviews" \in File /\ "checkpoint" \in File /\ "predictions" \in File /\ "records" \in File
<1>1. Len(Order) = 9 /\ DOMAIN Order = 1 .. 9
  BY DEF Order
<1>2. File = {Order[k] : k \in 1 .. 9}
  BY <1>1 DEF File
<1>3. Order[1] = "reviews" /\ Order[2] = "checkpoint" /\ Order[7] = "predictions"
      /\ Order[9] = "records"
  BY DEF Order
<1>4. 1 \in 1 .. 9 /\ 2 \in 1 .. 9 /\ 7 \in 1 .. 9 /\ 9 \in 1 .. 9
  OBVIOUS
<1> QED
  BY <1>1, <1>2, <1>3, <1>4

LEMMA CasesAreFinite ==
    /\ Len(Benchmark) \in Nat /\ DOMAIN Benchmark = Case
    /\ IsFiniteSet(Case) /\ IsFiniteSet(Task)
    /\ \A task \in Task : Of(task) \subseteq Case /\ IsFiniteSet(Of(task))
<1>1. Len(Benchmark) \in Nat /\ DOMAIN Benchmark = Case
  BY BenchmarkAssumption, LenProperties DEF Case
<1>2. IsFiniteSet(Case)
  BY <1>1, FS_Interval DEF Case
<1>3. IsFiniteSet(Task)
  <2> DEFINE f == [i \in Case |-> Benchmark[i].task]
  <2>1. Task = {f[i] : i \in Case}
    BY DEF Task
  <2> HIDE DEF f
  <2> QED
    BY <1>2, <2>1, ImageIsFinite
<1>4. \A task \in Task : Of(task) \subseteq Case /\ IsFiniteSet(Of(task))
  BY <1>2, FS_Subset DEF Of
<1> QED
  BY <1>1, <1>2, <1>3, <1>4

-----------------------------------------------------------------------------
(* The steps of the gate                                                    *)

LEMMA AManifest ==
    ASSUME NEW m, Bundled(m)
    PROVE  Manifest(ManifestOf(m)) /\ ManifestOf(m).pins = m
<1>1. ManifestOf(m).pins = m
  BY DEF ManifestOf, Bundled
<1> QED
  BY <1>1 DEF Manifest

LEMMA GateInvariantInit ==
    ASSUME GateInit
    PROVE  GateInv
<1>1. PICK b \in Bundles :
          /\ disk = [f \in File |-> b[f]]
          /\ evidence = ManifestOf(b)
          /\ gate = [at |-> "idle", caller |-> "none", named |-> ManifestOf(b),
                     read |-> ManifestOf(b), next |-> 1, content |-> NoBundle]
  BY DEF GateInit
<1>2. result = {} /\ report = {} /\ accepted = {} /\ writes = 0
  BY DEF GateInit
<1>3. Bundled(disk)
  BY <1>1 DEF Bundled, Possible
<1>4. ManifestOf(b) = ManifestOf(disk)
  <2>1. disk["checkpoint"] = b["checkpoint"] /\ disk["records"] = b["records"]
        /\ \A f \in File : disk[f] = b[f]
    BY <1>1, TheOrder
  <2> QED
    BY <2>1 DEF ManifestOf
<1>5. Manifest(ManifestOf(b))
  BY <1>3, <1>4, AManifest
<1>6. GateTypeOK
  <2>1. 1 \in 1 .. Len(Order) + 1
    BY TheOrder
  <2>2. gate.content = [f \in File |-> gate.content[f]]
    BY <1>1 DEF NoBundle
  <2>3. writes \in 0 .. MaxWrites
    BY <1>2, BundleAssumption
  <2>4. gate \in [at : {"idle", "called", "reading", "judged", "refused"},
                  caller : {"none", "publisher", "command"},
                  named : {gate.named}, read : {gate.read},
                  next : 1 .. Len(Order) + 1, content : {gate.content}]
    BY <1>1, <2>1
  <2> QED
    BY <1>1, <1>2, <1>3, <1>5, <2>2, <2>3, <2>4 DEF GateTypeOK
<1>7. ReadInv
  BY <1>1 DEF ReadInv
<1>8. JudgedInv
  BY <1>1, <1>2 DEF JudgedInv
<1> QED
  BY <1>6, <1>7, <1>8 DEF GateInv

(* A step that moves the gate on, and its parts after that.                 *)
LEMMA GateAfter ==
    ASSUME GateTypeOK,
           NEW at \in {"idle", "called", "reading", "judged", "refused"},
           NEW caller \in {"none", "publisher", "command"},
           NEW read, Manifest(read), NEW next \in 1 .. Len(Order) + 1,
           NEW content, content = [f \in File |-> content[f]],
           gate' = [at |-> at, caller |-> caller, named |-> gate.named, read |-> read,
                    next |-> next, content |-> content],
           UNCHANGED <<disk, evidence, writes>>, report' \subseteq result'
    PROVE  /\ GateTypeOK'
           /\ gate'.at = at /\ gate'.caller = caller /\ gate'.named = gate.named
           /\ gate'.read = read /\ gate'.next = next /\ gate'.content = content
<1>1. /\ gate'.at = at /\ gate'.caller = caller /\ gate'.named = gate.named
      /\ gate'.read = read /\ gate'.next = next /\ gate'.content = content
  OBVIOUS
<1>2. gate' \in [at : {"idle", "called", "reading", "judged", "refused"},
                 caller : {"none", "publisher", "command"},
                 named : {gate'.named}, read : {gate'.read},
                 next : 1 .. Len(Order) + 1, content : {gate'.content}]
  BY <1>1
<1>3. Bundled(disk') /\ Manifest(evidence') /\ writes' \in 0 .. MaxWrites
      /\ Manifest(gate'.named) /\ Manifest(gate'.read)
  BY <1>1 DEF GateTypeOK
<1>4. gate'.content = [f \in File |-> gate'.content[f]]
  BY <1>1
<1> QED
  BY <1>1, <1>2, <1>3, <1>4 DEF GateTypeOK

(* What the gate knows stays as it is while it neither reads nor judges.    *)
LEMMA NothingRead ==
    ASSUME ReadInv, gate'.next = gate.next, gate'.content = gate.content, gate'.read = gate.read,
           gate'.at \in {"idle", "called"} => gate.at \in {"idle", "called"},
           gate'.at = "judged" => gate.next = Len(Order) + 1
    PROVE  ReadInv'
<1>1. ASSUME NEW k \in 1 .. gate'.next - 1
      PROVE  /\ gate'.content[Order[k]] = gate'.read.pins[Order[k]]
             /\ Holds(Order[k], gate'.content[Order[k]], gate'.read)
  BY DEF ReadInv
<1> QED
  BY <1>1 DEF ReadInv

LEMMA NothingJudged ==
    ASSUME JudgedInv, gate.at # "judged", gate'.at # "judged",
           UNCHANGED <<result, accepted>>
    PROVE  JudgedInv'
  BY DEF JudgedInv

LEMMA GateStands ==
    ASSUME GateInv, UNCHANGED <<gate, result>>,
           Bundled(disk'), Manifest(evidence'), writes' \in 0 .. MaxWrites,
           report' \subseteq result',
           \A e \in accepted' : \E r \in result : r.passed /\ r.evidence = e
    PROVE  GateInv'
<1>1. GateTypeOK'
  BY DEF GateInv, GateTypeOK
<1>2. ReadInv'
  BY NothingRead DEF GateInv, ReadInv
<1>3. JudgedInv'
  BY DEF GateInv, JudgedInv
<1> QED
  BY <1>1, <1>2, <1>3 DEF GateInv

LEMMA GateInvariantStep ==
    ASSUME GateInv, [GateNext]_gateVars
    PROVE  GateInv'
<1>1. GateTypeOK /\ ReadInv /\ JudgedInv
  BY DEF GateInv
<1>2. /\ Bundled(disk) /\ Manifest(evidence) /\ Manifest(gate.named) /\ Manifest(gate.read)
      /\ gate.content = [f \in File |-> gate.content[f]]
      /\ report \subseteq result /\ writes \in 0 .. MaxWrites
      /\ \A e \in accepted : \E r \in result : r.passed /\ r.evidence = e
      /\ gate.next \in 1 .. Len(Order) + 1
      /\ gate.caller \in {"none", "publisher", "command"}
  BY <1>1 DEF GateTypeOK, JudgedInv
<1>3. gate \in [at : {"idle", "called", "reading", "judged", "refused"},
                caller : {"none", "publisher", "command"},
                named : {gate.named}, read : {gate.read},
                next : 1 .. Len(Order) + 1, content : {gate.content}]
  BY <1>1 DEF GateTypeOK
<1>4. Len(Order) = 9
  BY TheOrder
<1>5. CASE PublisherReads \/ CommandCalls
  <2>1. gate.at = "idle" /\ UNCHANGED <<disk, evidence, result, report, accepted, writes>>
    BY <1>5 DEF PublisherReads, CommandCalls, GateAt
  <2>2. PICK at \in {"called", "refused"}, caller \in {"publisher", "command"} :
            gate' = [at |-> at, caller |-> caller, named |-> gate.named, read |-> gate.read,
                     next |-> gate.next, content |-> gate.content]
    <3>1. CASE PublisherReads
      <4>1. gate' = [gate EXCEPT !.caller = "publisher",
                                 !.at = IF evidence = gate.named THEN "called" ELSE "refused"]
        BY <3>1 DEF PublisherReads
      <4> QED
        BY <1>3, <4>1
    <3>2. CASE CommandCalls
      BY <1>3, <3>2 DEF CommandCalls
    <3> QED
      BY <1>5, <3>1, <3>2
  <2>3. /\ GateTypeOK' /\ gate'.at = at /\ gate'.next = gate.next
        /\ gate'.content = gate.content /\ gate'.read = gate.read
    BY <1>1, <1>2, <2>1, <2>2, GateAfter
  <2>4. ReadInv'
    BY <1>1, <2>1, <2>2, <2>3, NothingRead
  <2>5. JudgedInv'
    BY <1>1, <2>1, <2>2, <2>3, NothingJudged
  <2> QED
    BY <2>3, <2>4, <2>5 DEF GateInv
<1>6. CASE ReadEvidence
  <2>1. gate.at = "called" /\ UNCHANGED <<disk, evidence, result, report, accepted, writes>>
    BY <1>6 DEF ReadEvidence, GateAt
  <2>2. PICK at \in {"reading", "refused"} :
            gate' = [at |-> at, caller |-> gate.caller, named |-> gate.named, read |-> evidence,
                     next |-> gate.next, content |-> gate.content]
    BY <1>3, <1>6 DEF ReadEvidence
  <2>3. /\ GateTypeOK' /\ gate'.at = at /\ gate'.next = gate.next
    BY <1>1, <1>2, <2>1, <2>2, GateAfter
  <2>4. gate.next = 1
    BY <1>1, <2>1 DEF ReadInv
  <2>5. ReadInv'
    BY <2>2, <2>3, <2>4 DEF ReadInv
  <2>6. JudgedInv'
    BY <1>1, <2>1, <2>2, <2>3, NothingJudged
  <2> QED
    BY <2>3, <2>5, <2>6 DEF GateInv
<1>7. CASE ReadFile
  <2> DEFINE n == gate.next
             content == [gate.content EXCEPT ![NextFile] = disk[NextFile]]
  <2>1. /\ gate.at = "reading" /\ UNCHANGED <<disk, evidence, result, report, accepted, writes>>
        /\ n \in 1 .. 9 /\ disk[Order[n]] = gate.read.pins[Order[n]]
        /\ Holds(Order[n], disk[Order[n]], gate.read)
    BY <1>7, TheOrder DEF ReadFile, GateAt, NextFile
  <2>2. gate' = [at |-> "reading", caller |-> gate.caller, named |-> gate.named,
                 read |-> gate.read, next |-> n + 1, content |-> content]
    BY <1>3, <1>7, <2>1 DEF ReadFile
  <2>3. /\ content = [f \in File |-> content[f]]
        /\ content[Order[n]] = disk[Order[n]]
        /\ \A f \in File : f # Order[n] => content[f] = gate.content[f]
    BY <1>2, <2>1, TheOrder DEF NextFile
  <2> HIDE DEF content
  <2>4. n + 1 \in 1 .. Len(Order) + 1
    BY <1>4, <2>1
  <2>5. /\ GateTypeOK' /\ gate'.at = "reading" /\ gate'.next = n + 1
        /\ gate'.content = content /\ gate'.read = gate.read
    <3> HIDE DEF n
    <3> QED
      BY <1>1, <1>2, <2>1, <2>2, <2>3, <2>4, GateAfter
  <2>6. ASSUME NEW k \in 1 .. n
        PROVE  /\ content[Order[k]] = gate.read.pins[Order[k]]
               /\ Holds(Order[k], content[Order[k]], gate.read)
    <3>1. CASE Order[k] = Order[n]
      BY <2>1, <2>3, <3>1
    <3>2. CASE Order[k] # Order[n]
      <4>1. k \in 1 .. n - 1 /\ k \in 1 .. 9
        BY <1>2, <1>4, <2>1, <3>2
      <4>2. content[Order[k]] = gate.content[Order[k]]
        BY <2>3, <3>2, <4>1, TheOrder
      <4> QED
        BY <1>1, <4>1, <4>2 DEF ReadInv
    <3> QED
      BY <3>1, <3>2
  <2>7. ReadInv'
    <3>1. 1 .. gate'.next - 1 = 1 .. n
      BY <2>1, <2>5
    <3>2. ASSUME NEW k \in 1 .. gate'.next - 1
          PROVE  /\ gate'.content[Order[k]] = gate'.read.pins[Order[k]]
                 /\ Holds(Order[k], gate'.content[Order[k]], gate'.read)
      <4>1. /\ content[Order[k]] = gate.read.pins[Order[k]]
            /\ Holds(Order[k], content[Order[k]], gate.read)
        BY <2>6, <3>1
      <4> QED
        BY <2>5, <4>1
    <3> QED
      BY <2>5, <3>2 DEF ReadInv
  <2>8. JudgedInv'
    BY <1>1, <2>1, <2>5, NothingJudged
  <2> QED
    BY <2>5, <2>7, <2>8 DEF GateInv
<1>8. CASE RefuseFile
  <2>1. gate.at = "reading" /\ UNCHANGED <<disk, evidence, result, report, accepted, writes>>
    BY <1>8 DEF RefuseFile, GateAt
  <2>2. gate' = [at |-> "refused", caller |-> gate.caller, named |-> gate.named,
                 read |-> gate.read, next |-> gate.next, content |-> gate.content]
    BY <1>3, <1>8 DEF RefuseFile
  <2>3. /\ GateTypeOK' /\ gate'.at = "refused" /\ gate'.next = gate.next
        /\ gate'.content = gate.content /\ gate'.read = gate.read
    BY <1>1, <1>2, <2>1, <2>2, GateAfter
  <2>4. ReadInv'
    BY <1>1, <2>3, NothingRead
  <2>5. JudgedInv'
    BY <1>1, <2>1, <2>3, NothingJudged
  <2> QED
    BY <2>3, <2>4, <2>5 DEF GateInv
<1>9. CASE Judge
  <2>1. /\ gate.at = "reading" /\ gate.next = Len(Order) + 1
        /\ UNCHANGED <<disk, evidence, report, accepted, writes>>
        /\ result' = {Judgement(gate.read, gate.content)}
    BY <1>9 DEF Judge, GateAt
  <2>2. gate' = [at |-> "judged", caller |-> gate.caller, named |-> gate.named,
                 read |-> gate.read, next |-> gate.next, content |-> gate.content]
    BY <1>3, <1>9 DEF Judge
  <2>3. result = {} /\ report = {} /\ accepted = {}
    BY <1>1, <1>2, <2>1 DEF JudgedInv
  <2>4. /\ GateTypeOK' /\ gate'.at = "judged" /\ gate'.next = gate.next
        /\ gate'.content = gate.content /\ gate'.read = gate.read
    BY <1>1, <1>2, <2>1, <2>2, <2>3, GateAfter
  <2>5. ReadInv'
    BY <1>1, <2>1, <2>4, NothingRead
  <2>6. JudgedInv'
    <3> HIDE DEF Judgement
    <3> QED
      BY <2>1, <2>3, <2>4 DEF JudgedInv
  <2> QED
    BY <2>4, <2>5, <2>6 DEF GateInv
<1>10. CASE WriteReport
  BY <1>2, <1>10, GateStands DEF WriteReport
<1>11. CASE Accept
  <2>1. gate.at = "judged" /\ UNCHANGED <<disk, evidence, gate, result, report, writes>>
        /\ accepted' = {gate.named} /\ \A r \in result : r.passed /\ r.evidence = gate.named
    BY <1>11 DEF Accept, GateAt
  <2>2. result # {}
    BY <1>1, <2>1 DEF JudgedInv
  <2>3. \A e \in accepted' : \E r \in result : r.passed /\ r.evidence = e
    BY <2>1, <2>2
  <2> QED
    BY <1>2, <2>1, <2>3, GateStands
<1>12. ASSUME NEW f \in File, NEW content \in Spare[f], WriteFile(f, content)
       PROVE  GateInv'
  <2>1. UNCHANGED <<evidence, gate, result, report, accepted>>
        /\ disk' = [disk EXCEPT ![f] = content]
    BY <1>12 DEF WriteFile
  <2>2. writes' \in 0 .. MaxWrites
    BY <1>2, <1>12, BundleAssumption DEF WriteFile, Others
  <2>3. Bundled(disk')
    BY <1>2, <2>1 DEF Bundled, Possible
  <2> QED
    BY <1>2, <2>1, <2>2, <2>3, GateStands
<1>13. CASE WriteEvidence
  <2>1. UNCHANGED <<disk, gate, result, report, accepted>> /\ evidence' = ManifestOf(disk)
    BY <1>13 DEF WriteEvidence
  <2>2. writes' \in 0 .. MaxWrites
    BY <1>2, <1>13, BundleAssumption DEF WriteEvidence, Others
  <2>3. Manifest(evidence')
    BY <1>2, <2>1, AManifest
  <2> QED
    BY <1>2, <2>1, <2>2, <2>3, GateStands
<1>14. CASE UNCHANGED gateVars
  BY <1>2, <1>14, GateStands DEF gateVars
<1> QED
  BY <1>5, <1>6, <1>7, <1>8, <1>9, <1>10, <1>11, <1>12, <1>13, <1>14 DEF GateNext

(* The types, what was read and what was judged.                            *)
THEOREM GateIsInductive == GateSpec => []GateInv
<1>1. GateInit => GateInv
  BY GateInvariantInit
<1>2. GateInv /\ [GateNext]_gateVars => GateInv'
  BY GateInvariantStep
<1> QED
  BY <1>1, <1>2, PTL DEF GateSpec

-----------------------------------------------------------------------------
(* A pass                                                                   *)

(* What is judged is what is pinned.                                        *)
LEMMA JudgedIsPinned ==
    ASSUME GateInv, NEW r \in result
    PROVE  /\ r = Judgement(gate.read, gate.content)
           /\ gate.content = gate.read.pins
           /\ Manifest(gate.read)
           /\ \A f \in File : Holds(f, gate.content[f], gate.read)
<1>1. gate.at = "judged" /\ r = Judgement(gate.read, gate.content)
  BY DEF GateInv, JudgedInv
<1>2. gate.next = 10
  BY <1>1, TheOrder DEF GateInv, ReadInv
<1>3. \A k \in 1 .. 9 : /\ gate.content[Order[k]] = gate.read.pins[Order[k]]
                        /\ Holds(Order[k], gate.content[Order[k]], gate.read)
  <2>1. 1 .. gate.next - 1 = 1 .. 9
    BY <1>2
  <2> QED
    BY <2>1 DEF GateInv, ReadInv
<1>4. \A f \in File : gate.content[f] = gate.read.pins[f] /\ Holds(f, gate.content[f], gate.read)
  BY <1>3, TheOrder
<1>5. /\ gate.content = [f \in File |-> gate.content[f]] /\ Manifest(gate.read)
      /\ gate.read.pins = [f \in File |-> gate.read.pins[f]]
  BY DEF GateInv, GateTypeOK, Manifest, Bundled
<1>6. gate.content = gate.read.pins
  BY <1>4, <1>5
<1> QED
  BY <1>1, <1>4, <1>5, <1>6

LEMMA APassIsClean ==
    ASSUME GateInv
    PROVE  PassedIsClean
<1> SUFFICES ASSUME NEW r \in result, r.passed
             PROVE  LET pins == r.evidence.pins IN
                    /\ gate.content = pins
                    /\ \A name \in Review : pins["reviews"][name].passed
                                            /\ pins["reviews"][name].checkpoint = pins["checkpoint"]
                    /\ \A training \in pins["records"] :
                           \A t \in training.texts, i \in Case :
                               Benchmark[i].input \notin Contains[t] /\ Benchmark[i].prompt # t
  BY DEF PassedIsClean
<1> DEFINE pins == r.evidence.pins
<1>1. /\ r = Judgement(gate.read, gate.content) /\ gate.content = gate.read.pins
      /\ Manifest(gate.read) /\ \A f \in File : Holds(f, gate.content[f], gate.read)
  BY JudgedIsPinned
<1>2. r.evidence = gate.read /\ (r.passed <=> OverlapCount(gate.content["records"]) = 0)
  BY <1>1 DEF Judgement
<1>3. gate.content = pins
  BY <1>1, <1>2
<1>4. ReviewsHold(pins["reviews"], gate.read)
  BY <1>1, <1>3, TheOrder DEF Holds
<1>5. gate.read.checkpoint = pins["checkpoint"]
  BY <1>1, <1>2 DEF Manifest, ManifestOf
<1>6. \A name \in Review : pins["reviews"][name].passed
                           /\ pins["reviews"][name].checkpoint = pins["checkpoint"]
  BY <1>4, <1>5 DEF ReviewsHold
<1>7. IsFiniteSet(pins["records"])
  <2>1. pins["records"] \in Possible("records")
    BY <1>1, <1>2, TheOrder DEF Manifest, Bundled
  <2> QED
    BY <2>1, BundleAssumption
<1>8. OverlapCount(pins["records"]) = 0
  BY <1>2, <1>3
<1> HIDE DEF pins
<1>9. {training \in pins["records"] : Overlaps(training)} = {}
  <2> DEFINE overlapping == {training \in pins["records"] : Overlaps(training)}
  <2>1. Cardinality(overlapping) = 0
    BY <1>8 DEF OverlapCount
  <2>2. overlapping \subseteq pins["records"]
    OBVIOUS
  <2> HIDE DEF overlapping
  <2>3. IsFiniteSet(overlapping)
    BY <1>7, <2>2, FS_Subset
  <2>4. overlapping = {}
    BY <2>1, <2>3, FS_EmptySet
  <2> QED
    BY <2>4 DEF overlapping
<1>10. ASSUME NEW training \in pins["records"], NEW t \in training.texts, NEW i \in Case
       PROVE  Benchmark[i].input \notin Contains[t] /\ Benchmark[i].prompt # t
  <2>1. ~ Overlaps(training)
    BY <1>9
  <2>2. Benchmark[i] \in Range(Benchmark)
    BY CasesAreFinite DEF Range
  <2> QED
    BY <2>1, <2>2 DEF Overlaps
<1> QED
  BY <1>3, <1>6, <1>10 DEF pins

LEMMA AnAcceptedOneIsJudged ==
    ASSUME GateInv
    PROVE  AcceptedIsJudged
<1> SUFFICES ASSUME NEW e \in accepted
             PROVE  \E r \in result : r.passed /\ r.evidence = e /\ gate.content = e.pins
  BY DEF AcceptedIsJudged
<1>1. PICK r \in result : r.passed /\ r.evidence = e
  BY DEF GateInv, JudgedInv
<1>2. gate.content = gate.read.pins /\ r = Judgement(gate.read, gate.content)
  BY JudgedIsPinned
<1>3. gate.content = e.pins
  BY <1>1, <1>2 DEF Judgement
<1> QED
  BY <1>1, <1>3

-----------------------------------------------------------------------------
(* The target                                                               *)

LEMMA ATargetCovers ==
    ASSUME GateInv
    PROVE  TargetCoversEveryClass
<1> SUFFICES ASSUME NEW r \in result, r.target, NEW task \in Task
             PROVE  LET predicted == TaskPredicted(r.evidence.pins["predictions"])
                        reference == ReferenceLabels(Of(task), TaskTruth)
                        observed == ObservedLabels(Of(task), TaskTruth, predicted)
                    IN
                    /\ \A l \in reference :
                           Recall(Of(task), TaskTruth, predicted, l) * Den
                               + Scale * Cardinality(reference) * (Den - Num) >= Scale * Den
                    /\ (\E i \in Of(task) : predicted[i] = Invalid) =>
                           (Cardinality(observed) - 1) * Den >= Num * Cardinality(observed)
  BY DEF TargetCoversEveryClass
<1> DEFINE predicted == TaskPredicted(r.evidence.pins["predictions"])
           reference == ReferenceLabels(Of(task), TaskTruth)
           observed == ObservedLabels(Of(task), TaskTruth, predicted)
           recalls == [l \in reference |-> Recall(Of(task), TaskTruth, predicted, l)]
           f1s == [l \in observed |-> F1(Of(task), TaskTruth, predicted, l)]
<1>1. MeetsAll(ScopeReport(Of(task), TaskTruth, predicted))
  <2>1. r.evidence.pins = gate.content /\ (r.target <=> TargetMet(gate.content["predictions"]))
    BY JudgedIsPinned DEF Judgement
  <2> QED
    BY <2>1 DEF TargetMet, TaskReport
<1>2. /\ BalancedAccuracy(Of(task), TaskTruth, predicted).sum * Den
             >= Num * Scale * BalancedAccuracy(Of(task), TaskTruth, predicted).of
      /\ MacroF1(Of(task), TaskTruth, predicted).sum * Den
             >= Num * Scale * MacroF1(Of(task), TaskTruth, predicted).of
  <2> HIDE DEF predicted
  <2> QED
    BY <1>1 DEF MeetsAll, Meets, ScopeReport
<1>3. /\ BalancedAccuracy(Of(task), TaskTruth, predicted).of = Cardinality(reference)
      /\ MacroF1(Of(task), TaskTruth, predicted).of = Cardinality(observed)
  BY DEF BalancedAccuracy, MacroF1
<1>4. IsFiniteSet(Of(task))
  BY CasesAreFinite
<1> HIDE DEF predicted
<1>5. /\ BalancedAccuracy(Of(task), TaskTruth, predicted).sum = Total(recalls, reference)
      /\ MacroF1(Of(task), TaskTruth, predicted).sum = Total(f1s, observed)
  BY <1>4, SumsOfScores
<1>6. IsFiniteSet(reference) /\ IsFiniteSet(observed)
  BY <1>4, LabelsAreFinite
<1>7. /\ \A l \in reference : recalls[l] \in Nat /\ recalls[l] <= Scale
      /\ \A l \in observed : f1s[l] \in Nat /\ f1s[l] <= Scale
  BY <1>4, Scores
<1>8. /\ Total(recalls, reference) * Den >= Num * Scale * Cardinality(reference)
      /\ Total(f1s, observed) * Den >= Num * Scale * Cardinality(observed)
  BY <1>2, <1>3, <1>5
<1>9. ASSUME NEW l \in reference
      PROVE  Recall(Of(task), TaskTruth, predicted, l) * Den
                 + Scale * Cardinality(reference) * (Den - Num) >= Scale * Den
  <2>1. recalls[l] = Recall(Of(task), TaskTruth, predicted, l)
    OBVIOUS
  <2> HIDE DEF recalls, reference
  <2> QED
    BY <1>6, <1>7, <1>8, <2>1, AScoreOfAMean
<1>10. ASSUME NEW i \in Of(task), predicted[i] = Invalid
       PROVE  (Cardinality(observed) - 1) * Den >= Num * Cardinality(observed)
  <2>1. Invalid \in observed
    BY <1>10 DEF ObservedLabels
  <2>2. f1s[Invalid] = 0
    <3>1. Samples(Of(task), TaskTruth, Invalid) = {}
      BY BenchmarkAssumption DEF Samples, TaskTruth, Of
    <3>2. TruePositives(Of(task), TaskTruth, predicted, Invalid) = 0
      BY <3>1, FS_EmptySet DEF TruePositives
    <3> DEFINE n == Cardinality(Samples(Of(task), TaskTruth, Invalid))
                        + Cardinality(Samples(Of(task), predicted, Invalid))
    <3>3. F1(Of(task), TaskTruth, predicted, Invalid) = (Scale * 2 * 0) \div n
      BY <3>2 DEF F1
    <3>4. n \in Nat /\ n > 0
      BY <1>4, <2>1, Counts
    <3> HIDE DEF n
    <3>5. (Scale * 2 * 0) \div n = 0
      BY <3>4, ThresholdAssumption
    <3> QED
      BY <2>1, <3>3, <3>5
  <2> HIDE DEF f1s, observed
  <2> QED
    BY <1>6, <1>7, <1>8, <2>1, <2>2, AScoreOfAMean
<1> QED
  BY <1>9, <1>10 DEF predicted

-----------------------------------------------------------------------------
(* The mean over the tasks                                                  *)

(* A function that has for each task the total of its group.                *)
LEMMA SumOfGroups ==
    ASSUME NEW S, IsFiniteSet(S), NEW group, \A x \in S : group[x] \in Task,
           NEW f, \A x \in S : f[x] \in Nat,
           NEW g, DOMAIN g = Task,
           \A t \in Task : g[t] = Total(f, {x \in S : group[x] = t})
    PROVE  SumFunction(g) = Total(f, S)
<1> DEFINE h == [t \in Task |-> Total(f, {x \in S : group[x] = t})]
<1>1. IsFiniteSet(Task)
  BY CasesAreFinite
<1>2. Total(f, S) = Total(h, Task)
  BY <1>1, TotalInGroups
<1>3. ASSUME NEW t \in Task PROVE g[t] = h[t] /\ g[t] \in Nat
  <2> DEFINE A == {x \in S : group[x] = t}
  <2>1. IsFiniteSet(A) /\ \A x \in A : f[x] \in Nat
    BY FS_Subset
  <2>2. g[t] = Total(f, A)
    OBVIOUS
  <2> HIDE DEF A
  <2>3. Total(f, A) \in Nat
    BY <2>1, UnitsAreFinite
  <2> QED
    BY <2>2, <2>3 DEF A
<1> HIDE DEF h
<1>4. Total(g, Task) = Total(h, Task)
  BY <1>3, TotalOfSame
<1>5. SumFunction(g) = Total(g, Task)
  BY <1>1, <1>3, SumFunctionIsTotal
<1> QED
  BY <1>2, <1>4, <1>5

LEMMA CountOfGroups ==
    ASSUME NEW S, IsFiniteSet(S), NEW group, \A x \in S : group[x] \in Task,
           NEW c \in Nat, NEW g, DOMAIN g = Task,
           \A t \in Task : g[t] = c * Cardinality({x \in S : group[x] = t})
    PROVE  SumFunction(g) = c * Cardinality(S)
<1> DEFINE f == [x \in S |-> c]
<1>1. \A x \in S : f[x] = c
  OBVIOUS
<1> HIDE DEF f
<1>2. \A x \in S : f[x] \in Nat
  BY <1>1
<1>3. ASSUME NEW t \in Task PROVE g[t] = Total(f, {x \in S : group[x] = t})
  <2> DEFINE A == {x \in S : group[x] = t}
  <2>1. IsFiniteSet(A) /\ \A x \in A : f[x] = c
    BY <1>1, FS_Subset
  <2>2. g[t] = c * Cardinality(A)
    OBVIOUS
  <2> HIDE DEF A
  <2>3. Total(f, A) = c * Cardinality(A)
    BY <2>1, TotalOfEqual
  <2> QED
    BY <2>2, <2>3 DEF A
<1>4. SumFunction(g) = Total(f, S)
  BY <1>2, <1>3, SumOfGroups
<1>5. Total(f, S) = c * Cardinality(S)
  BY <1>1, TotalOfEqual
<1> QED
  BY <1>4, <1>5

(* Labels of a task, as labels of that task over all of them.               *)
Tag(t, L) == [l \in L |-> <<t, l>>]
Tagged(t, L) == {<<t, l>> : l \in L}

LEMMA TagIsBijection ==
    ASSUME NEW t, NEW L
    PROVE  Tag(t, L) \in Bijection(L, Tagged(t, L))
  BY DEF Tag, Tagged, Bijection, Injection, Surjection, IsInjective

LEMMA AsManyTagged ==
    ASSUME NEW t, NEW L, IsFiniteSet(L)
    PROVE  Cardinality(Tagged(t, L)) = Cardinality(L)
<1>1. ExistsBijection(L, Tagged(t, L))
  BY TagIsBijection DEF ExistsBijection
<1> QED
  BY <1>1, FS_Bijection

LEMMA LabelsOfTasks ==
    ASSUME NEW truth, NEW predicted
    PROVE  /\ \A x \in ReferenceLabels(Case, TaskLabels(truth)) : x[1] \in Task
           /\ \A x \in ObservedLabels(Case, TaskLabels(truth), TaskLabels(predicted)) :
                  x[1] \in Task
           /\ \A t \in Task :
                  /\ {x \in ReferenceLabels(Case, TaskLabels(truth)) : x[1] = t} =
                         Tagged(t, ReferenceLabels(Of(t), truth))
                  /\ {x \in ObservedLabels(Case, TaskLabels(truth), TaskLabels(predicted)) :
                          x[1] = t} =
                         Tagged(t, ObservedLabels(Of(t), truth, predicted))
<1>1. ASSUME NEW labels, NEW t \in Task
      PROVE  {x \in {TaskLabels(labels)[i] : i \in Case} : x[1] = t} =
                 Tagged(t, {labels[i] : i \in Of(t)})
  <2>1. \A i \in Case : TaskLabels(labels)[i] = <<Benchmark[i].task, labels[i]>>
    BY DEF TaskLabels
  <2>2. \A i : i \in Of(t) <=> i \in Case /\ Benchmark[i].task = t
    BY DEF Of
  <2>3. ASSUME NEW x \in {TaskLabels(labels)[i] : i \in Case}, x[1] = t
        PROVE  x \in {<<t, l>> : l \in {labels[i] : i \in Of(t)}}
    <3>1. PICK i \in Case : x = TaskLabels(labels)[i]
      OBVIOUS
    <3>2. x = <<t, labels[i]>> /\ i \in Of(t)
      BY <2>1, <2>2, <2>3, <3>1
    <3> QED
      BY <3>2
  <2>4. ASSUME NEW i \in Of(t)
        PROVE  <<t, labels[i]>> \in {TaskLabels(labels)[j] : j \in Case}
    BY <2>1, <2>2
  <2>5. \A l : <<t, l>>[1] = t
    OBVIOUS
  <2> QED
    BY <2>3, <2>4, <2>5 DEF Tagged
<1>2. ASSUME NEW labels, NEW x \in {TaskLabels(labels)[i] : i \in Case}
      PROVE  x[1] \in Task
  BY DEF TaskLabels, Task
<1> QED
  BY <1>1, <1>2 DEF ReferenceLabels, ObservedLabels, Tagged

(* A label of a task has the samples of the task, and so its scores.        *)
LEMMA ScoresOfTasks ==
    ASSUME NEW truth, NEW predicted, NEW t \in Task, NEW l
    PROVE  /\ Recall(Case, TaskLabels(truth), TaskLabels(predicted), <<t, l>>) =
                  Recall(Of(t), truth, predicted, l)
           /\ F1(Case, TaskLabels(truth), TaskLabels(predicted), <<t, l>>) =
                  F1(Of(t), truth, predicted, l)
<1>1. ASSUME NEW labels
      PROVE  Samples(Case, TaskLabels(labels), <<t, l>>) = Samples(Of(t), labels, l)
  BY DEF Samples, TaskLabels, Of
<1>2. TruePositives(Case, TaskLabels(truth), TaskLabels(predicted), <<t, l>>) =
          TruePositives(Of(t), truth, predicted, l)
  BY <1>1 DEF TruePositives
<1> QED
  BY <1>1, <1>2 DEF Recall, F1

(* The scores of the labels of all tasks, task by task.                     *)
LEMMA TotalOfTasks ==
    ASSUME NEW S, IsFiniteSet(S), \A x \in S : x[1] \in Task,
           NEW f, \A x \in S : f[x] \in Nat,
           NEW L, \A t \in Task : IsFiniteSet(L[t]) /\ {x \in S : x[1] = t} = Tagged(t, L[t]),
           NEW h, \A t \in Task : \A l \in L[t] : f[<<t, l>>] = h[t][l],
           NEW g, DOMAIN g = Task, \A t \in Task : g[t] = Total(h[t], L[t])
    PROVE  SumFunction(g) = Total(f, S)
<1> DEFINE group == [x \in S |-> x[1]]
<1>1. \A x \in S : group[x] = x[1] /\ group[x] \in Task
  OBVIOUS
<1> HIDE DEF group
<1>2. ASSUME NEW t \in Task PROVE g[t] = Total(f, {x \in S : group[x] = t})
  <2> DEFINE M == L[t]
             A == Tagged(t, M)
             b == Tag(t, M)
  <2>1. {x \in S : group[x] = t} = A
    BY <1>1
  <2>2. b \in Bijection(M, A)
    BY TagIsBijection
  <2>3. \A l \in L[t] : <<t, l>> \in S
    BY <1>1, <2>1 DEF Tagged
  <2>4. \A l \in L[t] : h[t][l] \in Nat /\ f[b[l]] = h[t][l]
    BY <2>3 DEF Tag
  <2> HIDE DEF A, b
  <2>5. IsFiniteSet(M) /\ \A l \in M : h[t][l] \in Nat /\ f[b[l]] = h[t][l]
    BY <2>4
  <2>6. Total(h[t], M) = Total(f, A)
    <3> HIDE DEF M
    <3> QED
      BY <2>2, <2>5, TotalThroughBijection
  <2> QED
    BY <2>1, <2>6
<1> QED
  BY <1>1, <1>2, SumOfGroups

(* A metric of all tasks and of each.                                       *)
LEMMA MetricsOfTasks ==
    ASSUME NEW truth, NEW predicted
    PROVE  LET overall == ScopeReport(Case, TaskLabels(truth), TaskLabels(predicted))
               tasks == [task \in Task |-> ScopeReport(Of(task), truth, predicted)]
           IN
           \A metric \in {"accuracy", "balanced", "macro_f1"} :
               /\ overall[metric].sum = SumFunction([task \in Task |-> tasks[task][metric].sum])
               /\ overall[metric].of = SumFunction([task \in Task |-> tasks[task][metric].of])
<1> DEFINE T == TaskLabels(truth)
           P == TaskLabels(predicted)
           tasks == [task \in Task |-> ScopeReport(Of(task), truth, predicted)]
           taskOf == [i \in Case |-> Benchmark[i].task]
           SumsOf(metric) == [t \in Task |-> tasks[t][metric].sum]
           CountsOf(metric) == [t \in Task |-> tasks[t][metric].of]
<1>1. IsFiniteSet(Case) /\ \A t \in Task : IsFiniteSet(Of(t))
  BY CasesAreFinite
<1>2. \A i \in Case : taskOf[i] \in Task
  BY DEF Task
<1>3. Scale \in Nat /\ 1 \in Nat
  BY ThresholdAssumption
<1>4. Accuracy(Case, T, P).sum = SumFunction(SumsOf("accuracy"))
  <2> DEFINE S == Hits(Case, T, P)
             g == SumsOf("accuracy")
  <2>1. S \subseteq Case
    BY DEF Hits
  <2>2. IsFiniteSet(S) /\ \A i \in S : taskOf[i] \in Task
    BY <1>1, <1>2, <2>1, FS_Subset
  <2>3. ASSUME NEW t \in Task PROVE {i \in S : taskOf[i] = t} = Hits(Of(t), truth, predicted)
    BY DEF Hits, TaskLabels, Of
  <2>4. \A t \in Task : g[t] = Scale * Cardinality(Hits(Of(t), truth, predicted))
    BY DEF ScopeReport, Accuracy
  <2>5. DOMAIN g = Task
    OBVIOUS
  <2> HIDE DEF S, g, taskOf
  <2>6. \A t \in Task : g[t] = Scale * Cardinality({i \in S : taskOf[i] = t})
    BY <2>3, <2>4
  <2>7. SumFunction(g) = Scale * Cardinality(S)
    BY <1>3, <2>2, <2>5, <2>6, CountOfGroups
  <2> QED
    BY <2>7 DEF S, g, Accuracy
<1>5. Accuracy(Case, T, P).of = SumFunction(CountsOf("accuracy"))
  <2> DEFINE g == CountsOf("accuracy")
  <2>1. ASSUME NEW t \in Task PROVE {i \in Case : taskOf[i] = t} = Of(t)
    BY DEF Of
  <2>2. \A t \in Task : g[t] = Cardinality(Of(t))
    BY DEF ScopeReport, Accuracy
  <2>3. \A t \in Task : Cardinality(Of(t)) \in Nat
    BY <1>1, FS_CardinalityType
  <2>4. ASSUME NEW t \in Task PROVE g[t] = 1 * Cardinality({i \in Case : taskOf[i] = t})
    <3>1. g[t] = Cardinality({i \in Case : taskOf[i] = t})
      BY <2>1, <2>2
    <3>2. g[t] \in Nat
      BY <2>2, <2>3
    <3> HIDE DEF g, taskOf
    <3> QED
      BY <3>1, <3>2
  <2>5. DOMAIN g = Task
    OBVIOUS
  <2>6. Cardinality(Case) \in Nat
    BY <1>1, FS_CardinalityType
  <2> HIDE DEF g, taskOf
  <2>7. SumFunction(g) = 1 * Cardinality(Case)
    BY <1>1, <1>2, <1>3, <2>4, <2>5, CountOfGroups
  <2>8. Accuracy(Case, T, P).of = Cardinality(Case)
    BY DEF Accuracy
  <2> QED
    BY <2>6, <2>7, <2>8 DEF g
<1>6. BalancedAccuracy(Case, T, P).sum = SumFunction(SumsOf("balanced"))
  <2> DEFINE S == ReferenceLabels(Case, T)
             L == [t \in Task |-> ReferenceLabels(Of(t), truth)]
             f == [x \in S |-> Recall(Case, T, P, x)]
             h == [t \in Task |-> [l \in L[t] |-> Recall(Of(t), truth, predicted, l)]]
             g == SumsOf("balanced")
  <2>1. IsFiniteSet(S) /\ \A t \in Task : IsFiniteSet(L[t])
    BY <1>1, LabelsAreFinite
  <2>2. /\ \A x \in S : x[1] \in Task
        /\ \A t \in Task : {x \in S : x[1] = t} = Tagged(t, L[t])
    BY LabelsOfTasks
  <2>3. \A x \in S : f[x] \in Nat
    BY <1>1, Scores
  <2>4. ASSUME NEW t \in Task, NEW l \in L[t] PROVE f[<<t, l>>] = h[t][l]
    <3>1. <<t, l>> \in S
      BY <2>2 DEF Tagged
    <3> QED
      BY <3>1, ScoresOfTasks
  <2>5. ASSUME NEW t \in Task PROVE g[t] = Total(h[t], L[t])
    <3>1. g[t] = BalancedAccuracy(Of(t), truth, predicted).sum
      BY DEF ScopeReport
    <3> QED
      BY <1>1, <3>1, SumsOfScores
  <2>6. DOMAIN g = Task
    OBVIOUS
  <2>7. BalancedAccuracy(Case, T, P).sum = Total(f, S)
    BY <1>1, SumsOfScores
  <2> HIDE DEF S, L, f, h, g
  <2>8. SumFunction(g) = Total(f, S)
    BY <2>1, <2>2, <2>3, <2>4, <2>5, <2>6, TotalOfTasks
  <2> QED
    BY <2>7, <2>8 DEF g
<1>7. MacroF1(Case, T, P).sum = SumFunction(SumsOf("macro_f1"))
  <2> DEFINE S == ObservedLabels(Case, T, P)
             L == [t \in Task |-> ObservedLabels(Of(t), truth, predicted)]
             f == [x \in S |-> F1(Case, T, P, x)]
             h == [t \in Task |-> [l \in L[t] |-> F1(Of(t), truth, predicted, l)]]
             g == SumsOf("macro_f1")
  <2>1. IsFiniteSet(S) /\ \A t \in Task : IsFiniteSet(L[t])
    BY <1>1, LabelsAreFinite
  <2>2. /\ \A x \in S : x[1] \in Task
        /\ \A t \in Task : {x \in S : x[1] = t} = Tagged(t, L[t])
    BY LabelsOfTasks
  <2>3. \A x \in S : f[x] \in Nat
    BY <1>1, Scores
  <2>4. ASSUME NEW t \in Task, NEW l \in L[t] PROVE f[<<t, l>>] = h[t][l]
    <3>1. <<t, l>> \in S
      BY <2>2 DEF Tagged
    <3> QED
      BY <3>1, ScoresOfTasks
  <2>5. ASSUME NEW t \in Task PROVE g[t] = Total(h[t], L[t])
    <3>1. g[t] = MacroF1(Of(t), truth, predicted).sum
      BY DEF ScopeReport
    <3> QED
      BY <1>1, <3>1, SumsOfScores
  <2>6. DOMAIN g = Task
    OBVIOUS
  <2>7. MacroF1(Case, T, P).sum = Total(f, S)
    BY <1>1, SumsOfScores
  <2> HIDE DEF S, L, f, h, g
  <2>8. SumFunction(g) = Total(f, S)
    BY <2>1, <2>2, <2>3, <2>4, <2>5, <2>6, TotalOfTasks
  <2> QED
    BY <2>7, <2>8 DEF g
<1>8. ASSUME NEW S, IsFiniteSet(S), \A x \in S : x[1] \in Task,
             NEW L, \A t \in Task : IsFiniteSet(L[t])
                                    /\ {x \in S : x[1] = t} = Tagged(t, L[t]),
             NEW g, DOMAIN g = Task, \A t \in Task : g[t] = Cardinality(L[t])
      PROVE  SumFunction(g) = Cardinality(S)
  <2> DEFINE group == [x \in S |-> x[1]]
  <2>1. \A x \in S : group[x] = x[1] /\ group[x] \in Task
    BY <1>8
  <2> HIDE DEF group
  <2>2. ASSUME NEW t \in Task PROVE g[t] = 1 * Cardinality({x \in S : group[x] = t})
    <3> DEFINE M == L[t]
    <3>1. {x \in S : group[x] = t} = Tagged(t, M)
      BY <1>8, <2>1
    <3>2. IsFiniteSet(M) /\ g[t] = Cardinality(M)
      BY <1>8
    <3> HIDE DEF M
    <3>3. Cardinality(Tagged(t, M)) = Cardinality(M) /\ Cardinality(M) \in Nat
      BY <3>2, AsManyTagged, FS_CardinalityType
    <3>4. g[t] = Cardinality({x \in S : group[x] = t}) /\ g[t] \in Nat
      BY <3>1, <3>2, <3>3
    <3> QED
      BY <3>4
  <2>3. SumFunction(g) = 1 * Cardinality(S)
    BY <1>3, <1>8, <2>1, <2>2, CountOfGroups
  <2>4. Cardinality(S) \in Nat
    BY <1>8, FS_CardinalityType
  <2> QED
    BY <2>3, <2>4
<1>9. BalancedAccuracy(Case, T, P).of = SumFunction(CountsOf("balanced"))
  <2> DEFINE S == ReferenceLabels(Case, T)
             L == [t \in Task |-> ReferenceLabels(Of(t), truth)]
             g == CountsOf("balanced")
  <2>1. IsFiniteSet(S) /\ \A t \in Task : IsFiniteSet(L[t])
    BY <1>1, LabelsAreFinite
  <2>2. /\ \A x \in S : x[1] \in Task
        /\ \A t \in Task : {x \in S : x[1] = t} = Tagged(t, L[t])
    BY LabelsOfTasks
  <2>3. DOMAIN g = Task /\ \A t \in Task : g[t] = Cardinality(L[t])
    BY DEF ScopeReport, BalancedAccuracy
  <2>4. BalancedAccuracy(Case, T, P).of = Cardinality(S)
    BY DEF BalancedAccuracy
  <2> HIDE DEF S, L, g
  <2>5. SumFunction(g) = Cardinality(S)
    BY <1>8, <2>1, <2>2, <2>3
  <2> QED
    BY <2>4, <2>5 DEF g
<1>10. MacroF1(Case, T, P).of = SumFunction(CountsOf("macro_f1"))
  <2> DEFINE S == ObservedLabels(Case, T, P)
             L == [t \in Task |-> ObservedLabels(Of(t), truth, predicted)]
             g == CountsOf("macro_f1")
  <2>1. IsFiniteSet(S) /\ \A t \in Task : IsFiniteSet(L[t])
    BY <1>1, LabelsAreFinite
  <2>2. /\ \A x \in S : x[1] \in Task
        /\ \A t \in Task : {x \in S : x[1] = t} = Tagged(t, L[t])
    BY LabelsOfTasks
  <2>3. DOMAIN g = Task /\ \A t \in Task : g[t] = Cardinality(L[t])
    BY DEF ScopeReport, MacroF1
  <2>4. MacroF1(Case, T, P).of = Cardinality(S)
    BY DEF MacroF1
  <2> HIDE DEF S, L, g
  <2>5. SumFunction(g) = Cardinality(S)
    BY <1>8, <2>1, <2>2, <2>3
  <2> QED
    BY <2>4, <2>5 DEF g
<1> DEFINE overall == ScopeReport(Case, T, P)
<1>11. /\ overall["accuracy"] = Accuracy(Case, T, P)
       /\ overall["balanced"] = BalancedAccuracy(Case, T, P)
       /\ overall["macro_f1"] = MacroF1(Case, T, P)
  BY DEF ScopeReport
<1> HIDE DEF T, P, overall, tasks
<1>12. ASSUME NEW metric \in {"accuracy", "balanced", "macro_f1"}
       PROVE  /\ overall[metric].sum = SumFunction(SumsOf(metric))
              /\ overall[metric].of = SumFunction(CountsOf(metric))
  BY <1>4, <1>5, <1>6, <1>7, <1>9, <1>10, <1>11
<1> QED
  BY <1>12 DEF T, P, overall, tasks

LEMMA TheOverallIsAMean ==
    ASSUME GateInv
    PROVE  OverallIsMeanOfTasks
<1> SUFFICES ASSUME NEW r \in result, NEW metric \in {"accuracy", "balanced", "macro_f1"}
             PROVE  /\ r.overall[metric].sum =
                           SumFunction([task \in Task |-> r.tasks[task][metric].sum])
                    /\ r.overall[metric].of =
                           SumFunction([task \in Task |-> r.tasks[task][metric].of])
  BY DEF OverallIsMeanOfTasks
<1> DEFINE predicted == TaskPredicted(gate.content["predictions"])
           overall == ScopeReport(Case, TaskLabels(TaskTruth), TaskLabels(predicted))
           tasks == [task \in Task |-> ScopeReport(Of(task), TaskTruth, predicted)]
<1>1. r.overall = overall /\ r.tasks = tasks
  BY JudgedIsPinned DEF Judgement, OverallReport, TaskReport
<1>2. /\ overall[metric].sum = SumFunction([task \in Task |-> tasks[task][metric].sum])
      /\ overall[metric].of = SumFunction([task \in Task |-> tasks[task][metric].of])
  <2> HIDE DEF predicted
  <2> QED
    BY MetricsOfTasks
<1> HIDE DEF overall, tasks
<1> QED
  BY <1>1, <1>2

-----------------------------------------------------------------------------

(* What passed was read as it is pinned, was reviewed, and has no text of   *)
(* the benchmark among its training records.                                *)
THEOREM WhatPassesIsClean == GateSpec => []PassedIsClean
<1> QED
  BY APassIsClean, GateIsInductive, PTL

(* The publisher takes an evaluation for its release only if it is of the   *)
(* manifest that the release names.                                         *)
THEOREM WhatIsAcceptedWasJudged == GateSpec => []AcceptedIsJudged
<1> QED
  BY AnAcceptedOneIsJudged, GateIsInductive, PTL

(* A target that is met leaves no class of any task behind, whatever the    *)
(* benchmark, the threshold and the predictions are.                        *)
THEOREM ATargetCoversEveryClass == GateSpec => []TargetCoversEveryClass
<1> QED
  BY ATargetCovers, GateIsInductive, PTL

(* The metrics of the whole benchmark are the weighted means of those of    *)
(* its tasks.                                                               *)
THEOREM TheOverallIsTheMeanOfTasks == GateSpec => []OverallIsMeanOfTasks
<1> QED
  BY TheOverallIsAMean, GateIsInductive, PTL

-----------------------------------------------------------------------------
(* Lists of commits                                                         *)

(* What was committed before the commit with this number.                   *)
Before(commits, i) == IF i = 1 THEN EmptyTree ELSE commits[i - 1].tree

LEMMA EmptyTreeType == EmptyTree \in Tree
  BY DEF EmptyTree, Tree

LEMMA TreeOfType ==
    ASSUME NEW commits \in Seq(Commit)
    PROVE  TreeOf(commits) \in Tree
<1>1. CASE commits = <<>>
  BY <1>1, EmptyTreeType DEF TreeOf
<1>2. CASE commits # <<>>
  <2>1. Len(commits) \in 1 .. Len(commits)
    BY <1>2, EmptySeq, LenProperties
  <2>2. commits[Len(commits)] \in Commit
    BY <2>1, ElementOfSeq
  <2> QED
    BY <1>2, <2>2 DEF TreeOf, Commit
<1> QED
  BY <1>1, <1>2

LEMMA EmptyIsNone ==
    ASSUME NEW commits \in Seq(Commit)
    PROVE  commits = <<>> <=> Len(commits) = 0
  BY EmptySeq

(* The tree of a prefix is that of its last commit.                         *)
LEMMA PrefixTree ==
    ASSUME NEW commits \in Seq(Commit), NEW i \in 1 .. Len(commits) + 1
    PROVE  TreeOf(SubSeq(commits, 1, i - 1)) = Before(commits, i)
<1> DEFINE prefix == SubSeq(commits, 1, i - 1)
<1>1. Len(commits) \in Nat /\ i \in Nat
  BY LenProperties
<1>2. \A j \in 1 .. i - 1 : commits[j] \in Commit
  BY <1>1, ElementOfSeq
<1>3. /\ prefix \in Seq(Commit)
      /\ Len(prefix) = IF 1 <= i - 1 THEN i - 1 - 1 + 1 ELSE 0
      /\ \A j \in 1 .. i - 1 - 1 + 1 : prefix[j] = commits[1 + j - 1]
  BY <1>1, <1>2, SubSeqProperties
<1> HIDE DEF prefix
<1>4. Len(prefix) = i - 1
  BY <1>1, <1>3
<1>5. CASE i = 1
  <2>1. prefix = <<>>
    BY <1>3, <1>4, <1>5, EmptyIsNone
  <2> QED
    BY <1>5, <2>1 DEF TreeOf, Before, prefix
<1>6. CASE i # 1
  <2>1. prefix # <<>>
    BY <1>1, <1>3, <1>4, <1>6, EmptyIsNone
  <2>2. prefix[i - 1] = commits[i - 1]
    BY <1>1, <1>3, <1>6
  <2>3. TreeOf(prefix) = commits[i - 1].tree
    BY <1>4, <2>1, <2>2 DEF TreeOf
  <2> QED
    BY <1>6, <2>3 DEF Before, prefix
<1> QED
  BY <1>5, <1>6

(* One list extends another if it agrees with it as far as that goes.       *)
LEMMA ExtendsIs ==
    ASSUME NEW longer \in Seq(Commit), NEW commits \in Seq(Commit)
    PROVE  Extends(longer, commits) <=>
               /\ Len(commits) <= Len(longer)
               /\ \A i \in 1 .. Len(commits) : longer[i] = commits[i]
<1> DEFINE n == Len(commits)
           prefix == SubSeq(longer, 1, n)
<1>1. n \in Nat /\ Len(longer) \in Nat
  BY LenProperties
<1>2. ASSUME n <= Len(longer)
      PROVE  prefix = commits <=> \A i \in 1 .. n : longer[i] = commits[i]
  <2>1. \A j \in 1 .. n : longer[j] \in Commit
    BY <1>1, <1>2, ElementOfSeq
  <2>2. /\ prefix \in Seq(Commit)
        /\ Len(prefix) = IF 1 <= n THEN n - 1 + 1 ELSE 0
        /\ \A j \in 1 .. n - 1 + 1 : prefix[j] = longer[1 + j - 1]
    BY <1>1, <2>1, SubSeqProperties
  <2> HIDE DEF prefix
  <2>3. Len(prefix) = n /\ \A j \in 1 .. n : prefix[j] = longer[j]
    BY <1>1, <2>2
  <2>4. ASSUME \A i \in 1 .. n : longer[i] = commits[i] PROVE prefix = commits
    BY <2>2, <2>3, <2>4, SeqEqual
  <2> QED
    BY <2>3, <2>4
<1> QED
  BY <1>2 DEF Extends

LEMMA ExtendsIsTransitive ==
    ASSUME NEW a \in Seq(Commit), NEW b \in Seq(Commit), NEW c \in Seq(Commit),
           Extends(a, b), Extends(b, c)
    PROVE  Extends(a, c)
<1>1. Len(a) \in Nat /\ Len(b) \in Nat /\ Len(c) \in Nat
  BY LenProperties
<1>2. Len(b) <= Len(a) /\ \A i \in 1 .. Len(b) : a[i] = b[i]
  BY ExtendsIs
<1>3. Len(c) <= Len(b) /\ \A i \in 1 .. Len(c) : b[i] = c[i]
  BY ExtendsIs
<1>4. Len(c) <= Len(a) /\ \A i \in 1 .. Len(c) : a[i] = c[i]
  BY <1>1, <1>2, <1>3
<1> QED
  BY <1>4, ExtendsIs

LEMMA ExtendsIsReflexive ==
    ASSUME NEW commits \in Seq(Commit)
    PROVE  Extends(commits, commits)
  BY ExtendsIs, LenProperties

LEMMA AppendExtends ==
    ASSUME NEW commits \in Seq(Commit), NEW c \in Commit
    PROVE  /\ Append(commits, c) \in Seq(Commit)
           /\ Extends(Append(commits, c), commits)
           /\ TreeOf(Append(commits, c)) = c.tree
<1> DEFINE more == Append(commits, c)
<1>1. Len(commits) \in Nat
  BY LenProperties
<1>2. /\ more \in Seq(Commit) /\ more # <<>> /\ Len(more) = Len(commits) + 1
      /\ \A i \in 1 .. Len(commits) : more[i] = commits[i]
      /\ more[Len(commits) + 1] = c
  BY AppendProperties
<1> HIDE DEF more
<1>3. Extends(more, commits)
  BY <1>1, <1>2, ExtendsIs
<1>4. TreeOf(more) = c.tree
  BY <1>2 DEF TreeOf
<1> QED
  BY <1>2, <1>3, <1>4 DEF more

-----------------------------------------------------------------------------
(* Commits of the task are confined                                         *)

Confined(commits) ==
    \A i \in 1 .. Len(commits) :
        commits[i].by = "task" =>
            \A p \in Path \ Covered : commits[i].tree[p] = Before(commits, i)[p]

LEMMA ConfinedIs ==
    ASSUME NEW commits \in Seq(Commit)
    PROVE  Confined(commits) <=>
               \A i \in DOMAIN commits :
                   commits[i].by = "task" =>
                       \A p \in Path \ Covered :
                           commits[i].tree[p] = TreeOf(SubSeq(commits, 1, i - 1))[p]
<1>1. DOMAIN commits = 1 .. Len(commits) /\ Len(commits) \in Nat
  BY LenProperties
<1>2. \A i \in 1 .. Len(commits) : i \in 1 .. Len(commits) + 1
  BY <1>1
<1>3. \A i \in 1 .. Len(commits) : TreeOf(SubSeq(commits, 1, i - 1)) = Before(commits, i)
  BY <1>2, PrefixTree
<1>4. Confined(commits) <=>
          \A i \in 1 .. Len(commits) :
              commits[i].by = "task" =>
                  \A p \in Path \ Covered :
                      commits[i].tree[p] = TreeOf(SubSeq(commits, 1, i - 1))[p]
  BY <1>3, Zenon DEF Confined
<1> QED
  BY <1>1, <1>4

LEMMA ConfinedAppend ==
    ASSUME NEW commits \in Seq(Commit), Confined(commits), NEW c \in Commit,
           c.by = "task" => \A p \in Path \ Covered : c.tree[p] = TreeOf(commits)[p]
    PROVE  Confined(Append(commits, c))
<1> DEFINE more == Append(commits, c)
           n == Len(commits)
<1>1. n \in Nat
  BY LenProperties
<1>2. /\ more \in Seq(Commit) /\ Len(more) = n + 1
      /\ \A i \in 1 .. n : more[i] = commits[i]
      /\ more[n + 1] = c
  BY AppendProperties
<1> HIDE DEF more
<1>3. ASSUME NEW i \in 1 .. n PROVE more[i] = commits[i] /\ Before(more, i) = Before(commits, i)
  <2>1. i # 1 => i - 1 \in 1 .. n
    BY <1>1
  <2> QED
    BY <1>2, <2>1 DEF Before
<1>4. Before(more, n + 1) = TreeOf(commits)
  <2>1. CASE n = 0
    BY <2>1, EmptyIsNone DEF Before, TreeOf
  <2>2. CASE n # 0
    <3>1. n \in 1 .. n /\ n + 1 # 1 /\ n + 1 - 1 = n
      BY <1>1, <2>2
    <3>2. Before(more, n + 1) = commits[n].tree
      BY <1>2, <3>1 DEF Before
    <3> QED
      BY <2>2, <3>2, EmptyIsNone DEF TreeOf
  <2> QED
    BY <2>1, <2>2
<1>5. \A i \in 1 .. n + 1 : i \in 1 .. n \/ i = n + 1
  BY <1>1
<1>6. Confined(more)
  BY <1>2, <1>3, <1>4, <1>5 DEF Confined
<1> QED
  BY <1>6 DEF more

(* The last commit is replaced.                                             *)
LEMMA AmendedIs ==
    ASSUME NEW commits \in Seq(Commit), NEW c \in Commit, Len(commits) > 0
    PROVE  LET amended == [commits EXCEPT ![Len(commits)] = c] IN
           /\ amended \in Seq(Commit) /\ Len(amended) = Len(commits)
           /\ \A j \in 1 .. Len(commits) : amended[j] = IF j = Len(commits) THEN c ELSE commits[j]
           /\ TreeOf(amended) = c.tree
<1> DEFINE n == Len(commits)
           amended == [commits EXCEPT ![n] = c]
<1>1. n \in Nat /\ n \in 1 .. n
  BY LenProperties
<1>2. /\ amended \in Seq(Commit) /\ Len(amended) = n
      /\ \A j \in 1 .. n : amended[j] = IF j = n THEN c ELSE commits[j]
  BY <1>1, ExceptSeq
<1> HIDE DEF amended
<1>3. amended # <<>>
  BY <1>1, <1>2, EmptyIsNone
<1>4. TreeOf(amended) = c.tree
  BY <1>1, <1>2, <1>3 DEF TreeOf
<1> QED
  BY <1>2, <1>4 DEF amended

(* By a commit of a person: the commits before it are as they were.         *)
LEMMA ConfinedAmend ==
    ASSUME NEW commits \in Seq(Commit), Confined(commits), NEW c \in Commit, c.by # "task",
           Len(commits) > 0
    PROVE  Confined([commits EXCEPT ![Len(commits)] = c])
<1> DEFINE n == Len(commits)
           amended == [commits EXCEPT ![n] = c]
<1>1. n \in Nat
  BY LenProperties
<1>2. /\ Len(amended) = n
      /\ \A j \in 1 .. n : amended[j] = IF j = n THEN c ELSE commits[j]
  BY AmendedIs
<1> HIDE DEF amended
<1>3. ASSUME NEW i \in 1 .. n, i # n
      PROVE  amended[i] = commits[i] /\ Before(amended, i) = Before(commits, i)
  <2>1. i # 1 => i - 1 \in 1 .. n /\ i - 1 # n
    BY <1>1
  <2> QED
    BY <1>2, <1>3, <2>1 DEF Before
<1>4. Confined(amended)
  BY <1>1, <1>2, <1>3 DEF Confined
<1> QED
  BY <1>4 DEF amended

-----------------------------------------------------------------------------
(* What the steps do                                                        *)

LEMMA ProceedIs ==
    ASSUME GitTypeOK, NEW at \in {"idle", "checking", "adding", "inspecting", "committing",
                                  "heading", "pushing", "verifying"}, Proceed(at)
    PROVE  /\ call'.at = at /\ call'.wanted = call.wanted /\ call'.touched = call.touched
           /\ call'.revision = call.revision
           /\ call' \in [at : {"idle", "checking", "adding", "inspecting", "committing",
                               "heading", "pushing", "verifying"},
                         wanted : Tree, touched : BOOLEAN, revision : Seq(Commit)]
  BY DEF GitTypeOK, Proceed

(* A tree with the files of the task from one tree and the rest of another. *)
LEMMA MixedTree ==
    ASSUME NEW a \in Tree, NEW b \in Tree, NEW chosen
    PROVE  [p \in Path |-> IF p \in chosen THEN a[p] ELSE b[p]] \in Tree
  BY DEF Tree

LEMMA GitTypeStep ==
    ASSUME GitTypeOK, [GitNext]_gitVars
    PROVE  GitTypeOK'
<1> USE DEF GitTypeOK
<1> DEFINE Call == [at : {"idle", "checking", "adding", "inspecting", "committing", "heading",
                          "pushing", "verifying"},
                    wanted : Tree, touched : BOOLEAN, revision : Seq(Commit)]
<1>1. call \in Call /\ TreeOf(local) \in Tree /\ TreeOf(remote) \in Tree
  BY TreeOfType
<1>2. ASSUME NEW changed, Touch(changed) PROVE call' \in Call
  BY <1>1, <1>2 DEF Touch
<1>3. ASSUME NEW p \in Path, NEW content \in Content \cup {Absent}, NEW tree \in Tree
      PROVE  [tree EXCEPT ![p] = content] \in Tree
  BY DEF Tree
<1>4. ASSUME NEW p \in Path, NEW content \in Content \cup {Absent}, Produce(p, content)
      PROVE  GitTypeOK'
  BY <1>3, <1>4 DEF Produce
<1>5. ASSUME NEW p \in Path, NEW content \in Content \cup {Absent}, Edit(p, content)
      PROVE  GitTypeOK'
  <2>1. call' \in Call
    BY <1>2, <1>5 DEF Edit
  <2>2. work' \in Tree
    BY <1>3, <1>5 DEF Edit
  <2>3. steps' \in Nat
    BY <1>5 DEF Edit, Beside
  <2> HIDE DEF Call
  <2>4. UNCHANGED <<index, local, remote, calls, returned>>
    BY <1>5 DEF Edit
  <2> QED
    BY <1>1, <2>1, <2>2, <2>3, <2>4 DEF Call
<1>6. ASSUME NEW p \in Path, NEW content \in Content \cup {Absent}, PushElsewhere(p, content)
      PROVE  GitTypeOK'
  <2> DEFINE c == [by |-> "person", tree |-> [TreeOf(remote) EXCEPT ![p] = content]]
  <2>1. c \in Commit
    BY <1>1, <1>3 DEF Commit
  <2>2. remote' \in Seq(Commit)
    BY <1>6, <2>1, AppendExtends DEF PushElsewhere
  <2> QED
    BY <1>6, <2>2 DEF PushElsewhere, Beside
<1>7. CASE BeginCall
  <2>1. call' \in Call
    BY <1>7, ProceedIs DEF BeginCall
  <2> QED
    BY <1>7, <2>1 DEF BeginCall
<1>8. CASE CheckStatus
  BY <1>1, <1>8 DEF CheckStatus
<1>9. CASE AddPaths
  <2>1. call' \in Call
    BY <1>9, ProceedIs DEF AddPaths
  <2>2. index' \in Tree
    BY <1>9, MixedTree DEF AddPaths
  <2> QED
    BY <1>9, <2>1, <2>2 DEF AddPaths
<1>10. CASE InspectStaged
  <2>1. call' \in Call
    BY <1>10, ProceedIs DEF InspectStaged
  <2> QED
    BY <1>10, <2>1 DEF InspectStaged
<1>11. CASE CommitPaths
  <2> DEFINE tree == [p \in Path |-> IF p \in Covered THEN work[p] ELSE TreeOf(local)[p]]
  <2>1. call' \in Call
    BY <1>11, ProceedIs DEF CommitPaths
  <2>2. index' \in Tree
    BY <1>11, MixedTree DEF CommitPaths
  <2>3. tree \in Tree
    BY <1>1, MixedTree
  <2> HIDE DEF tree
  <2>4. [by |-> "task", tree |-> tree] \in Commit
    BY <2>3 DEF Commit
  <2>5. local' = Append(local, [by |-> "task", tree |-> tree])
    BY <1>11 DEF CommitPaths, tree
  <2>6. local' \in Seq(Commit)
    BY <2>4, <2>5, AppendExtends
  <2> QED
    BY <1>11, <2>1, <2>2, <2>6 DEF CommitPaths
<1>12. CASE ReadHead
  BY <1>1, <1>12 DEF ReadHead
<1>13. CASE Push
  <2>1. call' \in Call
    BY <1>13, ProceedIs DEF Push
  <2> QED
    BY <1>13, <2>1 DEF Push
<1>14. CASE VerifyRemote
  <2>1. call' \in Call
    BY <1>14, ProceedIs DEF VerifyRemote
  <2> QED
    BY <1>1, <1>14, <2>1 DEF VerifyRemote
<1>15. CASE EndCall
  <2>1. call' \in Call
    BY <1>15, ProceedIs DEF EndCall
  <2> QED
    BY <1>15, <2>1 DEF EndCall
<1>16. ASSUME NEW p \in Path, Stage(p) PROVE GitTypeOK'
  <2>1. work[p] \in Content \cup {Absent}
    BY DEF Tree
  <2>2. index' \in Tree
    BY <1>3, <1>16, <2>1 DEF Stage
  <2>3. steps' \in Nat
    BY <1>16 DEF Stage, Beside
  <2>4. UNCHANGED <<work, local, remote, call, calls, returned>>
    BY <1>16 DEF Stage
  <2> QED
    BY <2>2, <2>3, <2>4
<1>17. CASE CommitStaged
  <2>1. [by |-> "person", tree |-> index] \in Commit
    BY DEF Commit
  <2>2. local' \in Seq(Commit)
    BY <1>17, <2>1, AppendExtends DEF CommitStaged
  <2> QED
    BY <1>17, <2>2 DEF CommitStaged, Beside
<1>18. CASE Amend
  <2>1. [by |-> "person", tree |-> index] \in Commit
    BY DEF Commit
  <2>2. Len(local) \in 1 .. Len(local)
    BY <1>18, LenProperties DEF Amend
  <2>3. local' \in Seq(Commit)
    BY <1>18, <2>1, <2>2, ExceptSeq DEF Amend
  <2> QED
    BY <1>18, <2>3 DEF Amend, Beside
<1>19. CASE Pull
  <2> DEFINE changed == {p \in Path : TreeOf(remote)[p] # TreeOf(local)[p]}
  <2>1. call' \in Call
    BY <1>2, <1>19 DEF Pull
  <2>2. index' \in Tree /\ work' \in Tree
    <3> HIDE DEF changed
    <3>1. index' = [p \in Path |-> IF p \in changed THEN TreeOf(remote)[p] ELSE index[p]]
          /\ work' = [p \in Path |-> IF p \in changed THEN TreeOf(remote)[p] ELSE work[p]]
      BY <1>19 DEF Pull, changed
    <3>2. index \in Tree /\ work \in Tree
      OBVIOUS
    <3>3. [p \in Path |-> IF p \in changed THEN TreeOf(remote)[p] ELSE index[p]] \in Tree
      BY <1>1, <3>2, MixedTree
    <3>4. [p \in Path |-> IF p \in changed THEN TreeOf(remote)[p] ELSE work[p]] \in Tree
      BY <1>1, <3>2, MixedTree
    <3> QED
      BY <3>1, <3>3, <3>4
  <2>3. steps' \in Nat /\ local' = remote /\ UNCHANGED <<remote, calls, returned>>
    BY <1>19 DEF Pull, Beside
  <2> QED
    BY <2>1, <2>2, <2>3
<1>20. CASE UNCHANGED gitVars
  BY <1>20 DEF gitVars
<1> QED
  BY <1>4, <1>5, <1>6, <1>7, <1>8, <1>9, <1>10, <1>11, <1>12, <1>13, <1>14, <1>15, <1>16, <1>17,
     <1>18, <1>19, <1>20
  DEF GitNext

(* The lists of commits: what is committed is confined, and the branch      *)
(* moves forward only.                                                      *)
LEMMA CommitsStep ==
    ASSUME GitTypeOK, TaskCommitsAreConfined, [GitNext]_gitVars
    PROVE  TaskCommitsAreConfined' /\ Extends(remote', remote)
<1>1. /\ local \in Seq(Commit) /\ remote \in Seq(Commit)
      /\ work \in Tree /\ index \in Tree /\ TreeOf(local) \in Tree /\ TreeOf(remote) \in Tree
  BY TreeOfType DEF GitTypeOK
<1>2. local' \in Seq(Commit) /\ remote' \in Seq(Commit)
  BY GitTypeStep DEF GitTypeOK
<1>3. Confined(local) /\ Confined(remote)
  BY <1>1, ConfinedIs DEF TaskCommitsAreConfined
<1>4. ASSUME Confined(local'), Confined(remote') PROVE TaskCommitsAreConfined'
  <2>1. ASSUME NEW commits \in {local', remote'}
        PROVE  \A i \in DOMAIN commits :
                   commits[i].by = "task" =>
                       \A p \in Path \ Covered :
                           commits[i].tree[p] = TreeOf(SubSeq(commits, 1, i - 1))[p]
    <3>1. commits \in Seq(Commit) /\ Confined(commits)
      BY <1>2, <1>4
    <3> QED
      BY <3>1, ConfinedIs
  <2> QED
    BY <2>1 DEF TaskCommitsAreConfined
<1>5. Extends(remote, remote)
  BY <1>1, ExtendsIsReflexive
<1>6. CASE local' = local /\ remote' = remote
  BY <1>3, <1>4, <1>5, <1>6
<1>7. CASE CommitPaths
  <2> DEFINE tree == [p \in Path |-> IF p \in Covered THEN work[p] ELSE TreeOf(local)[p]]
             c == [by |-> "task", tree |-> tree]
  <2>1. tree \in Tree /\ \A p \in Path \ Covered : tree[p] = TreeOf(local)[p]
    BY <1>1, MixedTree
  <2>2. local' = Append(local, c) /\ remote' = remote
    BY <1>7 DEF CommitPaths
  <2> HIDE DEF tree
  <2>3. c \in Commit /\ c.tree = tree
    BY <2>1 DEF Commit
  <2> HIDE DEF c
  <2>4. Confined(local')
    BY <1>1, <1>3, <2>1, <2>2, <2>3, ConfinedAppend
  <2> QED
    BY <1>3, <1>4, <1>5, <2>2, <2>4
<1>8. CASE Push
  BY <1>3, <1>4, <1>8 DEF Push
<1>9. CASE CommitStaged
  <2> DEFINE c == [by |-> "person", tree |-> index]
  <2>1. c \in Commit /\ c.by # "task"
    BY <1>1 DEF Commit
  <2>2. local' = Append(local, c) /\ remote' = remote
    BY <1>9 DEF CommitStaged
  <2> HIDE DEF c
  <2>3. Confined(local')
    BY <1>1, <1>3, <2>1, <2>2, ConfinedAppend
  <2> QED
    BY <1>3, <1>4, <1>5, <2>2, <2>3
<1>10. CASE Amend
  <2> DEFINE c == [by |-> "person", tree |-> index]
  <2>1. c \in Commit /\ c.by # "task"
    BY <1>1 DEF Commit
  <2>2. local' = [local EXCEPT ![Len(local)] = c] /\ remote' = remote
    BY <1>10 DEF Amend
  <2>3. Len(local) > 0
    BY <1>1, <1>10, LenProperties DEF Amend
  <2> HIDE DEF c
  <2>4. Confined(local')
    BY <1>1, <1>3, <2>1, <2>2, <2>3, ConfinedAmend
  <2> QED
    BY <1>3, <1>4, <1>5, <2>2, <2>4
<1>11. ASSUME NEW p \in Path, NEW content \in Content \cup {Absent}, PushElsewhere(p, content)
       PROVE  Confined(local') /\ Confined(remote') /\ Extends(remote', remote)
  <2> DEFINE c == [by |-> "person", tree |-> [TreeOf(remote) EXCEPT ![p] = content]]
  <2>1. c \in Commit /\ c.by # "task"
    BY <1>1 DEF Commit, Tree
  <2>2. remote' = Append(remote, c) /\ local' = local
    BY <1>11 DEF PushElsewhere
  <2> HIDE DEF c
  <2>3. Confined(remote') /\ Extends(remote', remote)
    BY <1>1, <1>3, <2>1, <2>2, ConfinedAppend, AppendExtends
  <2> QED
    BY <1>3, <2>2, <2>3
<1>12. CASE Pull
  BY <1>3, <1>4, <1>5, <1>12 DEF Pull
<1> QED
  BY <1>4, <1>6, <1>7, <1>8, <1>9, <1>10, <1>11, <1>12
  DEF GitNext, gitVars, Produce, Edit, BeginCall, CheckStatus, AddPaths, InspectStaged, ReadHead,
      VerifyRemote, EndCall, Stage

(* The files of the task, while others leave them alone.                    *)
LEMMA WorkStep ==
    ASSUME GitTypeOK, WorkInv, [GitNext]_gitVars
    PROVE  WorkInv'
<1> USE PathAssumption
<1> DEFINE Covers(tree, wanted) == \A p \in Covered : tree[p] = wanted[p]
<1>1. /\ local \in Seq(Commit) /\ remote \in Seq(Commit)
      /\ work \in Tree /\ index \in Tree /\ TreeOf(local) \in Tree /\ TreeOf(remote) \in Tree
  BY TreeOfType DEF GitTypeOK
<1>2. WorkInv = (~call.touched =>
        /\ call.at \in {"adding", "inspecting", "committing", "heading"} => Covers(work, call.wanted)
        /\ call.at \in {"inspecting", "committing", "heading"} => Covers(index, call.wanted)
        /\ call.at = "heading" => Covers(TreeOf(local), call.wanted)
        /\ call.at \in {"pushing", "verifying"} => Covers(TreeOf(call.revision), call.wanted))
  BY DEF WorkInv, Holding
<1>3. WorkInv' = (~call'.touched =>
        /\ call'.at \in {"adding", "inspecting", "committing", "heading"} => Covers(work', call'.wanted)
        /\ call'.at \in {"inspecting", "committing", "heading"} => Covers(index', call'.wanted)
        /\ call'.at = "heading" => Covers(TreeOf(local'), call'.wanted)
        /\ call'.at \in {"pushing", "verifying"} => Covers(TreeOf(call'.revision), call'.wanted))
  BY DEF WorkInv, Holding, TreeOf, EmptyTree
<1> HIDE DEF Covers
<1>4. ASSUME UNCHANGED <<work, index, local, call>> PROVE WorkInv'
  BY <1>2, <1>3, <1>4
<1>5. ASSUME NEW changed, Touch(changed)
      PROVE  /\ call'.at = call.at /\ call'.wanted = call.wanted
             /\ call'.revision = call.revision
             /\ ~call'.touched => ~call.touched /\ \A p \in Covered : p \notin changed
  BY <1>5 DEF Touch, GitTypeOK
<1>6. ASSUME NEW p \in Path, NEW content \in Content \cup {Absent}, Produce(p, content)
      PROVE  WorkInv'
  <2>1. call'.at = "idle"
    BY <1>6 DEF Produce, CallAt
  <2> QED
    BY <1>3, <2>1
<1>7. ASSUME NEW p \in Path, NEW content \in Content \cup {Absent}, Edit(p, content)
      PROVE  WorkInv'
  <2>1. Touch({p}) /\ UNCHANGED <<index, local>> /\ work' = [work EXCEPT ![p] = content]
    BY <1>7 DEF Edit
  <2>2. \A q \in Covered : q # p => work'[q] = work[q]
    BY <1>1, <2>1 DEF Tree
  <2>3. ~call'.touched => (Covers(work, call.wanted) => Covers(work', call.wanted))
    BY <1>5, <2>1, <2>2 DEF Covers
  <2> QED
    BY <1>2, <1>3, <1>5, <2>1, <2>3
<1>8. ASSUME NEW p \in Path, NEW content \in Content \cup {Absent}, PushElsewhere(p, content)
      PROVE  WorkInv'
  BY <1>4, <1>8 DEF PushElsewhere
<1>9. CASE BeginCall
  <2>1. call'.at = "checking"
    BY <1>9, ProceedIs DEF BeginCall
  <2> QED
    BY <1>3, <2>1
<1>10. CASE CheckStatus
  <2>1. /\ call'.at = (IF Dirty = {} THEN "heading" ELSE "adding")
        /\ call'.wanted = work /\ UNCHANGED <<work, index, local>>
    BY <1>10 DEF CheckStatus, GitTypeOK
  <2>2. Covers(work, work)
    BY DEF Covers
  <2>3. CASE Dirty = {}
    <3>1. \A p \in Path : work[p] = index[p] /\ index[p] = TreeOf(local)[p]
      BY <2>3 DEF Dirty
    <3>2. Covers(index, work) /\ Covers(TreeOf(local), work)
      BY <3>1 DEF Covers
    <3> QED
      BY <1>3, <2>1, <2>2, <2>3, <3>2
  <2>4. CASE Dirty # {}
    BY <1>3, <2>1, <2>2, <2>4
  <2> QED
    BY <2>3, <2>4
<1>11. CASE AddPaths
  <2>1. /\ call.at = "adding" /\ UNCHANGED <<work, local>>
        /\ call'.at = "inspecting" /\ call'.wanted = call.wanted /\ call'.touched = call.touched
    BY <1>11, ProceedIs DEF AddPaths, CallAt
  <2>2. \A p \in Covered : index'[p] = work[p]
    BY <1>11 DEF AddPaths
  <2>3. Covers(work, call.wanted) => Covers(index', call.wanted)
    BY <2>2 DEF Covers
  <2> QED
    BY <1>2, <1>3, <2>1, <2>3
<1>12. CASE InspectStaged
  <2>1. /\ call.at = "inspecting" /\ UNCHANGED <<work, index, local>>
        /\ call'.wanted = call.wanted /\ call'.touched = call.touched
        /\ call'.at = IF Staged = {} THEN "heading" ELSE "committing"
    BY <1>12, ProceedIs DEF InspectStaged, CallAt
  <2>2. ASSUME Staged = {}, Covers(index, call.wanted) PROVE Covers(TreeOf(local), call.wanted)
    BY <2>2 DEF Staged, Covers
  <2>3. CASE Staged = {}
    BY <1>2, <1>3, <2>1, <2>2, <2>3
  <2>4. CASE Staged # {}
    BY <1>2, <1>3, <2>1, <2>4
  <2> QED
    BY <2>3, <2>4
<1>13. CASE CommitPaths
  <2> DEFINE tree == [p \in Path |-> IF p \in Covered THEN work[p] ELSE TreeOf(local)[p]]
             c == [by |-> "task", tree |-> tree]
  <2>1. /\ call.at = "committing" /\ work' = work
        /\ call'.at = "heading" /\ call'.wanted = call.wanted /\ call'.touched = call.touched
    BY <1>13, ProceedIs DEF CommitPaths, CallAt
  <2>2. tree \in Tree /\ \A p \in Covered : tree[p] = work[p]
    BY <1>1, MixedTree
  <2>3. local' = Append(local, c) /\ \A p \in Covered : index'[p] = work[p]
    BY <1>13 DEF CommitPaths
  <2> HIDE DEF tree
  <2>4. c \in Commit /\ c.tree = tree
    BY <2>2 DEF Commit
  <2> HIDE DEF c
  <2>5. TreeOf(local') = tree
    BY <1>1, <2>3, <2>4, AppendExtends
  <2>6. Covers(work, call.wanted) =>
            Covers(index', call.wanted) /\ Covers(TreeOf(local'), call.wanted)
    BY <2>2, <2>3, <2>5 DEF Covers
  <2> QED
    BY <1>2, <1>3, <2>1, <2>6
<1>14. CASE ReadHead
  <2>1. /\ call.at = "heading" /\ call'.at = "pushing" /\ call'.revision = local
        /\ call'.wanted = call.wanted /\ call'.touched = call.touched
    BY <1>14 DEF ReadHead, CallAt, GitTypeOK
  <2> QED
    BY <1>2, <1>3, <2>1
<1>15. CASE Push
  <2>1. /\ call.at = "pushing" /\ call'.at = "verifying" /\ call'.revision = call.revision
        /\ call'.wanted = call.wanted /\ call'.touched = call.touched
    BY <1>15, ProceedIs DEF Push, CallAt
  <2> QED
    BY <1>2, <1>3, <2>1
<1>16. CASE VerifyRemote \/ EndCall
  <2>1. call'.at = "idle"
    BY <1>16, ProceedIs DEF VerifyRemote, EndCall
  <2> QED
    BY <1>3, <2>1
<1>17. ASSUME NEW p \in Path, Stage(p) PROVE WorkInv'
  <2>1. UNCHANGED <<work, local, call>> /\ index' = [index EXCEPT ![p] = work[p]]
    BY <1>17 DEF Stage
  <2>2. \A q \in Path : index'[q] = IF q = p THEN work[p] ELSE index[q]
    BY <1>1, <2>1 DEF Tree
  <2>3. Covers(work, call.wanted) /\ Covers(index, call.wanted) => Covers(index', call.wanted)
    BY <2>2 DEF Covers
  <2> QED
    BY <1>2, <1>3, <2>1, <2>3
<1>18. CASE CommitStaged \/ Amend
  <2> DEFINE c == [by |-> "person", tree |-> index]
  <2>1. UNCHANGED <<work, index, call>>
    BY <1>18 DEF CommitStaged, Amend
  <2>2. c \in Commit /\ c.tree = index /\ c.by # "task"
    BY <1>1 DEF Commit
  <2>3. TreeOf(local') = index
    <3>1. CASE CommitStaged
      <4>1. local' = Append(local, c)
        BY <3>1 DEF CommitStaged
      <4> HIDE DEF c
      <4> QED
        BY <1>1, <2>2, <4>1, AppendExtends
    <3>2. CASE Amend
      <4>1. local' = [local EXCEPT ![Len(local)] = c] /\ Len(local) > 0
        BY <1>1, <3>2, LenProperties DEF Amend
      <4> HIDE DEF c
      <4> QED
        BY <1>1, <2>2, <4>1, AmendedIs
    <3> QED
      BY <1>18, <3>1, <3>2
  <2> QED
    BY <1>2, <1>3, <2>1, <2>3
<1>19. CASE Pull
  <2> DEFINE changed == {p \in Path : TreeOf(remote)[p] # TreeOf(local)[p]}
  <2>1. /\ Touch(changed) /\ local' = remote
        /\ index' = [p \in Path |-> IF p \in changed THEN TreeOf(remote)[p] ELSE index[p]]
        /\ work' = [p \in Path |-> IF p \in changed THEN TreeOf(remote)[p] ELSE work[p]]
    BY <1>19 DEF Pull
  <2>2. ASSUME \A p \in Covered : p \notin changed
        PROVE  \A p \in Covered : /\ index'[p] = index[p] /\ work'[p] = work[p]
                                  /\ TreeOf(local')[p] = TreeOf(local)[p]
    BY <2>1, <2>2
  <2> HIDE DEF changed
  <2>3. ~call'.touched =>
            /\ Covers(work, call.wanted) => Covers(work', call.wanted)
            /\ Covers(index, call.wanted) => Covers(index', call.wanted)
            /\ Covers(TreeOf(local), call.wanted) => Covers(TreeOf(local'), call.wanted)
    BY <1>5, <2>1, <2>2 DEF Covers
  <2> QED
    BY <1>2, <1>3, <1>5, <2>1, <2>3
<1>20. CASE UNCHANGED gitVars
  BY <1>4, <1>20 DEF gitVars
<1> QED
  BY <1>6, <1>7, <1>8, <1>9, <1>10, <1>11, <1>12, <1>13, <1>14, <1>15, <1>16, <1>17, <1>18, <1>19,
     <1>20
  DEF GitNext

(* What was returned: a revision is returned when it is the branch, and the *)
(* branch only grows.                                                       *)
LEMMA ReturnedStep ==
    ASSUME GitInv, [GitNext]_gitVars
    PROVE  ReturnedIsPublished' /\ ReturnedHoldsTheWork'
<1>1. GitTypeOK /\ WorkInv /\ ReturnedIsPublished /\ ReturnedHoldsTheWork
  BY DEF GitInv
<1>2. Extends(remote', remote)
  BY CommitsStep DEF GitInv
<1>3. remote \in Seq(Commit) /\ remote' \in Seq(Commit)
  BY <1>1, GitTypeStep DEF GitTypeOK
<1>4. ASSUME NEW r \in returned
      PROVE  /\ Extends(remote', r.revision)
             /\ ~r.touched => \A p \in Covered : TreeOf(r.revision)[p] = r.wanted[p]
  <2>1. Extends(remote, r.revision) /\ r.revision \in Seq(Commit)
    BY <1>1 DEF ReturnedIsPublished, GitTypeOK
  <2>2. Extends(remote', r.revision)
    BY <1>2, <1>3, <2>1, ExtendsIsTransitive
  <2> QED
    BY <1>1, <2>2 DEF ReturnedHoldsTheWork
<1>5. ASSUME \A r \in returned' :
                 /\ Extends(remote', r.revision)
                 /\ ~r.touched => \A p \in Covered : TreeOf(r.revision)[p] = r.wanted[p]
      PROVE  ReturnedIsPublished' /\ ReturnedHoldsTheWork'
  BY <1>5 DEF ReturnedIsPublished, ReturnedHoldsTheWork, Extends, TreeOf, EmptyTree
<1>6. CASE returned' = returned
  BY <1>4, <1>5, <1>6
<1>7. CASE VerifyRemote
  <2> DEFINE new == [wanted |-> call.wanted, touched |-> call.touched, revision |-> call.revision]
  <2>1. call.at = "verifying" /\ remote = call.revision /\ remote' = remote
        /\ returned' = returned \cup {new}
    BY <1>7 DEF VerifyRemote, CallAt
  <2>2. Extends(remote', new.revision)
    BY <1>2, <2>1
  <2>3. ~call.touched => \A p \in Covered : TreeOf(call.revision)[p] = call.wanted[p]
    BY <1>1, <2>1 DEF WorkInv, Holding
  <2>4. ~new.touched => \A p \in Covered : TreeOf(new.revision)[p] = new.wanted[p]
    BY <2>3
  <2> HIDE DEF new
  <2> QED
    BY <1>4, <1>5, <2>1, <2>2, <2>4
<1> QED
  BY <1>6, <1>7
  DEF GitNext, gitVars, Produce, Edit, PushElsewhere, BeginCall, CheckStatus, AddPaths,
      InspectStaged, CommitPaths, ReadHead, Push, EndCall, Stage, CommitStaged, Amend, Pull

LEMMA GitInvariantInit ==
    ASSUME GitInit
    PROVE  GitInv
<1>1. EmptyTree \in Tree /\ <<>> \in Seq(Commit)
  BY EmptyTreeType
<1>2. GitTypeOK
  BY <1>1 DEF GitInit, GitTypeOK
<1>3. WorkInv
  BY DEF GitInit, WorkInv
<1>4. TaskCommitsAreConfined
  <2>1. DOMAIN <<>> = {}
    BY EmptySeq
  <2> QED
    BY <2>1 DEF GitInit, TaskCommitsAreConfined
<1>5. ReturnedIsPublished /\ ReturnedHoldsTheWork
  BY DEF GitInit, ReturnedIsPublished, ReturnedHoldsTheWork
<1> QED
  BY <1>2, <1>3, <1>4, <1>5 DEF GitInv

LEMMA GitInvariantStep ==
    ASSUME GitInv, [GitNext]_gitVars
    PROVE  GitInv'
<1>1. GitTypeOK'
  BY GitTypeStep DEF GitInv
<1>2. WorkInv'
  BY WorkStep DEF GitInv
<1>3. TaskCommitsAreConfined'
  BY CommitsStep DEF GitInv
<1>4. ReturnedIsPublished' /\ ReturnedHoldsTheWork'
  BY ReturnedStep
<1> QED
  BY <1>1, <1>2, <1>3, <1>4 DEF GitInv

(* The types, what the files of the task are while others leave them alone, *)
(* and the three properties hold in every behaviour of the publisher.       *)
THEOREM GitIsInductive == GitSpec => []GitInv
<1>1. GitInit => GitInv
  BY GitInvariantInit
<1>2. GitInv /\ [GitNext]_gitVars => GitInv'
  BY GitInvariantStep
<1> QED
  BY <1>1, <1>2, PTL DEF GitSpec

(* A commit of the task changes nothing outside its allowlist, however many *)
(* people stage and commit between its commands.                            *)
THEOREM TheTaskCommitsItsOwn == GitSpec => []TaskCommitsAreConfined
<1>1. GitInv => TaskCommitsAreConfined
  BY DEF GitInv
<1> QED
  BY <1>1, GitIsInductive, PTL

(* What the publisher returned stays on the branch.                         *)
THEOREM TheReturnedStaysPublished == GitSpec => []ReturnedIsPublished
<1>1. GitInv => ReturnedIsPublished
  BY DEF GitInv
<1> QED
  BY <1>1, GitIsInductive, PTL

(* What it returned is the work of the task, if nobody touched its files.   *)
THEOREM TheReturnedIsTheWork == GitSpec => []ReturnedHoldsTheWork
<1>1. GitInv => ReturnedHoldsTheWork
  BY DEF GitInv
<1> QED
  BY <1>1, GitIsInductive, PTL
===============================================================================
