------------------------------ MODULE SumLemmas ------------------------------
(***************************************************************************)
(* Sums over finite sets, for the limits of MandateExecutor and Missions.  *)
(* MapThenSumSet is a recursive function over the subsets of its set.  The *)
(* sum of w over S is the number of units in S, one for each of 1 .. w[x]  *)
(* of every x in S; what holds of cardinalities then holds of sums.        *)
(***************************************************************************)
EXTENDS Integers, FiniteSets, FiniteSetsExt, FiniteSetTheorems, WellFoundedInduction,
        TLAPS

Units(P, w) == {u \in P \X Nat : 1 <= u[2] /\ u[2] <= w[u[1]]}

\* The element MapThenSumSet takes from s first.
Pick(s) == CHOOSE x \in s : TRUE

\* g is what MapThenSumSet computes for each subset of S.
AddsUp(g, S, w) ==
  g = [s \in SUBSET S |-> IF s = {} THEN 0 ELSE w[Pick(s)] + g[s \ {Pick(s)}]]

-----------------------------------------------------------------------------

\* A new element adds its amount to the units.
LEMMA UnitsOne ==
  ASSUME NEW P, NEW x, x \notin P, NEW w, w[x] \in Nat, IsFiniteSet(Units(P, w))
  PROVE  /\ IsFiniteSet(Units(P \cup {x}, w))
         /\ Cardinality(Units(P \cup {x}, w)) = w[x] + Cardinality(Units(P, w))
<1>1. PICK U, V : U = Units(P, w) /\ V = {x} \X (1 .. w[x])
  OBVIOUS
<1>2. Units(P \cup {x}, w) = U \cup V
  BY <1>1 DEF Units
<1>3. U \cap V = {}
  BY <1>1 DEF Units
<1>4. IsFiniteSet(V) /\ Cardinality(V) = w[x]
  <2>1. PICK n \in Nat : n = w[x]
    OBVIOUS
  <2>2. IsFiniteSet({x}) /\ Cardinality({x}) = 1
    BY FS_Singleton
  <2>3. IsFiniteSet(1 .. n) /\ Cardinality(1 .. n) = IF 1 > n THEN 0 ELSE n - 1 + 1
    BY FS_Interval
  <2>4. Cardinality(1 .. n) = n
    BY <2>3
  <2>5. /\ IsFiniteSet({x} \X (1 .. n))
        /\ Cardinality({x} \X (1 .. n)) = Cardinality({x}) * Cardinality(1 .. n)
    BY <2>2, <2>3, FS_Product
  <2> QED BY <1>1, <2>1, <2>2, <2>4, <2>5
<1>5. /\ IsFiniteSet(U) /\ Cardinality(U) \in Nat
  BY <1>1, FS_CardinalityType
<1>6. /\ IsFiniteSet(U \cup V)
      /\ Cardinality(U \cup V) = Cardinality(U) + Cardinality(V) - Cardinality(U \cap V)
  BY <1>4, <1>5, FS_Union
<1>7. Cardinality(U \cap V) = 0
  BY <1>3, FS_EmptySet
<1>8. Cardinality(U \cup V) = w[x] + Cardinality(U)
  BY <1>4, <1>5, <1>6, <1>7
<1> QED BY <1>1, <1>2, <1>6, <1>8

\* One function satisfies the recursion: two would differ first at a minimal set,
\* and agree on what that set is computed from.
LEMMA AddsUpUnique ==
  ASSUME NEW S, IsFiniteSet(S), NEW w, NEW g, NEW h, AddsUp(g, S, w), AddsUp(h, S, w)
  PROVE  g = h
<1> DEFINE B == {s \in SUBSET S : g[s] # h[s]}
<1>1. SUFFICES ASSUME B # {} PROVE FALSE
  BY DEF AddsUp
<1>2. IsWellFoundedOn(StrictSubsetOrdering(S), SUBSET S)
  BY FS_StrictSubsetOrderingWellFounded, FS_FiniteSubsetsOfFinite
<1>3. PICK s \in B : \A t \in B : ~(<<t, s>> \in StrictSubsetOrdering(S))
  <2> HIDE DEF B
  <2>1. B \subseteq SUBSET S
    BY DEF B
  <2> QED BY <1>1, <1>2, <2>1, WFMin
<1>4. g[s] = (IF s = {} THEN 0 ELSE w[Pick(s)] + g[s \ {Pick(s)}])
  BY DEF AddsUp
<1>5. h[s] = (IF s = {} THEN 0 ELSE w[Pick(s)] + h[s \ {Pick(s)}])
  BY DEF AddsUp
<1>6. s # {} /\ s \in SUBSET S
  BY <1>4, <1>5
<1>7. Pick(s) \in s
  BY <1>6 DEF Pick
<1>8. <<s \ {Pick(s)}, s>> \in StrictSubsetOrdering(S)
  BY <1>6, <1>7 DEF StrictSubsetOrdering
<1>9. g[s \ {Pick(s)}] = h[s \ {Pick(s)}]
  BY <1>3, <1>6, <1>8
<1> QED BY <1>4, <1>5, <1>9

\* The units of a finite set are finite: a minimal set with infinitely many has
\* an element, and without it has finitely many.
LEMMA UnitsFinite ==
  ASSUME NEW S, IsFiniteSet(S), NEW w, \A x \in S : w[x] \in Nat
  PROVE  \A s \in SUBSET S : IsFiniteSet(Units(s, w))
<1> DEFINE B == {s \in SUBSET S : ~IsFiniteSet(Units(s, w))}
<1>1. SUFFICES ASSUME B # {} PROVE FALSE
  OBVIOUS
<1>2. IsWellFoundedOn(StrictSubsetOrdering(S), SUBSET S)
  BY FS_StrictSubsetOrderingWellFounded, FS_FiniteSubsetsOfFinite
<1>3. PICK s \in B : \A t \in B : ~(<<t, s>> \in StrictSubsetOrdering(S))
  <2> HIDE DEF B
  <2>1. B \subseteq SUBSET S
    BY DEF B
  <2> QED BY <1>1, <1>2, <2>1, WFMin
<1>4. Units({}, w) = {}
  BY DEF Units
<1>5. PICK x : x \in s
  BY <1>4, FS_EmptySet
<1>6. <<s \ {x}, s>> \in StrictSubsetOrdering(S)
  BY <1>5 DEF StrictSubsetOrdering
<1>7. IsFiniteSet(Units(s \ {x}, w))
  BY <1>3, <1>6
<1>8. s = (s \ {x}) \cup {x} /\ x \notin s \ {x} /\ w[x] \in Nat
  BY <1>5
<1>9. IsFiniteSet(Units((s \ {x}) \cup {x}, w))
  BY <1>7, <1>8, UnitsOne
<1> QED BY <1>8, <1>9

\* The numbers of units satisfy the recursion.
LEMMA UnitsAddUp ==
  ASSUME NEW S, IsFiniteSet(S), NEW w, \A x \in S : w[x] \in Nat
  PROVE  AddsUp([s \in SUBSET S |-> Cardinality(Units(s, w))], S, w)
<1>1. PICK g : g = [s \in SUBSET S |-> Cardinality(Units(s, w))]
  OBVIOUS
<1>2. g[{}] = 0
  <2>1. Units({}, w) = {}
    BY DEF Units
  <2> QED BY <1>1, <2>1, FS_EmptySet
<1>3. ASSUME NEW s \in SUBSET S, s # {}
      PROVE  g[s] = w[Pick(s)] + g[s \ {Pick(s)}]
  <2>1. PICK x : x = Pick(s)
    OBVIOUS
  <2>2. x \in s
    BY <1>3, <2>1 DEF Pick
  <2>3. s = (s \ {x}) \cup {x} /\ x \notin s \ {x} /\ w[x] \in Nat
    BY <2>2
  <2>4. IsFiniteSet(Units(s \ {x}, w))
    BY UnitsFinite
  <2>5. Cardinality(Units((s \ {x}) \cup {x}, w)) = w[x] + Cardinality(Units(s \ {x}, w))
    BY <2>3, <2>4, UnitsOne
  <2>6. g[s] = w[x] + g[s \ {x}]
    BY <1>1, <2>3, <2>5
  <2> QED BY <2>1, <2>6
<1>4. g = [s \in SUBSET S |-> IF s = {} THEN 0 ELSE w[Pick(s)] + g[s \ {Pick(s)}]]
  BY <1>1, <1>2, <1>3
<1> QED BY <1>1, <1>4 DEF AddsUp

\* The sum of the values of a function.
LEMMA SumIsUnits ==
  ASSUME NEW S, IsFiniteSet(S), NEW w, \A x \in S : w[x] \in Nat
  PROVE  MapThenSumSet(LAMBDA x : w[x], S) = Cardinality(Units(S, w))
<1>1. PICK g : g = [s \in SUBSET S |-> Cardinality(Units(s, w))]
  OBVIOUS
<1>2. PICK it : it = CHOOSE h : AddsUp(h, S, w)
  OBVIOUS
<1>3. AddsUp(g, S, w)
  BY <1>1, UnitsAddUp
<1>4. AddsUp(it, S, w)
  BY <1>2, <1>3
<1>5. it = g
  BY <1>3, <1>4, AddsUpUnique
<1>6. MapThenSumSet(LAMBDA x : w[x], S) = (CHOOSE h : AddsUp(h, S, w))[S]
  BY DEF MapThenSumSet, MapThenFoldSet, AddsUp, Pick
<1> QED BY <1>1, <1>2, <1>5, <1>6

\* The sum of the field amount, which w gives for each element of S.
LEMMA AmountsAreUnits ==
  ASSUME NEW S, IsFiniteSet(S), NEW w, \A x \in S : w[x] \in Nat /\ w[x] = x.amount
  PROVE  MapThenSumSet(LAMBDA x : x.amount, S) = Cardinality(Units(S, w))
<1>1. PICK g : g = [s \in SUBSET S |-> Cardinality(Units(s, w))]
  OBVIOUS
<1>2. AddsUp(g, S, w)
  BY <1>1, UnitsAddUp
<1> DEFINE Amounts(h) ==
      h = [s \in SUBSET S |-> IF s = {} THEN 0 ELSE Pick(s).amount + h[s \ {Pick(s)}]]
<1>3. ASSUME NEW s \in SUBSET S, s # {} PROVE w[Pick(s)] = Pick(s).amount
  <2>1. Pick(s) \in s
    BY <1>3 DEF Pick
  <2> QED BY <2>1
<1>4. ASSUME NEW h
      PROVE  [s \in SUBSET S |-> IF s = {} THEN 0 ELSE Pick(s).amount + h[s \ {Pick(s)}]]
               = [s \in SUBSET S |-> IF s = {} THEN 0 ELSE w[Pick(s)] + h[s \ {Pick(s)}]]
  BY <1>3
<1>5. \A h : Amounts(h) <=> AddsUp(h, S, w)
  BY <1>4 DEF AddsUp
<1>6. PICK it : it = CHOOSE h : Amounts(h)
  OBVIOUS
<1>7. Amounts(g)
  BY <1>2, <1>5
<1>8. Amounts(it)
  <2> HIDE DEF Amounts
  <2> QED BY <1>6, <1>7
<1>9. it = g
  <2> HIDE DEF Amounts
  <2>1. AddsUp(it, S, w)
    BY <1>5, <1>8
  <2> QED BY <1>2, <2>1, AddsUpUnique
<1>10. MapThenSumSet(LAMBDA x : x.amount, S) = (CHOOSE h : Amounts(h))[S]
  BY DEF MapThenSumSet, MapThenFoldSet, Pick
<1> QED BY <1>1, <1>6, <1>9, <1>10

-----------------------------------------------------------------------------
(* What the models need. *)

\* Part of a set has no more units than the whole.
LEMMA FewerUnits ==
  ASSUME NEW S, IsFiniteSet(S), NEW P \in SUBSET S, NEW w, \A x \in S : w[x] \in Nat
  PROVE  /\ Cardinality(Units(P, w)) <= Cardinality(Units(S, w))
         /\ Cardinality(Units(P, w)) \in Nat /\ Cardinality(Units(S, w)) \in Nat
<1>1. IsFiniteSet(Units(S, w)) /\ IsFiniteSet(Units(P, w))
  BY UnitsFinite
<1>2. Units(P, w) \subseteq Units(S, w)
  BY DEF Units
<1> QED BY <1>1, <1>2, FS_Subset, FS_CardinalityType

\* Nothing sums to 0.
LEMMA NoAmounts == MapThenSumSet(LAMBDA x : x.amount, {}) = 0
<1>1. PICK w : w = [x \in {} |-> 0]
  OBVIOUS
<1>2. IsFiniteSet({}) /\ Cardinality({}) = 0
  BY FS_EmptySet
<1>3. MapThenSumSet(LAMBDA x : x.amount, {}) = Cardinality(Units({}, w))
  BY <1>2, AmountsAreUnits
<1>4. Units({}, w) = {}
  BY DEF Units
<1> QED BY <1>2, <1>3, <1>4

\* A new element adds its amount to the sum.
LEMMA OneMoreAmount ==
  ASSUME NEW S, IsFiniteSet(S), NEW p, p \notin S, \A x \in S \cup {p} : x.amount \in Nat
  PROVE  /\ MapThenSumSet(LAMBDA x : x.amount, S \cup {p})
              = p.amount + MapThenSumSet(LAMBDA x : x.amount, S)
         /\ MapThenSumSet(LAMBDA x : x.amount, S) \in Nat
<1>1. PICK w : w = [x \in S \cup {p} |-> x.amount]
  OBVIOUS
<1>2. \A x \in S \cup {p} : w[x] \in Nat /\ w[x] = x.amount
  BY <1>1
<1>3. IsFiniteSet(S \cup {p})
  BY FS_AddElement
<1>4. MapThenSumSet(LAMBDA x : x.amount, S \cup {p}) = Cardinality(Units(S \cup {p}, w))
  BY <1>2, <1>3, AmountsAreUnits
<1>5. MapThenSumSet(LAMBDA x : x.amount, S) = Cardinality(Units(S, w))
  BY <1>2, AmountsAreUnits
<1>6. IsFiniteSet(Units(S, w))
  BY <1>2, UnitsFinite
<1>7. Cardinality(Units(S \cup {p}, w)) = w[p] + Cardinality(Units(S, w))
  BY <1>2, <1>6, UnitsOne
<1>8. Cardinality(Units(S, w)) \in Nat /\ w[p] = p.amount
  BY <1>2, <1>6, FS_CardinalityType
<1> QED BY <1>4, <1>5, <1>7, <1>8
=============================================================================
