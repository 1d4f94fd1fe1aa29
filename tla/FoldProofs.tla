----------------------------- MODULE FoldProofs -----------------------------
(***************************************************************************)
(* Inductions over data, in a form without operator parameters: what an    *)
(* induction is about is a set, and the step of a fold is a function.      *)
(* From them, what the sums of the ledgers and the filters of the advisor  *)
(* compute.                                                                *)
(***************************************************************************)
EXTENDS FiniteSetTheorems, SequencesExt, TLAPS

(* For a relation that contains <, a minimal element of a set of natural   *)
(* numbers is its least.                                                   *)
LEMMA MinimalIsLeast ==
  ASSUME NEW S, S \subseteq Nat, S # {}, NEW R, IsWellFoundedOn(R, Nat),
         \A i, j \in Nat : j < i => <<j, i>> \in R
  PROVE  \E i \in S : \A j \in S : i <= j
  <1>1. \E i \in S : \A j \in S : ~ (<<j, i>> \in R) BY WFMin, Zenon
  <1>2. PICK i \in S : \A j \in S : ~ (<<j, i>> \in R) BY <1>1
  <1>3. ASSUME NEW j \in S PROVE i <= j
    <2>1. i \in Nat /\ j \in Nat OBVIOUS
    <2>2. ~ (j < i) BY <1>2, <2>1
    <2> QED BY <2>1, <2>2
  <1> QED BY <1>3

(* A set of naturals that is not empty has a least element: Decide and the *)
(* script's reply both pick the first of several.                          *)
LEMMA LeastExists ==
  ASSUME NEW S, S \subseteq Nat, S # {}
  PROVE  \E i \in S : \A j \in S : i <= j
  <1> DEFINE R == OpToRel(<, Nat)
  <1>1. \A i, j \in Nat : j < i => <<j, i>> \in R BY DEF OpToRel
  <1>2. IsWellFoundedOn(R, Nat) BY NatLessThanWellFounded
  <1> HIDE DEF R
  <1> QED BY <1>1, <1>2, MinimalIsLeast

(* A set that contains 0 and the successor of each of its elements         *)
(* contains every natural number.                                          *)
LEMMA InductiveSet ==
  ASSUME NEW G, 0 \in G, \A n \in Nat : n \in G => n + 1 \in G
  PROVE  Nat \subseteq G
  <1> SUFFICES ASSUME Nat \ G # {} PROVE FALSE OBVIOUS
  <1>1. PICK i \in Nat \ G : \A j \in Nat \ G : i <= j BY LeastExists
  <1>2. i # 0 OBVIOUS
  <1>3. i - 1 \in Nat BY <1>2
  <1>4. i - 1 \in G BY <1>1, <1>3
  <1>5. i - 1 + 1 = i OBVIOUS
  <1> QED BY <1>3, <1>4, <1>5

(* c[s] is an element of s, for every subset s of S that has one. *)
ChoiceOn(c, S) == \A s \in SUBSET S : s # {} => c[s] \in s

(* A set of subsets of a finite set is all of them if it contains the      *)
(* empty one and each that it contains without the element chosen from it. *)
LEMMA SubsetInduction ==
  ASSUME NEW S, IsFiniteSet(S), NEW c, ChoiceOn(c, S), NEW G, {} \in G,
         \A s \in SUBSET S : s # {} /\ s \ {c[s]} \in G => s \in G
  PROVE  SUBSET S \subseteq G
  <1> DEFINE N == {n \in Nat : \A s \in SUBSET S : Cardinality(s) = n => s \in G}
  <1>1. \A s \in SUBSET S : IsFiniteSet(s) /\ Cardinality(s) \in Nat
    BY FS_Subset, FS_CardinalityType
  <1>2. 0 \in N
    <2>1. ASSUME NEW s \in SUBSET S, Cardinality(s) = 0 PROVE s \in G
      <3>1. s = {} BY <1>1, <2>1, FS_EmptySet
      <3> QED BY <3>1
    <2> QED BY <2>1
  <1>3. ASSUME NEW n \in Nat, n \in N PROVE n + 1 \in N
    <2>1. ASSUME NEW s \in SUBSET S, Cardinality(s) = n + 1 PROVE s \in G
      <3>1. s # {}
        <4>1. Cardinality({}) = 0 BY FS_EmptySet
        <4> QED BY <2>1, <4>1
      <3>2. c[s] \in s BY <3>1 DEF ChoiceOn
      <3> DEFINE x == c[s]
                 t == s \ {c[s]}
      <3>3. IsFiniteSet(s) /\ x \in s BY <1>1, <3>2
      <3>4. t \in SUBSET S /\ Cardinality(t) = n
        <4> HIDE DEF x
        <4>1. Cardinality(s \ {x}) = Cardinality(s) - 1 BY <3>3, FS_RemoveElement
        <4>2. t = s \ {x} BY DEF x
        <4>3. t \in SUBSET S OBVIOUS
        <4>4. Cardinality(s \ {x}) = n BY <2>1, <4>1
        <4> QED BY <4>2, <4>3, <4>4
      <3>5. t \in G BY <1>3, <3>4
      <3> QED BY <3>1, <3>5
    <2> QED BY <2>1
  <1>4. Nat \subseteq N
    <2> HIDE DEF N
    <2> QED BY <1>2, <1>3, InductiveSet
  <1> QED BY <1>1, <1>4

(* The recursion of a fold with step F, in the order chosen by c. *)
FoldsTo(g, S, c, base, F) ==
  \A s \in SUBSET S : g[s] = IF s = {} THEN base ELSE F[<<c[s], g[s \ {c[s]}]>>]

(* A fold over a finite set exists: there is a function on its subsets     *)
(* that satisfies the recursion.                                           *)
LEMMA FoldExists ==
  ASSUME NEW S, IsFiniteSet(S), NEW c, ChoiceOn(c, S),
         NEW V, NEW base \in V, NEW F \in [S \X V -> V]
  PROVE  \E g : g \in [SUBSET S -> V] /\ FoldsTo(g, S, c, base, F)
  <1> DEFINE At(g, s) == IF s = {} THEN base ELSE F[<<c[s], g[s \ {c[s]}]>>]
             Upto(g, n) == \A s \in SUBSET S : Cardinality(s) <= n => g[s] = At(g, s)
             N == {n \in Nat : \E g \in [SUBSET S -> V] : Upto(g, n)}
  <1>1. \A s \in SUBSET S : IsFiniteSet(s) /\ Cardinality(s) \in Nat
    BY FS_Subset, FS_CardinalityType
  <1>2. 0 \in N
    <2> DEFINE g == [s \in SUBSET S |-> base]
    <2>1. ASSUME NEW s \in SUBSET S, Cardinality(s) <= 0 PROVE g[s] = At(g, s)
      <3>1. Cardinality(s) = 0 BY <1>1, <2>1
      <3>2. s = {} BY <1>1, <3>1, FS_EmptySet
      <3> QED BY <3>2
    <2>2. Upto(g, 0) BY <2>1
    <2>3. g \in [SUBSET S -> V] OBVIOUS
    <2> HIDE DEF g, Upto
    <2> QED BY <2>2, <2>3
  <1>3. ASSUME NEW n \in Nat, n \in N PROVE n + 1 \in N
    <2>1. PICK g \in [SUBSET S -> V] : Upto(g, n) BY <1>3
    <2> DEFINE h == [s \in SUBSET S |-> At(g, s)]
    <2>2. ASSUME NEW s \in SUBSET S, s # {}
          PROVE  /\ c[s] \in S /\ s \ {c[s]} \in SUBSET S
                 /\ Cardinality(s \ {c[s]}) = Cardinality(s) - 1
      <3>1. c[s] \in s BY <2>2 DEF ChoiceOn
      <3> QED BY <1>1, <3>1, FS_RemoveElement
    <2>3. ASSUME NEW s \in SUBSET S PROVE At(g, s) \in V
      <3>1. CASE s = {} BY <3>1
      <3>2. CASE s # {}
        <4>1. <<c[s], g[s \ {c[s]}]>> \in S \X V BY <2>2, <3>2
        <4> QED BY <3>2, <4>1
      <3> QED BY <3>1, <3>2
    <2>4. h \in [SUBSET S -> V] BY <2>3
    <2>5. ASSUME NEW s \in SUBSET S, Cardinality(s) <= n + 1 PROVE h[s] = At(h, s)
      <3>1. CASE s = {} BY <3>1
      <3>2. CASE s # {}
        <4> DEFINE t == s \ {c[s]}
        <4>1. t \in SUBSET S /\ Cardinality(t) = Cardinality(s) - 1 BY <2>2, <3>2
        <4>2. Cardinality(t) <= n BY <1>1, <2>5, <4>1
        <4>3. g[t] = At(g, t) BY <2>1, <4>1, <4>2
        <4>4. h[t] = At(g, t) BY <4>1
        <4>5. h[s] = F[<<c[s], g[t]>>] BY <3>2
        <4>6. At(h, s) = F[<<c[s], h[t]>>] BY <3>2
        <4> QED BY <4>3, <4>4, <4>5, <4>6
      <3> QED BY <3>1, <3>2
    <2>6. Upto(h, n + 1) BY <2>5
    <2>7. n + 1 \in Nat OBVIOUS
    <2> HIDE DEF h, Upto
    <2> QED BY <2>4, <2>6, <2>7
  <1>4. Cardinality(S) \in N
    <2>1. Nat \subseteq N
      <3> HIDE DEF N
      <3> QED BY <1>2, <1>3, InductiveSet
    <2> HIDE DEF N
    <2> QED BY <1>1, <2>1
  <1>5. PICK g \in [SUBSET S -> V] : Upto(g, Cardinality(S)) BY <1>4
  <1>6. ASSUME NEW s \in SUBSET S PROVE g[s] = At(g, s)
    <2>1. Cardinality(s) <= Cardinality(S) BY FS_Subset
    <2> QED BY <1>5, <2>1
  <1>7. FoldsTo(g, S, c, base, F) BY <1>6 DEF FoldsTo
  <1> QED BY <1>5, <1>7

-----------------------------------------------------------------------------
Pick(s) == CHOOSE x \in s : TRUE

(* The equation of a sum over the subsets of S. *)
SumsOn(g, f, S) ==
  g = [s \in SUBSET S |-> IF s = {} THEN 0 ELSE f[Pick(s)] + g[s \ {Pick(s)}]]

(* The order in which a sum takes the elements. *)
LEMMA PickChooses ==
  ASSUME NEW S
  PROVE  ChoiceOn([s \in SUBSET S |-> Pick(s)], S)
  BY DEF ChoiceOn, Pick

(* There is a function that satisfies it. *)
LEMMA SumsExist ==
  ASSUME NEW S, IsFiniteSet(S), NEW f \in [S -> Int]
  PROVE  \E g : SumsOn(g, f, S)
  <1> DEFINE c == [s \in SUBSET S |-> Pick(s)]
             F == [p \in S \X Int |-> f[p[1]] + p[2]]
  <1>1. ChoiceOn(c, S) BY PickChooses
  <1>2. F \in [S \X Int -> Int] OBVIOUS
  <1>3. \A x \in S, n \in Int : F[<<x, n>>] = f[x] + n OBVIOUS
  <1>4. \A s \in SUBSET S : c[s] = Pick(s) /\ (s # {} => c[s] \in S /\ s \ {c[s]} \in SUBSET S)
    BY DEF Pick
  <1> HIDE DEF c, F
  <1>5. PICK g : g \in [SUBSET S -> Int] /\ FoldsTo(g, S, c, 0, F)
    <2> DEFINE Z == Int
               zero == 0
    <2>1. zero \in Z /\ F \in [S \X Z -> Z] BY <1>2
    <2> HIDE DEF Z, zero
    <2>2. \E g : g \in [SUBSET S -> Z] /\ FoldsTo(g, S, c, zero, F)
      BY <1>1, <2>1, FoldExists, Zenon
    <2> QED BY <2>2 DEF Z, zero
  <1>6. ASSUME NEW s \in SUBSET S
        PROVE  g[s] = IF s = {} THEN 0 ELSE f[Pick(s)] + g[s \ {Pick(s)}]
    <2>1. CASE s = {} BY <1>5, <2>1 DEF FoldsTo
    <2>2. CASE s # {}
      <3>1. c[s] \in S /\ g[s \ {c[s]}] \in Int BY <1>4, <1>5, <2>2
      <3>2. g[s] = F[<<c[s], g[s \ {c[s]}]>>] BY <1>5, <2>2 DEF FoldsTo
      <3> QED BY <1>3, <1>4, <2>2, <3>1, <3>2
    <2> QED BY <2>1, <2>2
  <1>7. g = [s \in SUBSET S |-> IF s = {} THEN 0 ELSE f[Pick(s)] + g[s \ {Pick(s)}]]
    BY <1>5, <1>6
  <1> QED BY <1>7 DEF SumsOn

(* What SumFunctionOnSet computes satisfies it. *)
LEMMA SumEquation ==
  ASSUME NEW S, IsFiniteSet(S), NEW f \in [S -> Int]
  PROVE  \E g : SumsOn(g, f, S) /\ SumFunctionOnSet(f, S) = g[S]
  <1> DEFINE g == CHOOSE g : SumsOn(g, f, S)
  <1>1. SumsOn(g, f, S) BY SumsExist
  <1>2. SumFunctionOnSet(f, S) = g[S]
    BY DEF SumFunctionOnSet, FoldFunctionOnSet, MapThenFoldSet, SumsOn, Pick
  <1> QED BY <1>1, <1>2

(* The sum of integers is an integer, and that of natural numbers is not   *)
(* negative.                                                               *)
LEMMA SumType ==
  ASSUME NEW S, IsFiniteSet(S), NEW f \in [S -> Int]
  PROVE  /\ SumFunction(f) \in Int
         /\ f \in [S -> Nat] => SumFunction(f) >= 0
  <1>1. PICK g : SumsOn(g, f, S) /\ SumFunctionOnSet(f, S) = g[S] BY SumEquation
  <1> DEFINE G == {s \in SUBSET S : g[s] \in Int /\ (f \in [S -> Nat] => g[s] >= 0)}
  <1>2. \A s \in SUBSET S :
          g[s] = IF s = {} THEN 0 ELSE f[Pick(s)] + g[s \ {Pick(s)}]
    BY <1>1 DEF SumsOn
  <1>3. {} \in G
    <2>1. {} \in SUBSET S OBVIOUS
    <2>2. g[{}] = 0 BY <1>2, <2>1
    <2> QED BY <2>1, <2>2
  <1>4. ASSUME NEW s \in SUBSET S, s # {}, s \ {Pick(s)} \in G PROVE s \in G
    <2>1. Pick(s) \in S BY <1>4 DEF Pick
    <2>2. g[s] = f[Pick(s)] + g[s \ {Pick(s)}] BY <1>2, <1>4
    <2>3. f[Pick(s)] \in Int /\ (f \in [S -> Nat] => f[Pick(s)] >= 0) BY <2>1
    <2> QED BY <1>4, <2>2, <2>3
  <1>5. SUBSET S \subseteq G
    <2> DEFINE c == [s \in SUBSET S |-> Pick(s)]
    <2>1. ChoiceOn(c, S) /\ \A s \in SUBSET S : c[s] = Pick(s) BY PickChooses
    <2> HIDE DEF c, G
    <2> QED BY <1>3, <1>4, <2>1, SubsetInduction
  <1>6. SumFunction(f) = g[S] BY <1>1 DEF SumFunction
  <1> QED BY <1>5, <1>6

(* A sum of zeros is zero. *)
LEMMA SumZero ==
  ASSUME NEW S, IsFiniteSet(S), NEW f, f = [x \in S |-> 0]
  PROVE  SumFunction(f) = 0
  <1> f \in [S -> Int] OBVIOUS
  <1>1. PICK g : SumsOn(g, f, S) /\ SumFunctionOnSet(f, S) = g[S] BY SumEquation
  <1> DEFINE G == {s \in SUBSET S : g[s] = 0}
  <1>2. \A s \in SUBSET S :
          g[s] = IF s = {} THEN 0 ELSE f[Pick(s)] + g[s \ {Pick(s)}]
    BY <1>1 DEF SumsOn
  <1>3. {} \in G BY <1>2
  <1>4. ASSUME NEW s \in SUBSET S, s # {}, s \ {Pick(s)} \in G PROVE s \in G
    <2>1. Pick(s) \in S BY <1>4 DEF Pick
    <2>2. g[s] = f[Pick(s)] + g[s \ {Pick(s)}] BY <1>2, <1>4
    <2> QED BY <1>4, <2>1, <2>2
  <1>5. SUBSET S \subseteq G
    <2> DEFINE c == [s \in SUBSET S |-> Pick(s)]
    <2>1. ChoiceOn(c, S) /\ \A s \in SUBSET S : c[s] = Pick(s) BY PickChooses
    <2> HIDE DEF c, G
    <2> QED BY <1>3, <1>4, <2>1, SubsetInduction
  <1>6. SumFunction(f) = g[S] BY <1>1 DEF SumFunction
  <1> QED BY <1>5, <1>6

(* A sum changes by what one of its terms changes. *)
LEMMA SumChange ==
  ASSUME NEW S, IsFiniteSet(S), NEW e \in [S -> Int], NEW f \in [S -> Int], NEW x \in S,
         \A y \in S \ {x} : f[y] = e[y]
  PROVE  SumFunction(f) = SumFunction(e) + (f[x] - e[x])
  <1>1. PICK d : SumsOn(d, e, S) /\ SumFunctionOnSet(e, S) = d[S] BY SumEquation
  <1>2. PICK g : SumsOn(g, f, S) /\ SumFunctionOnSet(f, S) = g[S] BY SumEquation
  <1> DEFINE G == {s \in SUBSET S : /\ d[s] \in Int
                                   /\ g[s] = d[s] + (IF x \in s THEN f[x] - e[x] ELSE 0)}
  <1>3. \A s \in SUBSET S :
          /\ d[s] = IF s = {} THEN 0 ELSE e[Pick(s)] + d[s \ {Pick(s)}]
          /\ g[s] = IF s = {} THEN 0 ELSE f[Pick(s)] + g[s \ {Pick(s)}]
    BY <1>1, <1>2 DEF SumsOn
  <1>4. {} \in G
    <2>1. {} \in SUBSET S OBVIOUS
    <2>2. d[{}] = 0 /\ g[{}] = 0 BY <1>3, <2>1
    <2> QED BY <2>1, <2>2
  <1>5. ASSUME NEW s \in SUBSET S, s # {}, s \ {Pick(s)} \in G PROVE s \in G
    <2> DEFINE p == Pick(s)
    <2>1. p \in s /\ p \in S BY <1>5 DEF Pick
    <2>2. d[s] = e[p] + d[s \ {p}] /\ g[s] = f[p] + g[s \ {p}] BY <1>3, <1>5
    <2>3. e[p] \in Int /\ f[p] \in Int /\ e[x] \in Int /\ f[x] \in Int BY <2>1
    <2>4. /\ d[s \ {p}] \in Int
          /\ g[s \ {p}] = d[s \ {p}] + (IF x \in s \ {p} THEN f[x] - e[x] ELSE 0)
      BY <1>5
    <2> HIDE DEF p
    <2>5. CASE x = p
      <3>1. g[s \ {p}] = d[s \ {p}] BY <2>4, <2>5
      <3>2. g[s] = d[s] + (f[x] - e[x]) BY <2>2, <2>3, <2>4, <2>5, <3>1
      <3> QED BY <2>1, <2>2, <2>3, <2>4, <2>5, <3>2
    <2>6. CASE x # p
      <3>1. f[p] = e[p] BY <2>1, <2>6
      <3>2. x \in s \ {p} <=> x \in s BY <2>6
      <3> QED BY <2>2, <2>3, <2>4, <3>1, <3>2
    <2> QED BY <2>5, <2>6
  <1>6. SUBSET S \subseteq G
    <2> DEFINE c == [s \in SUBSET S |-> Pick(s)]
    <2>1. ChoiceOn(c, S) /\ \A s \in SUBSET S : c[s] = Pick(s) BY PickChooses
    <2> HIDE DEF c, G
    <2> QED BY <1>4, <1>5, <2>1, SubsetInduction
  <1>7. SumFunction(f) = g[S] /\ SumFunction(e) = d[S] BY <1>1, <1>2 DEF SumFunction
  <1>8. S \in G BY <1>6
  <1> QED BY <1>7, <1>8

(* The induction that a sum over S follows, which takes its terms in the   *)
(* order Pick chooses them.                                                *)
LEMMA PickInduction ==
  ASSUME NEW S, IsFiniteSet(S), NEW G, {} \in G,
         \A s \in SUBSET S : s # {} /\ s \ {Pick(s)} \in G => s \in G
  PROVE  SUBSET S \subseteq G
  <1> DEFINE c == [s \in SUBSET S |-> Pick(s)]
  <1>1. ChoiceOn(c, S) /\ \A s \in SUBSET S : c[s] = Pick(s) BY PickChooses
  <1> HIDE DEF c
  <1> QED BY <1>1, SubsetInduction

(* Where every term is bounded by the sum of two others, so is the sum. *)
LEMMA SumBelow ==
  ASSUME NEW S, IsFiniteSet(S),
         NEW e \in [S -> Int], NEW f \in [S -> Int], NEW h \in [S -> Int],
         \A x \in S : e[x] <= f[x] + h[x]
  PROVE  SumFunction(e) <= SumFunction(f) + SumFunction(h)
  <1>1. PICK a : SumsOn(a, e, S) /\ SumFunctionOnSet(e, S) = a[S] BY SumEquation
  <1>2. PICK b : SumsOn(b, f, S) /\ SumFunctionOnSet(f, S) = b[S] BY SumEquation
  <1>3. PICK c : SumsOn(c, h, S) /\ SumFunctionOnSet(h, S) = c[S] BY SumEquation
  <1> DEFINE G == {s \in SUBSET S : /\ a[s] \in Int /\ b[s] \in Int /\ c[s] \in Int
                                   /\ a[s] <= b[s] + c[s]}
  <1>4. \A s \in SUBSET S :
          /\ a[s] = IF s = {} THEN 0 ELSE e[Pick(s)] + a[s \ {Pick(s)}]
          /\ b[s] = IF s = {} THEN 0 ELSE f[Pick(s)] + b[s \ {Pick(s)}]
          /\ c[s] = IF s = {} THEN 0 ELSE h[Pick(s)] + c[s \ {Pick(s)}]
    BY <1>1, <1>2, <1>3 DEF SumsOn
  <1>5. {} \in G
    <2>1. {} \in SUBSET S OBVIOUS
    <2>2. a[{}] = 0 /\ b[{}] = 0 /\ c[{}] = 0 BY <1>4, <2>1
    <2> QED BY <2>1, <2>2
  <1>6. ASSUME NEW s \in SUBSET S, s # {}, s \ {Pick(s)} \in G PROVE s \in G
    <2> DEFINE p == Pick(s)
               t == s \ {p}
    <2>1. p \in S BY <1>6 DEF Pick
    <2>2. a[s] = e[p] + a[t] /\ b[s] = f[p] + b[t] /\ c[s] = h[p] + c[t] BY <1>4, <1>6
    <2>3. e[p] \in Int /\ f[p] \in Int /\ h[p] \in Int /\ e[p] <= f[p] + h[p] BY <2>1
    <2>4. a[t] \in Int /\ b[t] \in Int /\ c[t] \in Int /\ a[t] <= b[t] + c[t] BY <1>6
    <2> HIDE DEF p, t
    <2> QED BY <2>2, <2>3, <2>4
  <1>7. \A s \in SUBSET S : s # {} /\ s \ {Pick(s)} \in G => s \in G BY <1>6
  <1>8. SUBSET S \subseteq G
    <2> HIDE DEF G
    <2> QED BY <1>5, <1>7, PickInduction
  <1>9. SumFunction(e) = a[S] /\ SumFunction(f) = b[S] /\ SumFunction(h) = c[S]
    BY <1>1, <1>2, <1>3 DEF SumFunction
  <1>10. S \in G BY <1>8
  <1> QED BY <1>9, <1>10

-----------------------------------------------------------------------------
(* A set of natural numbers up to n that is not empty has a greatest       *)
(* element: FoldLeft takes the elements of a sequence from the last one.   *)
LEMMA MaxChooses ==
  ASSUME NEW n \in Nat, NEW s \in SUBSET (1 .. n), s # {}
  PROVE  Max(s) \in s
  <1> DEFINE T == {n - i : i \in s}
  <1>1. T \subseteq Nat /\ T # {}
    <2>1. \A i \in s : i \in Int /\ n - i \in Nat OBVIOUS
    <2> QED BY <2>1
  <1>2. PICK t \in T : \A u \in T : t <= u BY <1>1, LeastExists
  <1>3. PICK x \in s : t = n - x BY <1>2
  <1>4. ASSUME NEW y \in s PROVE x >= y
    <2>1. n - y \in T OBVIOUS
    <2>2. n - x <= n - y BY <1>2, <1>3, <2>1
    <2>3. x \in Int /\ y \in Int OBVIOUS
    <2> QED BY <2>2, <2>3
  <1> QED BY <1>4 DEF Max

(* The order in which FoldLeft takes the elements. *)
LEMMA MaxChoice ==
  ASSUME NEW n \in Nat
  PROVE  ChoiceOn([s \in SUBSET (1 .. n) |-> Max(s)], 1 .. n)
  BY MaxChooses DEF ChoiceOn

(* The recursion of a fold from the left over a list of length n, with the *)
(* values in V and step F.                                                 *)
LeftFolds(g, n, V, F) ==
  /\ g \in [SUBSET (1 .. n) -> V]
  /\ \A s \in SUBSET (1 .. n) :
       g[s] = IF s = {} THEN <<>> ELSE F[<<Max(s), g[s \ {Max(s)}]>>]

(* There is such a fold, from the empty list. *)
LEMMA LeftFoldExists ==
  ASSUME NEW n \in Nat, NEW V, <<>> \in V, NEW F \in [(1 .. n) \X V -> V]
  PROVE  \E g : LeftFolds(g, n, V, F)
  <1> DEFINE S == 1 .. n
             c == [s \in SUBSET S |-> Max(s)]
             e == <<>>
  <1>1. IsFiniteSet(S) BY FS_Interval
  <1>2. ChoiceOn(c, S) BY MaxChoice
  <1>3. \A s \in SUBSET S : c[s] = Max(s) OBVIOUS
  <1>4. e \in V /\ F \in [S \X V -> V] OBVIOUS
  <1> HIDE DEF S, c, e
  <1>5. PICK g : g \in [SUBSET S -> V] /\ FoldsTo(g, S, c, e, F)
    BY <1>1, <1>2, <1>4, FoldExists, Zenon
  <1>6. \A s \in SUBSET S : g[s] = IF s = {} THEN e ELSE F[<<Max(s), g[s \ {Max(s)}]>>]
    BY <1>3, <1>5 DEF FoldsTo
  <1> QED BY <1>5, <1>6 DEF S, e, LeftFolds

(* A fold from the empty list over q, of length n, each of whose steps     *)
(* leaves a list of V as it is or appends the element of q it has come to, *)
(* and stays in V.                                                         *)
Filters(g, n, q, V) ==
  /\ g[{}] = <<>>
  /\ \A s \in SUBSET (1 .. n) : s # {} /\ g[s \ {Max(s)}] \in V =>
       /\ g[s] \in V
       /\ g[s] = g[s \ {Max(s)}] \/ g[s] = Append(g[s \ {Max(s)}], q[Max(s)])

(* Its result is in V and not longer than q. *)
LEMMA FilterFold ==
  ASSUME NEW n \in Nat, NEW q, NEW D, NEW V, V \subseteq Seq(D), <<>> \in V,
         NEW g, Filters(g, n, q, V)
  PROVE  g[1 .. n] \in V /\ Len(g[1 .. n]) <= n
  <1>0. /\ g[{}] = <<>>
        /\ \A s \in SUBSET (1 .. n) : s # {} /\ g[s \ {Max(s)}] \in V =>
             /\ g[s] \in V
             /\ g[s] = g[s \ {Max(s)}] \/ g[s] = Append(g[s \ {Max(s)}], q[Max(s)])
    BY DEF Filters
  <1> DEFINE S == 1 .. n
             c == [s \in SUBSET S |-> Max(s)]
             G == {s \in SUBSET S : g[s] \in V /\ Len(g[s]) <= Cardinality(s)}
  <1>1. IsFiniteSet(S) /\ Cardinality(S) = n BY FS_Interval
  <1>2. ChoiceOn(c, S) /\ \A s \in SUBSET S : c[s] = Max(s) BY MaxChoice
  <1>3. {} \in G
    <2>1. Cardinality({}) = 0 BY FS_EmptySet
    <2> QED BY <1>0, <2>1
  <1>4. ASSUME NEW s \in SUBSET S, s # {}, s \ {Max(s)} \in G PROVE s \in G
    <2> DEFINE t == s \ {Max(s)}
    <2>1. Max(s) \in s BY <1>4, MaxChooses
    <2>2. IsFiniteSet(s) /\ Cardinality(s) \in Nat BY <1>1, FS_Subset, FS_CardinalityType
    <2>3. Cardinality(t) = Cardinality(s) - 1 BY <2>1, <2>2, FS_RemoveElement
    <2>4. g[t] \in V /\ Len(g[t]) <= Cardinality(t) BY <1>4
    <2>5. g[s] \in V /\ (g[s] = g[t] \/ g[s] = Append(g[t], q[Max(s)])) BY <1>0, <1>4, <2>4
    <2>6. g[t] \in Seq(D) BY <2>4
    <2> HIDE DEF t
    <2>7. Len(g[t]) \in Nat /\ Len(Append(g[t], q[Max(s)])) = Len(g[t]) + 1 BY <2>6
    <2>8. Len(g[s]) <= Cardinality(s) BY <2>2, <2>3, <2>4, <2>5, <2>7
    <2> QED BY <2>5, <2>8
  <1>5. SUBSET S \subseteq G
    <2> HIDE DEF S, c, G
    <2>1. \A s \in SUBSET S : s # {} /\ s \ {c[s]} \in G => s \in G BY <1>2, <1>4
    <2> QED BY <1>1, <1>2, <1>3, <2>1, SubsetInduction
  <1>6. S \in G BY <1>5
  <1> QED BY <1>1, <1>6

=============================================================================
