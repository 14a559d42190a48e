---------------------------- MODULE SumTheorems ----------------------------
(***************************************************************************)
(* What SumFunctionOnSet of the community modules computes.  It is a fold  *)
(* over the subsets of a finite set, so every fact about it needs an       *)
(* induction: SubsetInduction, stated with the set of the subsets that a   *)
(* fact holds of.                                                          *)
(***************************************************************************)
EXTENDS Integers, FiniteSets, FiniteSetsExt, Functions, FiniteSetTheorems, WellFoundedInduction, TLAPS

\* What holds of a set whenever it holds of its proper subsets holds of every finite set.
LEMMA SubsetInduction ==
    ASSUME NEW S, IsFiniteSet(S), NEW Good,
           \A T \in SUBSET S : (\A U \in SUBSET T : U # T => U \in Good) => T \in Good
    PROVE  S \in Good
<1> DEFINE Bad == {T \in SUBSET S : T \notin Good}
<1> SUFFICES ASSUME S \notin Good PROVE FALSE
  OBVIOUS
<1>1. Bad # {} /\ Bad \subseteq SUBSET S
  OBVIOUS
<1>2. /\ FiniteSubsetsOf(S) = SUBSET S
      /\ IsWellFoundedOn(StrictSubsetOrdering(S), FiniteSubsetsOf(S))
  BY FS_FiniteSubsetsOfFinite, FS_StrictSubsetOrderingWellFounded
<1>3. PICK T \in Bad : \A U \in Bad : <<U, T>> \notin StrictSubsetOrdering(S)
  <2> HIDE DEF Bad
  <2> QED BY <1>1, <1>2, WFMin
<1>4. ASSUME NEW U \in SUBSET T, U # T PROVE U \in Good
  BY <1>3, <1>4 DEF StrictSubsetOrdering
<1> QED BY <1>3, <1>4

-----------------------------------------------------------------------------
(* The recursion that the fold is made of. *)

Picked(S) == CHOOSE x \in S : TRUE

\* g sums f over the subsets of S.
SumsBelow(g, f, S) ==
    g = [T \in SUBSET S |-> IF T = {} THEN 0 ELSE f[Picked(T)] + g[T \ {Picked(T)}]]

LEMMA SumIsSummed ==
    ASSUME NEW f, NEW S, NEW h, SumsBelow(h, f, S)
    PROVE  \E g : SumsBelow(g, f, S) /\ SumFunctionOnSet(f, S) = g[S]
BY DEF SumFunctionOnSet, FoldFunctionOnSet, MapThenFoldSet, SumsBelow, Picked

LEMMA PickedIsIn ==
    ASSUME NEW S, S # {}
    PROVE  Picked(S) \in S
BY DEF Picked

\* The recursion determines the sums.
LEMMA SumsAgree ==
    ASSUME NEW f, NEW S, IsFiniteSet(S), NEW A, NEW B, S \subseteq A, S \subseteq B,
           NEW g, SumsBelow(g, f, A), NEW h, SumsBelow(h, f, B)
    PROVE  g[S] = h[S]
<1> DEFINE Good == {T \in SUBSET S : g[T] = h[T]}
<1>1. ASSUME NEW T \in SUBSET S, \A U \in SUBSET T : U # T => U \in Good
      PROVE  T \in Good
  <2>1. /\ g[T] = IF T = {} THEN 0 ELSE f[Picked(T)] + g[T \ {Picked(T)}]
        /\ h[T] = IF T = {} THEN 0 ELSE f[Picked(T)] + h[T \ {Picked(T)}]
    BY DEF SumsBelow
  <2>2. T # {} => g[T \ {Picked(T)}] = h[T \ {Picked(T)}]
    BY <1>1, PickedIsIn
  <2> QED BY <2>1, <2>2
<1>2. S \in Good
  <2> HIDE DEF Good
  <2> QED BY <1>1, SubsetInduction
<1> QED BY <1>2

\* The sums exist.
LEMMA SumsExist ==
    ASSUME NEW f, NEW S, IsFiniteSet(S)
    PROVE  \E g : SumsBelow(g, f, S)
<1> DEFINE Good == {T \in SUBSET S : \E g : SumsBelow(g, f, T)}
<1>1. ASSUME NEW T \in SUBSET S, \A U \in SUBSET T : U # T => U \in Good
      PROVE  T \in Good
  <2> DEFINE Below(U) == CHOOSE g : SumsBelow(g, f, U)
             g == [U \in SUBSET T |-> IF U = {} THEN 0
                                      ELSE f[Picked(U)] + Below(U \ {Picked(U)})[U \ {Picked(U)}]]
  <2>1. ASSUME NEW U \in SUBSET T, U # T PROVE SumsBelow(Below(U), f, U)
    <3>1. \E h : SumsBelow(h, f, U)
      BY <1>1, <2>1
    <3> QED BY <3>1
  <2>2. ASSUME NEW U \in SUBSET T, U # T PROVE g[U] = Below(U)[U]
    <3> DEFINE V == U \ {Picked(U)}
    <3>1. SumsBelow(Below(U), f, U)
      BY <2>1, <2>2
    <3> HIDE DEF Below
    <3>2. Below(U)[U] = IF U = {} THEN 0 ELSE f[Picked(U)] + Below(U)[V]
      BY <3>1 DEF SumsBelow
    <3>3. CASE U = {}
      BY <3>2, <3>3
    <3>4. CASE U # {}
      <4>1. V \in SUBSET T /\ V # T /\ V \subseteq U
        BY <3>4, PickedIsIn
      <4>2. SumsBelow(Below(V), f, V)
        BY <2>1, <4>1
      <4>3. IsFiniteSet(V)
        BY <4>1, FS_Subset
      <4> HIDE DEF V
      <4>4. Below(V)[V] = Below(U)[V]
        BY <3>1, <4>1, <4>2, <4>3, SumsAgree
      <4> QED BY <3>2, <3>4, <4>4 DEF V
    <3> QED BY <3>3, <3>4
  <2>3. ASSUME NEW U \in SUBSET T
        PROVE  g[U] = IF U = {} THEN 0 ELSE f[Picked(U)] + g[U \ {Picked(U)}]
    <3>1. CASE U # {}
      <4> DEFINE V == U \ {Picked(U)}
      <4>1. V \in SUBSET T /\ V # T
        BY <3>1, PickedIsIn
      <4>2. g[V] = Below(V)[V]
        BY <2>2, <4>1
      <4>3. g[U] = f[Picked(U)] + Below(V)[V]
        BY <3>1
      <4> HIDE DEF g, V, Below
      <4> QED BY <3>1, <4>2, <4>3 DEF V
    <3> QED BY <3>1
  <2> HIDE DEF Below
  <2>4. g = [U \in SUBSET T |-> IF U = {} THEN 0 ELSE f[Picked(U)] + g[U \ {Picked(U)}]]
    BY <2>3
  <2> HIDE DEF g
  <2>5. SumsBelow(g, f, T)
    BY <2>4 DEF SumsBelow
  <2> QED BY <2>5
<1>2. S \in Good
  <2> HIDE DEF Good
  <2> QED BY <1>1, SubsetInduction
<1> QED BY <1>2

LEMMA SumUnfolds ==
    ASSUME NEW f, NEW S, IsFiniteSet(S)
    PROVE  SumFunctionOnSet(f, S) =
               IF S = {} THEN 0
               ELSE f[Picked(S)] + SumFunctionOnSet(f, S \ {Picked(S)})
<1> DEFINE R == S \ {Picked(S)}
<1>1. IsFiniteSet(R)
  BY FS_Subset
<1>2. PICK g : SumsBelow(g, f, S) /\ SumFunctionOnSet(f, S) = g[S]
  BY SumsExist, SumIsSummed
<1>3. PICK h : SumsBelow(h, f, R) /\ SumFunctionOnSet(f, R) = h[R]
  BY <1>1, SumsExist, SumIsSummed
<1>4. g[R] = h[R]
  <2>1. R \subseteq S
    OBVIOUS
  <2> HIDE DEF R
  <2> QED BY <1>1, <1>2, <1>3, <2>1, SumsAgree
<1>5. g[S] = IF S = {} THEN 0 ELSE f[Picked(S)] + g[R]
  BY <1>2 DEF SumsBelow
<1> QED BY <1>2, <1>3, <1>4, <1>5

-----------------------------------------------------------------------------
(* What the rest of the proofs use. *)

LEMMA SumOfNothing ==
    ASSUME NEW f
    PROVE  SumFunctionOnSet(f, {}) = 0
BY SumUnfolds, FS_EmptySet

LEMMA SumType ==
    ASSUME NEW S, IsFiniteSet(S), NEW f, \A x \in S : f[x] \in Int
    PROVE  SumFunctionOnSet(f, S) \in Int
<1> DEFINE Good == {T \in SUBSET S : SumFunctionOnSet(f, T) \in Int}
<1>1. ASSUME NEW T \in SUBSET S, \A U \in SUBSET T : U # T => U \in Good
      PROVE  T \in Good
  <2>1. IsFiniteSet(T)
    BY FS_Subset
  <2>2. CASE T = {}
    BY <2>2, SumOfNothing
  <2>3. CASE T # {}
    <3>1. Picked(T) \in T /\ SumFunctionOnSet(f, T \ {Picked(T)}) \in Int
      BY <1>1, <2>3, PickedIsIn
    <3> QED BY <2>1, <2>3, <3>1, SumUnfolds
  <2> QED BY <2>2, <2>3
<1>2. S \in Good
  <2> HIDE DEF Good
  <2> QED BY <1>1, SubsetInduction
<1> QED BY <1>2

\* Any element can be taken out of a sum.
LEMMA SumWithout ==
    ASSUME NEW S, IsFiniteSet(S), NEW f, \A x \in S : f[x] \in Int, NEW x \in S
    PROVE  SumFunctionOnSet(f, S) = f[x] + SumFunctionOnSet(f, S \ {x})
<1> DEFINE Sum(T) == SumFunctionOnSet(f, T)
           Good == {T \in SUBSET S : \A y \in T : Sum(T) = f[y] + Sum(T \ {y})}
<1>1. ASSUME NEW T \in SUBSET S, \A U \in SUBSET T : U # T => U \in Good, NEW y \in T
      PROVE  Sum(T) = f[y] + Sum(T \ {y})
  <2> DEFINE p == Picked(T)
  <2>1. p \in T
    BY PickedIsIn
  <2>2. \A U \in SUBSET T : IsFiniteSet(U) /\ Sum(U) \in Int
    BY FS_Subset, SumType
  <2>3. Sum(T) = f[p] + Sum(T \ {p})
    BY <2>1, <2>2, SumUnfolds
  <2>4. CASE p # y
    <3>1. Sum(T \ {p}) = f[y] + Sum((T \ {p}) \ {y})
      <4>1. T \ {p} \in SUBSET T /\ T \ {p} # T /\ y \in T \ {p}
        BY <2>1, <2>4
      <4> QED BY <1>1, <4>1
    <3>2. Sum(T \ {y}) = f[p] + Sum((T \ {y}) \ {p})
      <4>1. T \ {y} \in SUBSET T /\ T \ {y} # T /\ p \in T \ {y}
        BY <2>1, <2>4
      <4> QED BY <1>1, <4>1
    <3>3. (T \ {p}) \ {y} = (T \ {y}) \ {p}
      OBVIOUS
    <3>4. f[p] \in Int /\ f[y] \in Int /\ Sum((T \ {y}) \ {p}) \in Int
      BY <2>1, <2>2
    <3> HIDE DEF Sum, p
    <3>5. Sum((T \ {p}) \ {y}) = Sum((T \ {y}) \ {p})
      BY <3>3
    <3> QED BY <2>3, <3>1, <3>2, <3>4, <3>5
  <2> HIDE DEF Sum
  <2> QED BY <2>3, <2>4
<1>2. S \in Good
  <2>1. ASSUME NEW T \in SUBSET S, \A U \in SUBSET T : U # T => U \in Good
        PROVE  T \in Good
    BY <1>1, <2>1
  <2> HIDE DEF Good
  <2> QED BY <2>1, SubsetInduction
<1> QED BY <1>2

LEMMA SumWith ==
    ASSUME NEW S, IsFiniteSet(S), NEW y, y \notin S, NEW f, \A x \in S \cup {y} : f[x] \in Int
    PROVE  SumFunctionOnSet(f, S \cup {y}) = f[y] + SumFunctionOnSet(f, S)
<1> DEFINE T == S \cup {y}
<1>1. IsFiniteSet(T) /\ y \in T /\ T \ {y} = S
  BY FS_AddElement
<1> HIDE DEF T
<1>2. SumFunctionOnSet(f, T) = f[y] + SumFunctionOnSet(f, T \ {y})
  BY <1>1, SumWithout DEF T
<1> QED BY <1>1, <1>2 DEF T

LEMMA SumSame ==
    ASSUME NEW S, IsFiniteSet(S), NEW f, NEW g, \A x \in S : f[x] = g[x]
    PROVE  SumFunctionOnSet(f, S) = SumFunctionOnSet(g, S)
<1> DEFINE Good == {T \in SUBSET S : SumFunctionOnSet(f, T) = SumFunctionOnSet(g, T)}
<1>1. ASSUME NEW T \in SUBSET S, \A U \in SUBSET T : U # T => U \in Good
      PROVE  T \in Good
  <2>1. IsFiniteSet(T)
    BY FS_Subset
  <2>2. CASE T = {}
    BY <2>2, SumOfNothing
  <2>3. CASE T # {}
    <3>1. /\ Picked(T) \in T
          /\ SumFunctionOnSet(f, T \ {Picked(T)}) = SumFunctionOnSet(g, T \ {Picked(T)})
      BY <1>1, <2>3, PickedIsIn
    <3> QED BY <2>1, <2>3, <3>1, SumUnfolds
  <2> QED BY <2>2, <2>3
<1>2. S \in Good
  <2> HIDE DEF Good
  <2> QED BY <1>1, SubsetInduction
<1> QED BY <1>2

LEMMA SumMonotone ==
    ASSUME NEW S, IsFiniteSet(S), NEW f, NEW g,
           \A x \in S : f[x] \in Int /\ g[x] \in Int /\ f[x] <= g[x]
    PROVE  SumFunctionOnSet(f, S) <= SumFunctionOnSet(g, S)
<1> DEFINE Good == {T \in SUBSET S : SumFunctionOnSet(f, T) <= SumFunctionOnSet(g, T)}
<1>1. ASSUME NEW T \in SUBSET S, \A U \in SUBSET T : U # T => U \in Good
      PROVE  T \in Good
  <2>1. \A U \in SUBSET T : /\ IsFiniteSet(U)
                            /\ SumFunctionOnSet(f, U) \in Int
                            /\ SumFunctionOnSet(g, U) \in Int
    BY FS_Subset, SumType
  <2>2. CASE T = {}
    BY <2>2, SumOfNothing
  <2>3. CASE T # {}
    <3> DEFINE p == Picked(T)
               R == T \ {p}
    <3>1. p \in T /\ SumFunctionOnSet(f, R) <= SumFunctionOnSet(g, R)
      BY <1>1, <2>3, PickedIsIn
    <3>2. /\ SumFunctionOnSet(f, T) = f[p] + SumFunctionOnSet(f, R)
          /\ SumFunctionOnSet(g, T) = g[p] + SumFunctionOnSet(g, R)
      BY <2>1, <2>3, SumUnfolds
    <3>3. /\ SumFunctionOnSet(f, R) \in Int /\ SumFunctionOnSet(g, R) \in Int
          /\ f[p] \in Int /\ g[p] \in Int /\ f[p] <= g[p]
      BY <2>1, <3>1
    <3> HIDE DEF R, p
    <3> QED BY <3>1, <3>2, <3>3
  <2> QED BY <2>2, <2>3
<1>2. S \in Good
  <2> HIDE DEF Good
  <2> QED BY <1>1, SubsetInduction
<1> QED BY <1>2

\* Only the part that is not zero counts.
LEMMA SumOfSupport ==
    ASSUME NEW S, IsFiniteSet(S), NEW f, \A x \in S : f[x] \in Int,
           NEW T \in SUBSET S, \A x \in S \ T : f[x] = 0
    PROVE  SumFunctionOnSet(f, S) = SumFunctionOnSet(f, T)
<1> DEFINE Alike == {R \in SUBSET S : SumFunctionOnSet(f, R) = SumFunctionOnSet(f, R \cap T)}
<1>1. ASSUME NEW R \in SUBSET S PROVE IsFiniteSet(R) /\ SumFunctionOnSet(f, R) \in Int
  BY FS_Subset, SumType
<1>2. ASSUME NEW Q \in SUBSET S, \A U \in SUBSET Q : U # Q => U \in Alike
      PROVE  Q \in Alike
  <2>1. CASE Q = {}
    <3>1. Q \cap T = Q
      BY <2>1
    <3> QED BY <3>1
  <2>2. CASE Q # {}
    <3> DEFINE p == Picked(Q)
               P == Q \ {p}
    <3>1. /\ p \in Q /\ SumFunctionOnSet(f, P) = SumFunctionOnSet(f, P \cap T)
          /\ IsFiniteSet(Q) /\ IsFiniteSet(Q \cap T)
      BY <1>1, <1>2, <2>2, PickedIsIn
    <3>2. SumFunctionOnSet(f, Q) = f[p] + SumFunctionOnSet(f, P)
      BY <2>2, <3>1, SumUnfolds
    <3>3. SumFunctionOnSet(f, P \cap T) \in Int
      BY <1>1
    <3>4. CASE p \in T
      <4>1. p \in Q \cap T /\ (Q \cap T) \ {p} = P \cap T
        BY <3>1, <3>4
      <4>2. SumFunctionOnSet(f, Q \cap T) = f[p] + SumFunctionOnSet(f, (Q \cap T) \ {p})
        BY <3>1, <4>1, SumWithout
      <4> QED BY <3>1, <3>2, <4>1, <4>2
    <3>5. CASE p \notin T
      <4>1. Q \cap T = P \cap T /\ f[p] = 0
        BY <3>1, <3>5
      <4>2. SumFunctionOnSet(f, Q \cap T) = SumFunctionOnSet(f, P \cap T)
        BY <4>1
      <4>3. SumFunctionOnSet(f, Q) = SumFunctionOnSet(f, P \cap T)
        <5> DEFINE m == SumFunctionOnSet(f, P \cap T)
        <5>1. SumFunctionOnSet(f, Q) = 0 + m /\ m \in Int
          BY <3>1, <3>2, <3>3, <4>1
        <5> HIDE DEF m
        <5>2. SumFunctionOnSet(f, Q) = m
          BY <5>1
        <5> QED BY <5>2 DEF m
      <4> QED BY <4>2, <4>3
    <3> QED BY <3>4, <3>5
  <2> QED BY <2>1, <2>2
<1>3. S \in Alike
  <2> HIDE DEF Alike
  <2> QED BY <1>2, SubsetInduction
<1>4. S \cap T = T
  OBVIOUS
<1> QED BY <1>3, <1>4

\* A part of a sum of numbers that are not negative is at most the whole.
LEMMA SumOfPart ==
    ASSUME NEW S, IsFiniteSet(S), NEW f, \A x \in S : f[x] \in Nat, NEW T \in SUBSET S
    PROVE  /\ SumFunctionOnSet(f, T) \in Nat
           /\ SumFunctionOnSet(f, T) <= SumFunctionOnSet(f, S)
<1> DEFINE none == [x \in S |-> 0]
           some == [x \in S |-> IF x \in T THEN f[x] ELSE 0]
<1>1. ASSUME NEW R \in SUBSET S PROVE IsFiniteSet(R) /\ SumFunctionOnSet(f, R) \in Int
  BY FS_Subset, SumType
<1>2. SumFunctionOnSet(none, T) = 0
  <2>1. /\ \A x \in T : none[x] \in Int
        /\ {} \in SUBSET T
        /\ \A x \in T \ {} : none[x] = 0
    OBVIOUS
  <2> HIDE DEF none
  <2>2. SumFunctionOnSet(none, T) = SumFunctionOnSet(none, {})
    BY <1>1, <2>1, SumOfSupport
  <2> QED BY <2>2, SumOfNothing
<1>3. SumFunctionOnSet(some, S) = SumFunctionOnSet(f, T)
  <2>1. /\ \A x \in S : some[x] \in Int
        /\ \A x \in S \ T : some[x] = 0
        /\ \A x \in T : some[x] = f[x]
    OBVIOUS
  <2> HIDE DEF some
  <2>2. SumFunctionOnSet(some, S) = SumFunctionOnSet(some, T)
    BY <2>1, SumOfSupport
  <2>3. SumFunctionOnSet(some, T) = SumFunctionOnSet(f, T)
    BY <1>1, <2>1, SumSame
  <2> QED BY <2>2, <2>3
<1>4. SumFunctionOnSet(none, T) <= SumFunctionOnSet(f, T)
  <2>1. \A x \in T : none[x] \in Int /\ f[x] \in Int /\ none[x] <= f[x]
    OBVIOUS
  <2> HIDE DEF none
  <2> QED BY <1>1, <2>1, SumMonotone
<1>5. SumFunctionOnSet(some, S) <= SumFunctionOnSet(f, S)
  <2>1. \A x \in S : some[x] \in Int /\ f[x] \in Int /\ some[x] <= f[x]
    OBVIOUS
  <2> HIDE DEF some
  <2> QED BY <2>1, SumMonotone
<1> QED BY <1>1, <1>2, <1>3, <1>4, <1>5

\* A sum over an image, when no two elements have one image.
LEMMA SumReindexed ==
    ASSUME NEW S, IsFiniteSet(S), NEW h, \A x, y \in S : h[x] = h[y] => x = y,
           NEW f, \A x \in S : f[h[x]] \in Int
    PROVE  SumFunctionOnSet(f, {h[x] : x \in S}) = SumFunctionOnSet([x \in S |-> f[h[x]]], S)
<1> DEFINE g == [x \in S |-> f[h[x]]]
           Image(T) == {h[x] : x \in T}
           Good == {T \in SUBSET S : /\ IsFiniteSet(Image(T))
                                     /\ SumFunctionOnSet(f, Image(T)) = SumFunctionOnSet(g, T)}
<1>1. ASSUME NEW T \in SUBSET S, \A U \in SUBSET T : U # T => U \in Good
      PROVE  T \in Good
  <2>1. IsFiniteSet(T)
    BY FS_Subset
  <2>2. CASE T = {}
    <3>1. Image(T) = {}
      BY <2>2
    <3> QED BY <2>2, <3>1, SumOfNothing, FS_EmptySet
  <2>3. CASE T # {}
    <3> DEFINE p == Picked(T)
               R == T \ {p}
    <3>1. p \in T
      BY <2>3, PickedIsIn
    <3>2. IsFiniteSet(Image(R)) /\ SumFunctionOnSet(f, Image(R)) = SumFunctionOnSet(g, R)
      BY <1>1, <3>1
    <3>3. Image(T) = Image(R) \cup {h[p]} /\ h[p] \notin Image(R)
      BY <3>1
    <3>4. \A y \in Image(R) \cup {h[p]} : f[y] \in Int
      BY <3>1
    <3>5. SumFunctionOnSet(g, T) = g[p] + SumFunctionOnSet(g, R)
      BY <2>1, <2>3, SumUnfolds
    <3>6. g[p] = f[h[p]]
      BY <3>1
    <3> HIDE DEF Image, g, R, p
    <3>7. SumFunctionOnSet(f, Image(T)) = f[h[p]] + SumFunctionOnSet(f, Image(R))
      BY <3>2, <3>3, <3>4, SumWith
    <3>8. IsFiniteSet(Image(T))
      BY <3>2, <3>3, FS_AddElement
    <3> QED BY <3>2, <3>5, <3>6, <3>7, <3>8
  <2> QED BY <2>2, <2>3
<1>2. S \in Good
  <2> HIDE DEF Good
  <2> QED BY <1>1, SubsetInduction
<1> QED BY <1>2

-----------------------------------------------------------------------------
(* Finite sets of numbers have a least and a greatest member. *)

LEMMA MaxIsGreatest ==
    ASSUME NEW S \in SUBSET Int, IsFiniteSet(S), S # {}
    PROVE  Max(S) \in S /\ \A y \in S : Max(S) >= y
<1> DEFINE Good == {T \in SUBSET S : T # {} => \E x \in T : \A y \in T : x >= y}
<1>1. ASSUME NEW T \in SUBSET S, \A U \in SUBSET T : U # T => U \in Good
      PROVE  T \in Good
  <2>1. CASE T # {}
    <3>1. PICK z \in T : TRUE
      BY <2>1
    <3>2. T \ {z} \in Good
      BY <1>1, <3>1
    <3>3. CASE T \ {z} = {}
      BY <3>1, <3>3
    <3>4. CASE T \ {z} # {}
      <4>1. PICK x \in T \ {z} : \A y \in T \ {z} : x >= y
        BY <3>2, <3>4
      <4>2. x \in Int /\ z \in Int /\ \A y \in T : y \in Int
        BY <3>1
      <4> DEFINE m == IF x >= z THEN x ELSE z
      <4>3. m \in T /\ \A y \in T : m >= y
        BY <3>1, <4>1, <4>2
      <4> QED BY <4>3
    <3> QED BY <3>3, <3>4
  <2> QED BY <2>1
<1>2. S \in Good
  <2> HIDE DEF Good
  <2> QED BY <1>1, SubsetInduction
<1>3. \E x \in S : \A y \in S : x >= y
  BY <1>2
<1> QED BY <1>3 DEF Max

LEMMA MinOfTwo ==
    ASSUME NEW m \in Int, NEW n \in Int
    PROVE  /\ Min({m, n}) \in {m, n}
           /\ Min({m, n}) <= m /\ Min({m, n}) <= n
<1>1. \E x \in {m, n} : \A y \in {m, n} : x <= y
  <2>1. CASE m <= n
    BY <2>1
  <2>2. CASE n <= m
    BY <2>2
  <2> QED BY <2>1, <2>2
<1> QED BY <1>1 DEF Min

LEMMA ImageIsFinite ==
    ASSUME NEW S, IsFiniteSet(S), NEW f
    PROVE  IsFiniteSet({f[x] : x \in S})
<1> DEFINE T == {f[x] : x \in S}
           g == [x \in S |-> f[x]]
<1>1. g \in Surjection(S, T)
  BY DEF Surjection
<1> HIDE DEF T, g
<1>2. IsFiniteSet(T)
  BY <1>1, FS_Surjection
<1> QED BY <1>2 DEF T
=============================================================================
