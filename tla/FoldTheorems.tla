---------------------------- MODULE FoldTheorems ----------------------------
(***************************************************************************)
(* What a fold over a finite set computes: the equation its recursive      *)
(* function is meant to satisfy.  FoldLeft and MapThenSumSet of the        *)
(* community modules are such folds, over the positions of a sequence with *)
(* Pick the greatest, and over a set with any Pick.                        *)
(*                                                                         *)
(* The step is an operator and a parameter of the module, so whoever folds *)
(* instantiates it with his own; the library's induction theorems, which   *)
(* take an operator as an assumption, cannot be used that way.             *)
(***************************************************************************)
EXTENDS Naturals, FiniteSetTheorems, TLAPS

CONSTANTS
    Op(_, _, _), \* Op(data, x, acc): the accumulator after x
    Pick(_)      \* the element of a set that is folded last

Picks(S) == \A T \in SUBSET S : T # {} => Pick(T) \in T

\* g is the fold of every subset of S.
IsFold(g, data, base, S) ==
    g = [T \in SUBSET S |->
            IF T = {} THEN base ELSE Op(data, Pick(T), g[T \ {Pick(T)}])]

Fold(data, base, S) == (CHOOSE g : IsFold(g, data, base, S))[S]

-----------------------------------------------------------------------------

\* Induction over the subsets of a finite set: a smallest one that is not in
\* U contradicts the hypothesis.
LEMMA SubsetInduction ==
    ASSUME NEW S, IsFiniteSet(S), NEW U,
           \A T \in SUBSET S : (\A R \in SUBSET T : R # T => R \in U) => T \in U
    PROVE  SUBSET S \subseteq U
<1> SUFFICES ASSUME (SUBSET S) \ U # {} PROVE FALSE
  OBVIOUS
<1>1. FiniteSubsetsOf(S) = SUBSET S
  BY FS_FiniteSubsetsOfFinite
<1>2. IsWellFoundedOn(StrictSubsetOrdering(S), FiniteSubsetsOf(S))
  BY FS_StrictSubsetOrderingWellFounded
<1>3. \A V : V \subseteq FiniteSubsetsOf(S) /\ V # {} =>
          \E T \in V : \A R \in V : ~ (<<R, T>> \in StrictSubsetOrdering(S))
  <2> DEFINE Less == StrictSubsetOrdering(S)
             F == FiniteSubsetsOf(S)
  <2>1. IsWellFoundedOn(Less, F)
    BY <1>2
  <2>2. SUFFICES ASSUME NEW V, V \subseteq F, V # {}
                 PROVE  \E T \in V : \A R \in V : ~ (<<R, T>> \in Less)
    OBVIOUS
  <2> HIDE DEF Less, F
  <2> QED BY <2>1, <2>2, WFMin
<1> PICK T \in (SUBSET S) \ U :
        \A R \in (SUBSET S) \ U : ~ (<<R, T>> \in StrictSubsetOrdering(S))
  BY <1>1, <1>3
<1>4. \A R \in SUBSET T : R # T => R \in U
  BY DEF StrictSubsetOrdering
<1> QED BY <1>4

\* Induction over the natural numbers, for those in a set.
LEMMA NatSetInduction ==
    ASSUME NEW U, 0 \in U, \A n \in Nat : n \in U => n + 1 \in U
    PROVE  Nat \subseteq U
<1> SUFFICES ASSUME Nat \ U # {} PROVE FALSE
  OBVIOUS
<1> PICK n \in Nat \ U : \A m \in Nat \ U : ~ (m < n)
  <2>1. \E n \in Nat \ U : \A m \in Nat \ U : ~ (<<m, n>> \in OpToRel(<, Nat))
    BY NatLessThanWellFounded, WFMin
  <2> QED BY <2>1, Zenon DEF OpToRel
<1>1. n # 0 /\ n - 1 \in Nat /\ n - 1 < n /\ (n - 1) + 1 = n
  OBVIOUS
<1> QED BY <1>1

-----------------------------------------------------------------------------

\* Folds of two sets agree on the subsets they share.
LEMMA FoldUnique ==
    ASSUME NEW data, NEW base, NEW S, NEW T \in SUBSET S, IsFiniteSet(S), Picks(S),
           NEW g, IsFold(g, data, base, S),
           NEW h, IsFold(h, data, base, T)
    PROVE  \A R \in SUBSET T : g[R] = h[R]
<1> DEFINE U == {R \in SUBSET T : g[R] = h[R]}
<1>1. ASSUME NEW R \in SUBSET T, \A Q \in SUBSET R : Q # R => Q \in U
      PROVE  R \in U
  <2>1. CASE R = {}
    BY <2>1 DEF IsFold
  <2>2. CASE R # {}
    <3> DEFINE x == Pick(R)
    <3>1. x \in R /\ R \ {x} \in SUBSET R /\ R \ {x} # R
      BY <2>2 DEF Picks
    <3>2. g[R \ {x}] = h[R \ {x}]
      BY <1>1, <3>1
    <3>3. g[R] = Op(data, x, g[R \ {x}]) /\ h[R] = Op(data, x, h[R \ {x}])
      BY <2>2 DEF IsFold
    <3> QED BY <3>2, <3>3
  <2> QED BY <2>1, <2>2
<1>2. IsFiniteSet(T)
  BY FS_Subset
<1>3. SUBSET T \subseteq U
  <2> HIDE DEF U
  <2> QED BY <1>1, <1>2, SubsetInduction
<1> QED BY <1>3

\* Every finite set has a fold: that of a set is put together from those of
\* its proper subsets.
LEMMA FoldExists ==
    ASSUME NEW data, NEW base, NEW S, IsFiniteSet(S), Picks(S)
    PROVE  \E g : IsFold(g, data, base, S)
<1> DEFINE Of(T) == CHOOSE g : IsFold(g, data, base, T)
           U == {T \in SUBSET S : \E g : IsFold(g, data, base, T)}
<1>1. ASSUME NEW T \in SUBSET S, \A R \in SUBSET T : R # T => R \in U
      PROVE  T \in U
  <2> DEFINE Less(R) == R \ {Pick(R)}
             g == [R \in SUBSET T |->
                     IF R = {} THEN base ELSE Op(data, Pick(R), Of(Less(R))[Less(R)])]
  <2>1. ASSUME NEW R \in SUBSET T, R # {}
        PROVE  Less(R) \in SUBSET T /\ Less(R) # T /\ Pick(R) \in R
    BY <2>1 DEF Picks
  <2>2. ASSUME NEW R \in SUBSET T, R # T
        PROVE  IsFold(Of(R), data, base, R)
    BY <1>1, <2>2
  <2>3. ASSUME NEW R \in SUBSET T, R # T
        PROVE  g[R] = Of(R)[R]
    <3>1. CASE R = {}
      <4> HIDE DEF Of
      <4>1. g[R] = base
        BY <3>1
      <4>2. Of(R)[R] = base
        BY <2>2, <2>3, <3>1 DEF IsFold
      <4> QED BY <4>1, <4>2
    <3>2. CASE R # {}
      <4> HIDE DEF Of
      <4>1. Of(R)[R] = Op(data, Pick(R), Of(R)[Less(R)])
        BY <2>2, <2>3, <3>2 DEF IsFold
      <4>2. Less(R) \in SUBSET R /\ Less(R) # T /\ IsFiniteSet(R) /\ Picks(R)
        BY <2>1, <3>2, FS_Subset DEF Picks
      <4>3. Of(R)[Less(R)] = Of(Less(R))[Less(R)]
        <5> HIDE DEF Less
        <5>1. IsFold(Of(R), data, base, R) /\ IsFold(Of(Less(R)), data, base, Less(R))
          BY <2>2, <2>3, <4>2
        <5> QED BY <4>2, <5>1, FoldUnique
      <4>4. g[R] = Op(data, Pick(R), Of(Less(R))[Less(R)])
        BY <3>2
      <4> QED BY <4>1, <4>3, <4>4
    <3> QED BY <3>1, <3>2
  <2>4. ASSUME NEW R \in SUBSET T
        PROVE  g[R] = IF R = {} THEN base ELSE Op(data, Pick(R), g[Less(R)])
    <3> HIDE DEF Of
    <3>1. R # {} => g[Less(R)] = Of(Less(R))[Less(R)]
      BY <2>1, <2>3
    <3> QED BY <3>1
  <2>5. IsFold(g, data, base, T)
    <3> HIDE DEF Of
    <3>1. g = [R \in SUBSET T |-> g[R]]
      OBVIOUS
    <3> HIDE DEF g
    <3> QED BY <2>4, <3>1 DEF IsFold
  <2> QED BY <2>5
<1>2. SUBSET S \subseteq U
  <2> HIDE DEF U
  <2> QED BY <1>1, SubsetInduction
<1> QED BY <1>2

\* A fold satisfies its recursive definition.
LEMMA FoldStep ==
    ASSUME NEW data, NEW base, NEW S, IsFiniteSet(S), Picks(S)
    PROVE  /\ Fold(data, base, {}) = base
           /\ S # {} => Fold(data, base, S)
                            = Op(data, Pick(S), Fold(data, base, S \ {Pick(S)}))
<1> DEFINE Of(T) == CHOOSE g : IsFold(g, data, base, T)
<1>1. \A T \in SUBSET S : IsFold(Of(T), data, base, T)
  BY FoldExists, FS_Subset DEF Picks
<1>2. \A T : Fold(data, base, T) = Of(T)[T]
  BY DEF Fold
<1> HIDE DEF Of
<1>3. Fold(data, base, {}) = base
  BY <1>1, <1>2 DEF IsFold
<1>4. ASSUME S # {}
      PROVE  Fold(data, base, S) = Op(data, Pick(S), Fold(data, base, S \ {Pick(S)}))
  <2> DEFINE T == S \ {Pick(S)}
  <2>1. Of(S)[S] = Op(data, Pick(S), Of(S)[T])
    BY <1>1, <1>4 DEF IsFold
  <2>2. Of(S)[T] = Of(T)[T]
    BY <1>1, FoldUnique
  <2> QED BY <1>2, <2>1, <2>2
<1> QED BY <1>3, <1>4

-----------------------------------------------------------------------------
(* Folds over the positions 1 .. n of a sequence.                          *)

PicksLast ==
    \A n \in Nat : \A T \in SUBSET (1 .. n) :
        T # {} => Pick(T) \in T /\ \A i \in T : i <= Pick(T)

LEMMA LastExists ==
    ASSUME NEW n \in Nat, NEW T \in SUBSET (1 .. n), T # {}
    PROVE  \E i \in T : \A k \in T : k <= i
<1> DEFINE HasLast(m) ==
               \A R \in SUBSET (1 .. m) : R # {} => \E i \in R : \A k \in R : k <= i
           U == {m \in Nat : HasLast(m)}
<1>1. 0 \in U
  <2>1. 1 .. 0 = {}
    OBVIOUS
  <2>2. HasLast(0)
    BY <2>1
  <2> QED BY <2>2
<1>2. ASSUME NEW m \in Nat, m \in U PROVE m + 1 \in U
  <2>1. ASSUME NEW R \in SUBSET (1 .. m + 1), R # {}
        PROVE  \E i \in R : \A k \in R : k <= i
    <3>1. CASE m + 1 \in R
      BY <2>1, <3>1
    <3>2. CASE m + 1 \notin R
      <4>1. R \in SUBSET (1 .. m)
        BY <2>1, <3>2
      <4> QED BY <1>2, <2>1, <4>1
    <3> QED BY <3>1, <3>2
  <2> QED BY <2>1
<1>3. Nat \subseteq U
  <2> HIDE DEF U
  <2> QED BY <1>1, <1>2, NatSetInduction
<1>4. HasLast(n)
  BY <1>3
<1> QED BY <1>4

\* The fold of a sequence goes on, position by position.
LEMMA PrefixFold ==
    ASSUME NEW data, NEW base, PicksLast
    PROVE  /\ Fold(data, base, 1 .. 0) = base
           /\ \A n \in Nat \ {0} :
                  Fold(data, base, 1 .. n) = Op(data, n, Fold(data, base, 1 .. n - 1))
<1>1. ASSUME NEW n \in Nat
      PROVE  IsFiniteSet(1 .. n) /\ Picks(1 .. n)
  <2>1. IsFiniteSet(1 .. n)
    BY FS_Interval
  <2>2. Picks(1 .. n)
    BY Zenon DEF Picks, PicksLast
  <2> QED BY <2>1, <2>2
<1>2. Fold(data, base, 1 .. 0) = base
  <2>1. 1 .. 0 = {}
    OBVIOUS
  <2> QED BY <1>1, <2>1, FoldStep
<1>3. ASSUME NEW n \in Nat \ {0}
      PROVE  Fold(data, base, 1 .. n) = Op(data, n, Fold(data, base, 1 .. n - 1))
  <2> DEFINE S == 1 .. n
  <2>1. S # {} /\ S \ {n} = 1 .. n - 1 /\ n \in S /\ \A i \in S : i \in Nat /\ i <= n
    OBVIOUS
  <2>2. Pick(S) \in S /\ \A i \in S : i <= Pick(S)
    BY <2>1, Zenon DEF PicksLast
  <2>3. Pick(S) = n
    BY <2>1, <2>2
  <2>4. IsFiniteSet(S) /\ Picks(S)
    BY <1>1
  <2>5. Fold(data, base, S) = Op(data, Pick(S), Fold(data, base, S \ {Pick(S)}))
    <3> HIDE DEF S
    <3> QED BY <2>1, <2>4, FoldStep
  <2> QED BY <2>1, <2>3, <2>5
<1> QED BY <1>2, <1>3
=============================================================================
