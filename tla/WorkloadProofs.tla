--------------------------- MODULE WorkloadProofs ---------------------------
(***************************************************************************)
(* What a resize and its rollback make of a template, for any containers,  *)
(* resources, templates and recommendations.                               *)
(***************************************************************************)
EXTENDS Workload, SequenceTheorems, FiniteSetTheorems, TLAPS

USE WorkloadAssumption

\* One pass of each of the two loops over recommendations.
ResizeBy(list, i, t)   == ResizeContainer(t, list[i])
KeepBy(list, i, valid) == KeepValid(valid, list[i])

Resizes == INSTANCE FoldTheorems WITH Op <- ResizeBy, Pick <- Max
Keeps   == INSTANCE FoldTheorems WITH Op <- KeepBy, Pick <- Max

LEMMA MaxIsLast == Resizes!PicksLast /\ Keeps!PicksLast
<1>1. ASSUME NEW n \in Nat, NEW T \in SUBSET (1 .. n), T # {}
      PROVE  Max(T) \in T /\ \A i \in T : i <= Max(T)
  <2>1. \E i \in T : \A k \in T : k <= i
    BY <1>1, Resizes!LastExists
  <2>2. \A x, y \in T : x <= y <=> y >= x
    OBVIOUS
  <2> QED BY <2>1, <2>2 DEF Max
<1> QED BY <1>1 DEF Resizes!PicksLast, Keeps!PicksLast

\* ResizeWorkload is the template after the last of the passes of its loop.
LEMMA ResizeSteps ==
    ASSUME NEW list \in Seq(Recommendations), NEW t
    PROVE  \E after :
              /\ after[0] = t
              /\ \A i \in 1 .. Len(list) : after[i] = ResizeContainer(after[i - 1], list[i])
              /\ ResizeWorkload(t, list) = after[Len(list)]
<1> DEFINE after == [i \in 0 .. Len(list) |-> Resizes!Fold(list, t, 1 .. i)]
<1>1. after[0] = t
  BY MaxIsLast, Resizes!PrefixFold
<1>2. ASSUME NEW i \in 1 .. Len(list)
      PROVE  after[i] = ResizeContainer(after[i - 1], list[i])
  <2>1. i \in Nat \ {0} /\ i - 1 \in 0 .. Len(list) /\ i \in 0 .. Len(list)
    OBVIOUS
  <2>2. Resizes!Fold(list, t, 1 .. i) = ResizeBy(list, i, Resizes!Fold(list, t, 1 .. i - 1))
    BY <2>1, MaxIsLast, Resizes!PrefixFold
  <2> QED BY <2>1, <2>2 DEF ResizeBy
<1>3. ResizeWorkload(t, list) = Resizes!Fold(list, t, DOMAIN list)
  BY DEF ResizeWorkload, FoldLeft, MapThenFoldSet, Resizes!Fold, Resizes!IsFold, ResizeBy
<1>4. DOMAIN list = 1 .. Len(list) /\ Len(list) \in 0 .. Len(list)
  OBVIOUS
<1> HIDE DEF after
<1> QED BY <1>1, <1>2, <1>3, <1>4 DEF after

\* The same of validateRecommendation.
LEMMA KeepSteps ==
    ASSUME NEW list \in Seq(Recommendations)
    PROVE  \E after :
              /\ after[0] = <<>>
              /\ \A i \in 1 .. Len(list) : after[i] = KeepValid(after[i - 1], list[i])
              /\ validateRecommendation(list) = after[Len(list)]
<1> DEFINE after == [i \in 0 .. Len(list) |-> Keeps!Fold(list, <<>>, 1 .. i)]
<1>1. after[0] = <<>>
  BY MaxIsLast, Keeps!PrefixFold
<1>2. ASSUME NEW i \in 1 .. Len(list)
      PROVE  after[i] = KeepValid(after[i - 1], list[i])
  <2>1. i \in Nat \ {0} /\ i - 1 \in 0 .. Len(list) /\ i \in 0 .. Len(list)
    OBVIOUS
  <2>2. Keeps!Fold(list, <<>>, 1 .. i) = KeepBy(list, i, Keeps!Fold(list, <<>>, 1 .. i - 1))
    BY <2>1, MaxIsLast, Keeps!PrefixFold
  <2> QED BY <2>1, <2>2 DEF KeepBy
<1>3. validateRecommendation(list) = Keeps!Fold(list, <<>>, DOMAIN list)
  BY DEF validateRecommendation, FoldLeft, MapThenFoldSet, Keeps!Fold, Keeps!IsFold, KeepBy
<1>4. DOMAIN list = 1 .. Len(list) /\ Len(list) \in 0 .. Len(list)
  OBVIOUS
<1> HIDE DEF after
<1> QED BY <1>1, <1>2, <1>3, <1>4 DEF after

-----------------------------------------------------------------------------
(* What the loops compute.                                                 *)

\* What is left of a group: recommendations of it that are valid.
LEMMA KeptAreValid ==
    ASSUME NEW list \in Seq(Recommendations)
    PROVE  LET kept == validateRecommendation(list) IN
           /\ kept \in Seq(Recommendations)
           /\ \A k \in DOMAIN kept : /\ ValidateRecommendations(template, kept[k])
                                     /\ \E i \in DOMAIN list : kept[k] = list[i]
<1> DEFINE Kept(valid) ==
               /\ valid \in Seq(Recommendations)
               /\ \A k \in DOMAIN valid : /\ ValidateRecommendations(template, valid[k])
                                          /\ \E i \in DOMAIN list : valid[k] = list[i]
<1> PICK after : /\ after[0] = <<>>
                 /\ \A i \in 1 .. Len(list) : after[i] = KeepValid(after[i - 1], list[i])
                 /\ validateRecommendation(list) = after[Len(list)]
  BY KeepSteps
<1> DEFINE U == {n \in Nat : n <= Len(list) => Kept(after[n])}
<1>1. 0 \in U
  <2>1. <<>> \in Seq(Recommendations) /\ DOMAIN <<>> = {}
    OBVIOUS
  <2>2. Kept(after[0])
    BY <2>1
  <2> QED BY <2>2
<1>2. ASSUME NEW n \in Nat, n \in U PROVE n + 1 \in U
  <2> SUFFICES ASSUME n + 1 <= Len(list) PROVE Kept(after[n + 1])
    OBVIOUS
  <2>1. n + 1 \in 1 .. Len(list) /\ (n + 1) - 1 = n /\ Kept(after[n])
    BY <1>2
  <2>2. after[n + 1] = KeepValid(after[n], list[n + 1])
    BY <2>1
  <2>3. n + 1 \in DOMAIN list /\ list[n + 1] \in Recommendations
    BY <2>1
  <2> DEFINE valid == after[n]
             rec == list[n + 1]
  <2>4. CASE ValidateRecommendations(template, rec)
    <3>1. after[n + 1] = Append(valid, rec)
      BY <2>2, <2>4 DEF KeepValid
    <3>2. valid \in Seq(Recommendations) /\ rec \in Recommendations
      BY <2>1, <2>3
    <3>3. /\ Append(valid, rec) \in Seq(Recommendations)
          /\ DOMAIN Append(valid, rec) = 1 .. Len(valid) + 1
          /\ DOMAIN valid = 1 .. Len(valid) /\ Len(valid) \in Nat
          /\ Append(valid, rec)[Len(valid) + 1] = rec
          /\ \A k \in 1 .. Len(valid) : Append(valid, rec)[k] = valid[k]
      <4> HIDE DEF valid, rec
      <4> QED BY <3>2
    <3>4. ASSUME NEW k \in DOMAIN Append(valid, rec)
          PROVE  /\ ValidateRecommendations(template, Append(valid, rec)[k])
                 /\ \E i \in DOMAIN list : Append(valid, rec)[k] = list[i]
      <4>1. CASE k = Len(valid) + 1
        BY <2>3, <2>4, <3>3, <4>1
      <4>2. CASE k \in DOMAIN valid
        BY <2>1, <3>3, <4>2
      <4> QED
        <5> HIDE DEF valid, rec
        <5> QED BY <3>3, <3>4, <4>1, <4>2
    <3> QED BY <3>1, <3>3, <3>4
  <2>5. CASE ~ ValidateRecommendations(template, rec)
    BY <2>1, <2>2, <2>5 DEF KeepValid
  <2> QED BY <2>4, <2>5
<1>3. Nat \subseteq U
  <2> HIDE DEF U
  <2> QED BY <1>1, <1>2, Keeps!NatSetInduction
<1>4. Len(list) \in Nat
  OBVIOUS
<1> QED BY <1>3, <1>4

\* A container has what a recommendation says of it.
Agrees(r, rec) ==
    /\ Equals(r.requests, rec.request)
    /\ useLimits => Equals(r.limits, rec.limit)

Written(t, rec) ==
    [requests |-> rec.request,
     limits   |-> IF useLimits THEN rec.limit ELSE t[rec.container].limits]

\* new is t after the first n recommendations of the list, as far as
\* container c is concerned: they agree with what it has already, or one of
\* them was written, and the last one that is about it holds.
Resized(t, new, list, n, c) ==
    /\ (\A i \in 1 .. n : list[i].container = c => Agrees(t[c], list[i]))
          => new[c] = t[c]
    /\ \/ new[c] = t[c]
       \/ \E i \in 1 .. n : /\ list[i].container = c
                            /\ validateRecommendationQuantities(list[i])
                            /\ new[c] = Written(t, list[i])
    /\ \A i \in 1 .. n :
          /\ list[i].container = c /\ validateRecommendationQuantities(list[i])
          /\ \A k \in 1 .. n : list[k].container = c => k <= i
          => Agrees(new[c], list[i])
    /\ ~ useLimits => new[c].limits = t[c].limits

LEMMA ListsOfRecommendations ==
    ASSUME NEW q \in Quantities
    PROVE  /\ IsResourceList(q)
           /\ \A n \in Managed : Quantity(q, n) = q[n] /\ q[n] \in Nat
  BY DEF Quantities, IsResourceList, Quantity

LEMMA TemplateFields ==
    ASSUME NEW t, IsPodTemplate(t), NEW c \in Container
    PROVE  /\ IsResourceList(t[c].requests) /\ IsResourceList(t[c].limits)
           /\ t[c] = [requests |-> t[c].requests, limits |-> t[c].limits]
           /\ DOMAIN t = Container
  BY DEF IsPodTemplate

\* ResizeContainer writes the container a recommendation is about, if it is
\* in the template and not as recommended, and no other.
LEMMA OneContainer ==
    ASSUME NEW t, IsPodTemplate(t), NEW rec \in Recommendations
    PROVE  /\ IsPodTemplate(ResizeContainer(t, rec))
           /\ \A c \in Container :
                 ResizeContainer(t, rec)[c] =
                     IF Updates(t, rec) /\ c = rec.container THEN Written(t, rec) ELSE t[c]
<1>1. CASE ~ Updates(t, rec)
  BY <1>1 DEF ResizeContainer
<1>2. CASE Updates(t, rec)
  <2> DEFINE new == ResizeContainer(t, rec)
  <2>1. DOMAIN t = Container /\ rec.container \in Container
    BY <1>2, TemplateFields DEF Updates
  <2>2. new = [t EXCEPT ![rec.container] = Written(t, rec)]
    BY <1>2 DEF ResizeContainer, Written
  <2>3. \A c \in Container : new[c] = IF c = rec.container THEN Written(t, rec) ELSE t[c]
    BY <2>1, <2>2
  <2>4. rec.request \in Quantities /\ rec.limit \in Quantities
    BY DEF Recommendations
  <2>5. ASSUME NEW c \in Container
        PROVE  /\ new[c] = [requests |-> new[c].requests, limits |-> new[c].limits]
               /\ IsResourceList(new[c].requests)
               /\ IsResourceList(new[c].limits)
    <3>1. new[c] = IF c = rec.container THEN Written(t, rec) ELSE t[c]
      BY <2>3
    <3> HIDE DEF new
    <3>2. CASE c = rec.container
      <4>1. /\ new[c].requests = rec.request
            /\ new[c].limits = IF useLimits THEN rec.limit ELSE t[c].limits
            /\ new[c] = [requests |-> new[c].requests, limits |-> new[c].limits]
        BY <3>1, <3>2 DEF Written
      <4>2. IsResourceList(rec.request) /\ IsResourceList(rec.limit)
            /\ IsResourceList(t[c].limits)
        BY <2>4, ListsOfRecommendations, TemplateFields
      <4> QED BY <4>1, <4>2
    <3>3. CASE c # rec.container
      BY <3>1, <3>3, TemplateFields
    <3> QED BY <3>2, <3>3
  <2>6. new = [c \in Container |-> new[c]]
    BY <2>1, <2>2
  <2>7. IsPodTemplate(new)
    <3> HIDE DEF new
    <3> QED BY <2>5, <2>6 DEF IsPodTemplate
  <2> QED BY <1>2, <2>3, <2>7
<1> QED BY <1>1, <1>2

LEMMA ResizedNext ==
    ASSUME NEW t, IsPodTemplate(t), NEW new, IsPodTemplate(new),
           NEW list \in Seq(Recommendations), NEW n \in Nat, n + 1 <= Len(list),
           NEW c \in Container, Resized(t, new, list, n, c)
    PROVE  Resized(t, ResizeContainer(new, list[n + 1]), list, n + 1, c)
<1> DEFINE rec   == list[n + 1]
           newer == ResizeContainer(new, rec)
<1>1. rec \in Recommendations /\ 1 .. n + 1 = (1 .. n) \cup {n + 1}
      /\ \A i \in 1 .. n : i <= n /\ i <= n + 1 /\ ~ (n + 1 <= i)
  OBVIOUS
<1>2. newer[c] = IF Updates(new, rec) /\ c = rec.container THEN Written(new, rec) ELSE new[c]
  BY <1>1, OneContainer
<1>3. CASE rec.container # c
  <2>1. newer[c] = new[c]
    BY <1>2, <1>3
  <2> HIDE DEF newer, rec
  <2>2. rec = list[n + 1]
    BY DEF rec
  <2>3. (\A i \in 1 .. n + 1 : list[i].container = c => Agrees(t[c], list[i])) => newer[c] = t[c]
    BY <1>1, <2>1 DEF Resized
  <2>4. newer[c] = t[c] \/ \E i \in 1 .. n + 1 : /\ list[i].container = c
                                                 /\ validateRecommendationQuantities(list[i])
                                                 /\ newer[c] = Written(t, list[i])
    BY <1>1, <2>1 DEF Resized
  <2>5. ASSUME NEW i \in 1 .. n + 1, list[i].container = c,
               validateRecommendationQuantities(list[i]),
               \A k \in 1 .. n + 1 : list[k].container = c => k <= i
        PROVE  Agrees(newer[c], list[i])
    <3>1. i \in 1 .. n
      BY <1>1, <1>3, <2>2, <2>5
    <3>2. \A k \in 1 .. n : list[k].container = c => k <= i
      BY <1>1, <2>5
    <3> QED BY <2>1, <2>5, <3>1, <3>2 DEF Resized
  <2>6. ~ useLimits => newer[c].limits = t[c].limits
    BY <2>1 DEF Resized
  <2>7. Resized(t, newer, list, n + 1, c)
    BY <2>3, <2>4, <2>5, <2>6 DEF Resized
  <2> QED BY <2>7 DEF newer, rec
<1>4. CASE rec.container = c /\ ~ Updates(new, rec)
  <2>1. newer[c] = new[c]
    BY <1>2, <1>4
  <2>2. validateRecommendationQuantities(rec) => Agrees(new[c], rec)
    BY <1>4 DEF Updates, Agrees
  <2> HIDE DEF newer, rec
  <2>3. (\A i \in 1 .. n + 1 : list[i].container = c => Agrees(t[c], list[i])) => newer[c] = t[c]
    BY <1>1, <2>1 DEF Resized
  <2>4. newer[c] = t[c] \/ \E i \in 1 .. n + 1 : /\ list[i].container = c
                                                 /\ validateRecommendationQuantities(list[i])
                                                 /\ newer[c] = Written(t, list[i])
    BY <1>1, <2>1 DEF Resized
  <2>5. ASSUME NEW i \in 1 .. n + 1, list[i].container = c,
               validateRecommendationQuantities(list[i]),
               \A k \in 1 .. n + 1 : list[k].container = c => k <= i
        PROVE  Agrees(newer[c], list[i])
    <3>1. n + 1 \in 1 .. n + 1 /\ list[n + 1].container = c
      BY <1>4 DEF rec
    <3>2. n + 1 <= i
      BY <2>5, <3>1
    <3>3. list[i] = rec
      BY <1>1, <3>2 DEF rec
    <3> QED BY <2>1, <2>2, <2>5, <3>3
  <2>6. ~ useLimits => newer[c].limits = t[c].limits
    BY <2>1 DEF Resized
  <2>7. Resized(t, newer, list, n + 1, c)
    BY <2>3, <2>4, <2>5, <2>6 DEF Resized
  <2> QED BY <2>7 DEF newer, rec
<1>5. CASE rec.container = c /\ Updates(new, rec)
  <2>1. newer[c] = Written(new, rec) /\ validateRecommendationQuantities(rec)
        /\ ~ Agrees(new[c], rec)
    BY <1>2, <1>5 DEF Updates, Agrees
  <2>2. Written(new, rec) = Written(t, rec)
    BY <1>5 DEF Written, Resized
  <2>3. Agrees(Written(new, rec), rec)
    BY <1>1, ListsOfRecommendations DEF Agrees, Written, Equals, Recommendations
  <2>4. ~ useLimits => newer[c].limits = t[c].limits
    BY <1>5, <2>1, <2>2 DEF Written
  <2>5. ~ (\A i \in 1 .. n + 1 : list[i].container = c => Agrees(t[c], list[i]))
    BY <1>1, <1>5, <2>1 DEF Resized
  <2>6. newer[c] = Written(t, rec)
    BY <2>1, <2>2
  <2>7. Agrees(newer[c], rec)
    BY <2>3, <2>1
  <2> HIDE DEF newer, rec
  <2>8. n + 1 \in 1 .. n + 1 /\ \A i \in 1 .. n : ~ (n + 1 <= i)
    BY <1>1
  <2>9. rec = list[n + 1]
    BY DEF rec
  <2>10. ASSUME NEW i \in 1 .. n + 1, list[i].container = c,
                \A k \in 1 .. n + 1 : list[k].container = c => k <= i
         PROVE  list[i] = rec
    BY <1>1, <1>5, <2>8, <2>9, <2>10
  <2>11. \E i \in 1 .. n + 1 : /\ list[i].container = c
                               /\ validateRecommendationQuantities(list[i])
                               /\ newer[c] = Written(t, list[i])
    BY <1>5, <2>1, <2>6, <2>8, <2>9
  <2>12. Resized(t, newer, list, n + 1, c)
    BY <2>4, <2>5, <2>7, <2>10, <2>11 DEF Resized
  <2> QED BY <2>12 DEF newer, rec
<1> QED BY <1>3, <1>4, <1>5

\* t, resized, is new.
Becomes(t, new, list, n) ==
    IsPodTemplate(new) /\ \A c \in Container : Resized(t, new, list, n, c)

\* What ResizeWorkload makes of a template.
LEMMA ResizeResult ==
    ASSUME NEW t, IsPodTemplate(t), NEW list \in Seq(Recommendations)
    PROVE  /\ IsPodTemplate(ResizeWorkload(t, list))
           /\ \A c \in Container : Resized(t, ResizeWorkload(t, list), list, Len(list), c)
<1> PICK after :
        /\ after[0] = t
        /\ \A i \in 1 .. Len(list) : after[i] = ResizeContainer(after[i - 1], list[i])
        /\ ResizeWorkload(t, list) = after[Len(list)]
  BY ResizeSteps
<1> DEFINE U == {n \in Nat : n <= Len(list) => Becomes(t, after[n], list, n)}
<1>1. 0 \in U
  <2>1. \A c \in Container : Resized(t, t, list, 0, c)
    BY DEF Resized
  <2> QED BY <2>1 DEF Becomes
<1>2. ASSUME NEW n \in Nat, n \in U PROVE n + 1 \in U
  <2>1. CASE n + 1 <= Len(list)
    <3>1. n + 1 \in 1 .. Len(list) /\ (n + 1) - 1 = n /\ n <= Len(list)
          /\ list[n + 1] \in Recommendations
      BY <2>1
    <3>2. after[n + 1] = ResizeContainer(after[n], list[n + 1])
      BY <3>1
    <3>3. Becomes(t, after[n], list, n)
      BY <1>2, <3>1
    <3>4. IsPodTemplate(after[n + 1])
      BY <3>1, <3>2, <3>3, OneContainer DEF Becomes
    <3>5. ASSUME NEW c \in Container
          PROVE  Resized(t, after[n + 1], list, n + 1, c)
      BY <2>1, <3>2, <3>3, ResizedNext DEF Becomes
    <3>6. Becomes(t, after[n + 1], list, n + 1)
      BY <3>4, <3>5 DEF Becomes
    <3> QED BY <3>6
  <2>2. CASE ~ (n + 1 <= Len(list))
    BY <2>2
  <2> QED BY <2>1, <2>2
<1>3. Nat \subseteq U
  <2> HIDE DEF U
  <2> QED BY <1>1, <1>2, Resizes!NatSetInduction
<1>4. Len(list) \in Nat
  OBVIOUS
<1>5. Becomes(t, after[Len(list)], list, Len(list))
  BY <1>3, <1>4
<1> QED BY <1>5 DEF Becomes

-----------------------------------------------------------------------------
(* The rollback.                                                           *)

RollbackOf(t, c) ==
    [container |-> c,
     parses    |-> TRUE,
     request   |-> [n \in Managed |-> Quantity(t[c].requests, n)],
     limit     |-> [n \in Managed |-> Quantity(t[c].limits, n)]]

LEMMA QuantityType ==
    ASSUME NEW l, IsResourceList(l), NEW n
    PROVE  Quantity(l, n) \in Nat
  BY DEF IsResourceList, Quantity

LEMMA RollbackOfType ==
    ASSUME NEW t, IsPodTemplate(t), NEW c \in Container
    PROVE  RollbackOf(t, c) \in Recommendations
<1>1. \A n \in Managed : Quantity(t[c].requests, n) \in Nat /\ Quantity(t[c].limits, n) \in Nat
  BY TemplateFields, QuantityType
<1> QED BY <1>1 DEF RollbackOf, Recommendations, Quantities

\* SetToSeq lists a finite set without repetition.
LEMMA Listed ==
    ASSUME NEW S, IsFiniteSet(S)
    PROVE  /\ SetToSeq(S) \in Seq(S)
           /\ \A x \in S : \E i \in DOMAIN SetToSeq(S) :
                 /\ SetToSeq(S)[i] = x
                 /\ \A k \in DOMAIN SetToSeq(S) : SetToSeq(S)[k] = x => k = i
<1> DEFINE N == Cardinality(S)
           f == SetToSeq(S)
<1>1. N \in Nat /\ \E g \in [1 .. N -> S] : IsInjective(g)
  BY FS_CardinalityType DEF ExistsBijection, Bijection, Injection
<1>2. f \in [1 .. N -> S] /\ IsInjective(f)
  BY <1>1 DEF SetToSeq
<1> HIDE DEF f
<1>3. IsFiniteSet(1 .. N) /\ Cardinality(1 .. N) = N
  BY <1>1, FS_Interval
<1>4. f \in Surjection(1 .. N, S)
  <2>1. f \in Injection(1 .. N, S)
    BY <1>2 DEF Injection
  <2> HIDE DEF N
  <2> QED BY <1>3, <2>1, FS_Injection DEF N
<1>5. f \in Seq(S) /\ DOMAIN f = 1 .. N
  BY <1>1, <1>2
<1>6. ASSUME NEW x \in S
      PROVE  \E i \in DOMAIN f : f[i] = x /\ \A k \in DOMAIN f : f[k] = x => k = i
  BY <1>2, <1>4, <1>5 DEF IsInjective, Surjection
<1> QED BY <1>5, <1>6 DEF f

\* A rollback has one recommendation for every container of the backup.
LEMMA UndoFacts ==
    ASSUME NEW t, IsPodTemplate(t)
    PROVE  /\ CreateRollbackRecommendation(t) \in Seq(Recommendations)
           /\ \A c \in Container : \E i \in DOMAIN CreateRollbackRecommendation(t) :
                 /\ CreateRollbackRecommendation(t)[i] = RollbackOf(t, c)
                 /\ \A k \in DOMAIN CreateRollbackRecommendation(t) :
                       CreateRollbackRecommendation(t)[k].container = c => k = i
<1> DEFINE S == {RollbackOf(t, c) : c \in Container}
           f == [c \in Container |-> RollbackOf(t, c)]
<1>1. CreateRollbackRecommendation(t) = SetToSeq(S)
  BY DEF CreateRollbackRecommendation, RollbackOf
<1>2. IsFiniteSet(S)
  <2>1. f \in Surjection(Container, S)
    BY DEF Surjection
  <2> HIDE DEF f, S
  <2> QED BY <2>1, FS_Surjection
<1>3. S \subseteq Recommendations
  BY RollbackOfType
<1>4. \A c, d \in Container : RollbackOf(t, d).container = c => d = c
  BY DEF RollbackOf
<1>5. ASSUME NEW c \in Container
      PROVE  RollbackOf(t, c) \in S /\ \A r \in S : r.container = c => r = RollbackOf(t, c)
  BY <1>4
<1> HIDE DEF S, f
<1> DEFINE undo == SetToSeq(S)
<1>6. undo \in Seq(S)
      /\ \A x \in S : \E i \in DOMAIN undo :
            undo[i] = x /\ \A k \in DOMAIN undo : undo[k] = x => k = i
  BY <1>2, Listed
<1> HIDE DEF undo
<1>7. \A k \in DOMAIN undo : undo[k] \in S
  BY <1>6
<1>8. undo \in Seq(Recommendations)
  BY <1>3, <1>6
<1>9. ASSUME NEW c \in Container
      PROVE  \E i \in DOMAIN undo : /\ undo[i] = RollbackOf(t, c)
                                    /\ \A k \in DOMAIN undo : undo[k].container = c => k = i
  <2> PICK i \in DOMAIN undo :
         undo[i] = RollbackOf(t, c) /\ \A k \in DOMAIN undo : undo[k] = RollbackOf(t, c) => k = i
    BY <1>5, <1>6
  <2>1. ASSUME NEW k \in DOMAIN undo, undo[k].container = c PROVE k = i
    BY <1>5, <1>7, <2>1
  <2> QED BY <2>1
<1> QED BY <1>1, <1>8, <1>9 DEF undo

\* The code's own validation accepts what the API server accepted.
LEMMA RollbackOfParses ==
    ASSUME NEW t, IsPodTemplate(t), Accepts(t), NEW c \in Container
    PROVE  validateRecommendationQuantities(RollbackOf(t, c))
<1>1. ASSUME NEW n \in Managed
      PROVE  Quantity(t[c].limits, n) = 0 \/ Quantity(t[c].limits, n) >= Quantity(t[c].requests, n)
  <2>1. Quantity(t[c].limits, n) \in Nat
    BY TemplateFields, QuantityType
  <2>2. CASE n \in DOMAIN t[c].limits /\ n \in DOMAIN t[c].requests
    <3>1. t[c].requests[n] <= t[c].limits[n]
      BY <2>2 DEF Accepts
    <3>2. /\ Quantity(t[c].requests, n) = t[c].requests[n]
          /\ Quantity(t[c].limits, n) = t[c].limits[n]
      BY <2>2 DEF Quantity
    <3>3. Quantity(t[c].requests, n) \in Nat
      BY TemplateFields, QuantityType
    <3> QED BY <2>1, <3>1, <3>2, <3>3
  <2>3. CASE n \notin DOMAIN t[c].limits
    BY <2>3 DEF Quantity
  <2>4. CASE n \notin DOMAIN t[c].requests
    BY <2>1, <2>4 DEF Quantity
  <2> QED BY <2>2, <2>3, <2>4
<1> QED BY <1>1 DEF validateRecommendationQuantities, RollbackOf

\* What a rollback to the backup t makes of a template, container by container.
LEMMA UndoResult ==
    ASSUME NEW t, IsPodTemplate(t), Accepts(t), NEW old, IsPodTemplate(old), NEW new,
           Becomes(old, new, CreateRollbackRecommendation(t),
                   Len(CreateRollbackRecommendation(t))),
           NEW c \in Container
    PROVE  /\ Agrees(new[c], RollbackOf(t, c))
           /\ Agrees(old[c], RollbackOf(t, c)) => new[c] = old[c]
           /\ new[c] = old[c] \/ new[c] = Written(old, RollbackOf(t, c))
           /\ ~ useLimits => new[c].limits = old[c].limits
<1> DEFINE undo == CreateRollbackRecommendation(t)
<1> PICK i \in DOMAIN undo : /\ undo[i] = RollbackOf(t, c)
                             /\ \A k \in DOMAIN undo : undo[k].container = c => k = i
  BY UndoFacts
<1>1. Resized(old, new, undo, Len(undo), c)
  BY DEF Becomes
<1>2. undo \in Seq(Recommendations)
  BY UndoFacts
<1> HIDE DEF undo
<1>3. DOMAIN undo = 1 .. Len(undo) /\ \A k \in DOMAIN undo : k <= k
  BY <1>2
<1>4. validateRecommendationQuantities(undo[i]) /\ undo[i].container = c
  BY RollbackOfParses DEF RollbackOf
<1>5. \A k \in 1 .. Len(undo) : undo[k].container = c => k <= i
  BY <1>3
<1>6. Agrees(new[c], RollbackOf(t, c))
  BY <1>1, <1>3, <1>4, <1>5 DEF Resized
<1>7. Agrees(old[c], RollbackOf(t, c)) => new[c] = old[c]
  BY <1>1, <1>3 DEF Resized
<1>8. new[c] = old[c] \/ new[c] = Written(old, RollbackOf(t, c))
  BY <1>1, <1>3 DEF Resized
<1> QED BY <1>1, <1>6, <1>7, <1>8 DEF Resized

-----------------------------------------------------------------------------
(* Assumptions of some of the theorems.                                    *)

\* A recommendation asks for more than nothing.
RecsArePositive ==
    \A list \in RecLists : \A i \in DOMAIN list : \A n \in Managed :
        /\ list[i].request[n] > 0
        /\ TRUE \in DOMAIN Templates => list[i].limit[n] > 0

\* A limit that is set but not managed is more than nothing.
LimitsArePositive ==
    FALSE \in DOMAIN Templates =>
        \A t \in Templates[FALSE] : \A c \in Container :
            \A n \in Managed \cap DOMAIN t[c].limits : t[c].limits[n] > 0

\* Where limits are managed, containers have them.
LimitsAreSet ==
    TRUE \in DOMAIN Templates =>
        \A t \in Templates[TRUE] : \A c \in Container : Managed \subseteq DOMAIN t[c].limits

-----------------------------------------------------------------------------
(* The inductive invariant.                                                *)

FromFile(rec) == \E list \in RecLists : \E i \in DOMAIN list : rec = list[i]

Undone ==
    LET undo == CreateRollbackRecommendation(original) IN
    \E resized : /\ Becomes(original, resized, recs, Len(recs))
                 /\ Becomes(resized, template, undo, Len(undo))

Inv ==
    /\ TypeOK
    /\ original \in Templates[useLimits] /\ Accepts(original)
    /\ stage \in {"found", "valid"} => template = original
    /\ stage = "found" => recs \in RecLists
    /\ stage \in {"valid", "resized"} =>
          /\ recs # <<>>
          /\ \A i \in DOMAIN recs :
                ValidateRecommendations(original, recs[i]) /\ FromFile(recs[i])
    /\ stage = "resized" => Becomes(original, template, recs, Len(recs)) /\ Accepts(template)
    /\ stage = "undone" => Undone

LEMMA SameRun ==
    ASSUME useLimits' = useLimits,
           NEW t, NEW new, NEW list, NEW n, Becomes(t, new, list, n)
    PROVE  Becomes(t, new, list, n)'
  BY DEF Becomes, Resized, Agrees, Written, validateRecommendationQuantities

LEMMA SameValid ==
    ASSUME useLimits' = useLimits, NEW t, NEW rec
    PROVE  ValidateRecommendations(t, rec)' <=> ValidateRecommendations(t, rec)
  BY DEF ValidateRecommendations, validateRecommendationQuantities

LEMMA InitInv == Init => Inv
<1> SUFFICES ASSUME Init PROVE Inv
  OBVIOUS
<1>1. /\ useLimits \in DOMAIN Templates /\ template \in Templates[useLimits]
      /\ original = template /\ Accepts(original) /\ recs \in RecLists /\ stage = "found"
  BY DEF Init
<1>2. IsPodTemplate(template) /\ recs \in Seq(Recommendations)
  BY <1>1
<1>3. stage \in Stages /\ ~ stage \in {"valid", "resized"} /\ stage # "undone"
  BY <1>1 DEF Stages
<1> QED BY <1>1, <1>2, <1>3 DEF Inv, TypeOK

LEMMA ValidateInv == Inv /\ Validate => Inv'
<1> SUFFICES ASSUME Inv, Validate PROVE Inv'
  OBVIOUS
<1>1. /\ stage = "found" /\ recs' = validateRecommendation(recs)
      /\ stage' = IF recs' = <<>> THEN "skipped" ELSE "valid"
      /\ useLimits' = useLimits /\ template' = template /\ original' = original
  BY DEF Validate
<1>2. TypeOK /\ recs \in RecLists /\ template = original
      /\ original \in Templates[useLimits] /\ Accepts(original)
  BY <1>1 DEF Inv
<1>3. /\ recs' \in Seq(Recommendations)
      /\ \A k \in DOMAIN recs' : /\ ValidateRecommendations(template, recs'[k])
                                 /\ \E i \in DOMAIN recs : recs'[k] = recs[i]
  BY <1>1, <1>2, KeptAreValid DEF TypeOK
<1>4. ASSUME NEW i \in DOMAIN recs'
      PROVE  (ValidateRecommendations(original, recs[i]))' /\ FromFile(recs'[i])
  <2>1. ValidateRecommendations(original, recs'[i]) /\ FromFile(recs'[i])
    BY <1>2, <1>3 DEF FromFile
  <2>2. \A r : ValidateRecommendations(original, r)' <=> ValidateRecommendations(original, r)
    BY <1>1, SameValid
  <2> QED BY <1>1, <2>1, <2>2
<1>5. TypeOK'
  BY <1>1, <1>2, <1>3 DEF TypeOK, Stages
<1>6. Accepts(original')
  BY <1>1, <1>2
<1> QED BY <1>1, <1>2, <1>4, <1>5, <1>6 DEF Inv

LEMMA ResizeInv == Inv /\ Resize => Inv'
<1> SUFFICES ASSUME Inv, Resize PROVE Inv'
  OBVIOUS
<1> DEFINE new == ResizeWorkload(template, recs)
<1>1. /\ stage = "valid" /\ original' = template /\ useLimits' = useLimits /\ recs' = recs
      /\ \/ stage' = "unchanged" /\ template' = template
         \/ stage' = "rejected" /\ template' = template
         \/ stage' = "resized" /\ template' = new /\ Accepts(new)
  BY DEF Resize
<1>2. /\ TypeOK /\ template = original /\ original \in Templates[useLimits] /\ Accepts(original)
      /\ recs # <<>>
      /\ \A i \in DOMAIN recs : ValidateRecommendations(original, recs[i]) /\ FromFile(recs[i])
  BY <1>1 DEF Inv
<1>3. IsPodTemplate(new) /\ Becomes(original, new, recs, Len(recs))
  BY <1>2, ResizeResult DEF TypeOK, Becomes
<1> HIDE DEF new
<1>4. TypeOK'
  BY <1>1, <1>2, <1>3 DEF TypeOK, Stages
<1>5. original' = original /\ Accepts(original')
  BY <1>1, <1>2
<1>6. ASSUME NEW i \in DOMAIN recs'
      PROVE  (ValidateRecommendations(original, recs[i]))' /\ FromFile(recs'[i])
  <2>1. ValidateRecommendations(original, recs'[i]) /\ FromFile(recs'[i])
    BY <1>1, <1>2
  <2>2. \A r : ValidateRecommendations(original, r)' <=> ValidateRecommendations(original, r)
    BY <1>1, <1>5, SameValid
  <2> QED BY <1>1, <2>1, <2>2
<1>7. ASSUME stage' = "resized"
      PROVE  Becomes(original, template, recs, Len(recs))' /\ Accepts(template')
  <2>1. template' = new /\ Accepts(new)
    BY <1>1, <1>7
  <2>2. \A x, y, list, n : Becomes(x, y, list, n) => Becomes(x, y, list, n)'
    BY <1>1, SameRun
  <2>3. Becomes(original, template', recs, Len(recs)) /\ Accepts(template')
    BY <1>3, <2>1
  <2> QED BY <1>1, <1>5, <2>2, <2>3
<1> QED BY <1>1, <1>2, <1>4, <1>5, <1>6, <1>7 DEF Inv

LEMMA RollbackInv == Inv /\ Rollback => Inv'
<1> SUFFICES ASSUME Inv, Rollback PROVE Inv'
  OBVIOUS
<1> DEFINE undo == CreateRollbackRecommendation(original)
           new  == ResizeWorkload(template, undo)
<1>1. /\ stage = "resized"
      /\ original' = original /\ useLimits' = useLimits /\ recs' = recs
      /\ \/ stage' = "nothingToUndo" /\ template' = template
         \/ stage' = "undoRejected" /\ template' = template
         \/ stage' = "undone" /\ template' = new
  BY DEF Rollback
<1>2. /\ TypeOK /\ original \in Templates[useLimits] /\ Accepts(original)
      /\ Becomes(original, template, recs, Len(recs))
  BY <1>1 DEF Inv
<1>3. undo \in Seq(Recommendations)
  BY <1>2, UndoFacts DEF TypeOK
<1>4. IsPodTemplate(new) /\ Becomes(template, new, undo, Len(undo))
  BY <1>2, <1>3, ResizeResult DEF TypeOK, Becomes
<1>5. ASSUME stage' = "undone" PROVE Undone'
  <2>1. template' = new
    BY <1>1, <1>5
  <2>2. \A x, y, list, n : Becomes(x, y, list, n) => Becomes(x, y, list, n)'
    BY <1>1, SameRun
  <2>3. undo' = undo
    BY <1>1
  <2> HIDE DEF new, undo
  <2>4. Becomes(original, template, recs, Len(recs)) /\ Becomes(template, template', undo, Len(undo))
    BY <1>2, <1>4, <2>1
  <2>5. \E resized : /\ Becomes(original, resized, recs, Len(recs))'
                     /\ Becomes(resized, template, undo, Len(undo))'
    BY <1>1, <2>2, <2>3, <2>4
  <2> QED BY <2>5 DEF Undone, undo
<1> HIDE DEF new, undo
<1>6. TypeOK'
  BY <1>1, <1>2, <1>4 DEF TypeOK, Stages
<1>7. Accepts(original')
  BY <1>1, <1>2
<1> QED BY <1>1, <1>2, <1>5, <1>6, <1>7 DEF Inv

LEMMA StutterInv == Inv /\ UNCHANGED vars => Inv'
<1> SUFFICES ASSUME Inv, UNCHANGED vars PROVE Inv'
  OBVIOUS
<1>1. /\ useLimits' = useLimits /\ template' = template /\ original' = original
      /\ recs' = recs /\ stage' = stage
  BY DEF vars
<1>2. \A x, y, list, n : Becomes(x, y, list, n) => Becomes(x, y, list, n)'
  BY <1>1, SameRun
<1>3. \A x, r : ValidateRecommendations(x, r)' <=> ValidateRecommendations(x, r)
  BY <1>1, SameValid
<1>4. Undone => Undone'
  BY <1>1, <1>2 DEF Undone
<1>5. TypeOK => TypeOK'
  BY <1>1 DEF TypeOK
<1> QED BY <1>1, <1>2, <1>3, <1>4, <1>5 DEF Inv

LEMMA Invariant == Spec => []Inv
<1>1. Inv /\ [Next]_vars => Inv'
  BY ValidateInv, ResizeInv, RollbackInv, StutterInv DEF Next
<1> QED BY InitInv, <1>1, PTL DEF Spec

-----------------------------------------------------------------------------
(* Theorems.                                                               *)

\* The variables have their types; the templates stay templates.
THEOREM TypeCorrect == Spec => []TypeOK
<1>1. Inv => TypeOK
  BY DEF Inv
<1> QED BY Invariant, <1>1, PTL

\* After a rollback every container has the cpu and memory it had before.
THEOREM Restores == Spec => []RollbackRestoresQuantities
<1>1. ASSUME Inv PROVE RollbackRestoresQuantities
  <2> SUFFICES ASSUME stage = "undone", NEW c \in Container, NEW n \in Managed
               PROVE  /\ Quantity(template[c].requests, n) = Quantity(original[c].requests, n)
                      /\ Quantity(template[c].limits, n) = Quantity(original[c].limits, n)
    BY DEF RollbackRestoresQuantities
  <2>1. TypeOK /\ Accepts(original) /\ Undone
    BY <1>1 DEF Inv
  <2> PICK resized :
         /\ Becomes(original, resized, recs, Len(recs))
         /\ Becomes(resized, template, CreateRollbackRecommendation(original),
                    Len(CreateRollbackRecommendation(original)))
    BY <2>1 DEF Undone
  <2>2. IsPodTemplate(original) /\ IsPodTemplate(resized)
    BY <2>1 DEF TypeOK, Becomes
  <2>3. /\ Agrees(template[c], RollbackOf(original, c))
        /\ ~ useLimits => template[c].limits = resized[c].limits
    BY <2>1, <2>2, UndoResult
  <2>4. ~ useLimits => resized[c].limits = original[c].limits
    BY DEF Becomes, Resized
  <2> QED BY <2>3, <2>4 DEF Agrees, RollbackOf, Equals
<1> QED BY Invariant, <1>1, PTL

\* A container that no recommendation of the group is about keeps its
\* resources, through the resize and through the rollback.
THEOREM Untouched == Spec => []OthersUntouched
<1>1. ASSUME Inv PROVE OthersUntouched
  <2> SUFFICES ASSUME stage \in {"resized", "undone"}, NEW c \in Container,
                      \A i \in DOMAIN recs : recs[i].container # c
               PROVE  template[c] = original[c]
    BY DEF OthersUntouched
  <2>1. TypeOK /\ Accepts(original)
    BY <1>1 DEF Inv
  <2>2. IsPodTemplate(original) /\ DOMAIN recs = 1 .. Len(recs)
    BY <2>1 DEF TypeOK
  <2>3. ASSUME NEW new, Becomes(original, new, recs, Len(recs))
        PROVE  new[c] = original[c]
    BY <2>2, <2>3 DEF Becomes, Resized
  <2>4. CASE stage = "resized"
    BY <1>1, <2>3, <2>4 DEF Inv
  <2>5. CASE stage = "undone"
    <3> PICK resized :
           /\ Becomes(original, resized, recs, Len(recs))
           /\ Becomes(resized, template, CreateRollbackRecommendation(original),
                      Len(CreateRollbackRecommendation(original)))
      BY <1>1, <2>5 DEF Inv, Undone
    <3>1. resized[c] = original[c]
      BY <2>3
    <3>2. Agrees(original[c], RollbackOf(original, c))
      BY DEF Agrees, RollbackOf, Equals
    <3>3. IsPodTemplate(resized)
      BY DEF Becomes
    <3>4. Agrees(resized[c], RollbackOf(original, c)) => template[c] = resized[c]
      BY <2>1, <2>2, <3>3, UndoResult
    <3> QED BY <3>1, <3>2, <3>4
  <2> QED BY <2>4, <2>5
<1> QED BY Invariant, <1>1, PTL

\* What agrees with a positive recommendation is not resized by it.
LEMMA AgreeingIsSkipped ==
    ASSUME RecsArePositive, useLimits \in DOMAIN Templates,
           NEW rec, FromFile(rec), NEW t, Agrees(t[rec.container], rec)
    PROVE  ~ ValidateRecommendations(t, rec)
<1>1. \A n \in Managed : rec.request[n] > 0 /\ (useLimits => rec.limit[n] > 0)
  BY DEF RecsArePositive, FromFile
<1>2. DOMAIN Templates \subseteq BOOLEAN
  OBVIOUS
<1>3. AlreadyMatches(t[rec.container].requests, rec.request)
  BY <1>1 DEF Agrees, Equals, AlreadyMatches
<1>4. useLimits => AlreadyMatches(t[rec.container].limits, rec.limit)
  BY <1>1 DEF Agrees, Equals, AlreadyMatches
<1> QED BY <1>3, <1>4 DEF ValidateRecommendations

\* A recommendation that was applied is skipped when it comes again.
THEOREM Rerun == ASSUME RecsArePositive PROVE Spec => []RerunIsSkipped
<1>1. ASSUME Inv PROVE RerunIsSkipped
  <2> SUFFICES ASSUME stage = "resized", NEW i \in DOMAIN recs, IsLastOf(i, recs)
               PROVE  ~ ValidateRecommendations(template, recs[i])
    BY DEF RerunIsSkipped
  <2> DEFINE rec == recs[i]
  <2>1. /\ TypeOK /\ ValidateRecommendations(original, rec) /\ FromFile(rec)
        /\ Becomes(original, template, recs, Len(recs))
    BY <1>1 DEF Inv
  <2>2. rec.container \in Container /\ validateRecommendationQuantities(rec)
    BY <2>1 DEF ValidateRecommendations
  <2>3. DOMAIN recs = 1 .. Len(recs)
    BY <2>1 DEF TypeOK
  <2>4. Agrees(template[rec.container], rec)
    BY <2>1, <2>2, <2>3 DEF Becomes, Resized, IsLastOf
  <2> HIDE DEF rec
  <2>5. ~ ValidateRecommendations(template, rec)
    BY <2>1, <2>4, AgreeingIsSkipped DEF TypeOK
  <2> QED BY <2>5 DEF rec
<1> QED BY Invariant, <1>1, PTL

\* The API server takes what valid recommendations make of a template it had
\* taken.
LEMMA ResizeIsAccepted ==
    ASSUME RecsArePositive, LimitsArePositive, Inv, stage = "valid"
    PROVE  Accepts(ResizeWorkload(template, recs))
<1> DEFINE new == ResizeWorkload(template, recs)
<1>1. /\ TypeOK /\ template = original /\ original \in Templates[useLimits]
      /\ Accepts(original)
      /\ \A i \in DOMAIN recs : ValidateRecommendations(original, recs[i]) /\ FromFile(recs[i])
  BY DEF Inv
<1>2. \A c \in Container : Resized(original, new, recs, Len(recs), c)
  BY <1>1, ResizeResult DEF TypeOK
<1> HIDE DEF new
<1>3. ASSUME NEW c \in Container, NEW n \in DOMAIN new[c].requests \cap DOMAIN new[c].limits
      PROVE  new[c].requests[n] <= new[c].limits[n]
  <2>1. CASE new[c] = original[c]
    BY <1>1, <1>3, <2>1 DEF Accepts
  <2>2. CASE new[c] # original[c]
    <3> PICK i \in 1 .. Len(recs) : recs[i].container = c /\ new[c] = Written(original, recs[i])
      BY <1>2, <2>2 DEF Resized
    <3> DEFINE rec == recs[i]
    <3>1. i \in DOMAIN recs /\ rec \in Recommendations
      BY <1>1 DEF TypeOK
    <3>2. ValidateRecommendations(original, rec) /\ FromFile(rec)
      BY <1>1, <3>1
    <3>3. rec.container = c /\ new[c] = Written(original, rec)
      OBVIOUS
    <3> HIDE DEF rec
    <3>4. new[c].requests = rec.request
          /\ new[c].limits = IF useLimits THEN rec.limit ELSE original[c].limits
      BY <3>3 DEF Written
    <3>5. n \in Managed /\ rec.request[n] \in Nat /\ rec.limit[n] \in Nat
      BY <1>3, <3>1, <3>4 DEF Recommendations, Quantities
    <3>6. CASE useLimits
      <4>1. TRUE \in DOMAIN Templates
        BY <1>1, <3>6 DEF TypeOK
      <4>2. rec.limit[n] > 0
        BY <3>2, <3>5, <4>1 DEF RecsArePositive, FromFile
      <4>3. rec.limit[n] = 0 \/ rec.limit[n] >= rec.request[n]
        BY <3>2, <3>5, <3>6 DEF ValidateRecommendations, validateRecommendationQuantities
      <4> QED BY <3>4, <3>5, <3>6, <4>2, <4>3
    <3>7. CASE ~ useLimits
      <4> DEFINE l == original[c].limits
      <4>1. useLimits = FALSE /\ useLimits \in DOMAIN Templates
        BY <1>1, <3>7 DEF TypeOK
      <4>2. n \in DOMAIN l
        BY <1>3, <3>4, <3>7
      <4>3. l[n] > 0
        BY <1>1, <3>5, <4>1, <4>2 DEF LimitsArePositive
      <4>4. Quantity(l, n) = 0 \/ rec.request[n] <= Quantity(l, n)
        BY <3>2, <3>3, <3>5, <3>7 DEF ValidateRecommendations
      <4>5. Quantity(l, n) = l[n] /\ Quantity(l, n) \in Nat
        BY <1>1, <4>2, TemplateFields, QuantityType DEF Quantity, TypeOK
      <4> HIDE DEF l
      <4>6. rec.request[n] <= l[n]
        BY <4>3, <4>4, <4>5
      <4> QED BY <3>4, <3>7, <4>6 DEF l
    <3> QED BY <3>6, <3>7
  <2> QED BY <2>1, <2>2
<1> QED BY <1>3 DEF Accepts, new

\* Recommendations that passed the validation are taken by the API server.
THEOREM Accepted ==
    ASSUME RecsArePositive, LimitsArePositive PROVE Spec => []ValidIsAccepted
<1>1. Init => ValidIsAccepted
  BY DEF Init, ValidIsAccepted
<1>2. ASSUME Inv, ValidIsAccepted, [Next]_vars PROVE ValidIsAccepted'
  <2>1. CASE Validate
    BY <2>1 DEF Validate, ValidIsAccepted
  <2>2. CASE Resize
    BY <1>2, <2>2, ResizeIsAccepted DEF Resize, ValidIsAccepted
  <2>3. CASE Rollback
    BY <2>3 DEF Rollback, ValidIsAccepted
  <2>4. CASE UNCHANGED vars
    BY <1>2, <2>4 DEF vars, ValidIsAccepted
  <2> QED BY <1>2, <2>1, <2>2, <2>3, <2>4 DEF Next
<1> QED BY Invariant, <1>1, <1>2, PTL DEF Spec

LEMMA ValidUpdates ==
    ASSUME RecsArePositive, useLimits \in DOMAIN Templates, NEW t,
           NEW rec, FromFile(rec), ValidateRecommendations(t, rec)
    PROVE  Updates(t, rec)
  BY AgreeingIsSkipped DEF ValidateRecommendations, Updates, Agrees

\* Recommendations that passed the validation change something.
THEOREM ChangesSomething ==
    ASSUME RecsArePositive PROVE Spec => []ValidChangesSomething
<1>1. Init => ValidChangesSomething
  BY DEF Init, ValidChangesSomething
<1>2. ASSUME Inv, ValidChangesSomething, [Next]_vars PROVE ValidChangesSomething'
  <2>1. CASE Validate
    BY <2>1 DEF Validate, ValidChangesSomething
  <2>2. CASE Resize
    <3>1. /\ stage = "valid" /\ TypeOK /\ recs # <<>> /\ template = original
          /\ \A i \in DOMAIN recs : ValidateRecommendations(original, recs[i]) /\ FromFile(recs[i])
      BY <1>2, <2>2 DEF Resize, Inv
    <3>2. 1 \in DOMAIN recs
      BY <3>1 DEF TypeOK
    <3>3. Updates(template, recs[1])
      BY <3>1, <3>2, ValidUpdates DEF TypeOK
    <3>4. ~ NothingUpdated(template, recs)
      BY <3>2, <3>3 DEF NothingUpdated
    <3> QED BY <2>2, <3>4 DEF Resize, ValidChangesSomething
  <2>3. CASE Rollback
    BY <2>3 DEF Rollback, ValidChangesSomething
  <2>4. CASE UNCHANGED vars
    BY <1>2, <2>4 DEF vars, ValidChangesSomething
  <2> QED BY <1>2, <2>1, <2>2, <2>3, <2>4 DEF Next
<1> QED BY Invariant, <1>1, <1>2, PTL DEF Spec

\* A rollback has something to write: the last recommendation did.
LEMMA SomethingToUndo ==
    ASSUME RecsArePositive, Inv, stage = "resized"
    PROVE  ~ NothingUpdated(template, CreateRollbackRecommendation(original))
<1> DEFINE last == recs[Len(recs)]
           c == last.container
           undo == CreateRollbackRecommendation(original)
<1>1. /\ TypeOK /\ Accepts(original) /\ recs # <<>>
      /\ \A i \in DOMAIN recs : ValidateRecommendations(original, recs[i]) /\ FromFile(recs[i])
      /\ Becomes(original, template, recs, Len(recs))
  BY DEF Inv
<1>2. Len(recs) \in DOMAIN recs /\ DOMAIN recs = 1 .. Len(recs)
      /\ \A k \in 1 .. Len(recs) : k <= Len(recs)
  BY <1>1 DEF TypeOK
<1>3. ValidateRecommendations(original, last) /\ FromFile(last)
  BY <1>1, <1>2
<1>4. c \in Container /\ validateRecommendationQuantities(last)
  BY <1>3 DEF ValidateRecommendations
<1>5. Agrees(template[c], last)
  BY <1>1, <1>2, <1>4 DEF Becomes, Resized
<1> HIDE DEF last
<1>6. ~ Agrees(original[c], last)
  BY <1>1, <1>3, AgreeingIsSkipped DEF TypeOK
<1> HIDE DEF c
<1>7. ~ Agrees(template[c], RollbackOf(original, c))
  BY <1>5, <1>6 DEF Agrees, Equals, RollbackOf
<1>8. validateRecommendationQuantities(RollbackOf(original, c))
  BY <1>1, <1>4, RollbackOfParses DEF TypeOK
<1>9. Updates(template, RollbackOf(original, c))
  <2>1. RollbackOf(original, c).container = c
    BY DEF RollbackOf
  <2> QED BY <1>4, <1>7, <1>8, <2>1 DEF Updates, Agrees
<1>10. \E i \in DOMAIN undo : undo[i] = RollbackOf(original, c)
  BY <1>1, <1>4, UndoFacts DEF TypeOK
<1> QED BY <1>9, <1>10 DEF NothingUpdated

\* The API server takes what the rollback makes of the template: it held the
\* same quantities before.
LEMMA UndoIsAccepted ==
    ASSUME LimitsAreSet, Inv, stage = "resized"
    PROVE  Accepts(ResizeWorkload(template, CreateRollbackRecommendation(original)))
<1> DEFINE undo == CreateRollbackRecommendation(original)
           new  == ResizeWorkload(template, undo)
<1>1. /\ TypeOK /\ original \in Templates[useLimits] /\ Accepts(original) /\ Accepts(template)
      /\ Becomes(original, template, recs, Len(recs))
  BY DEF Inv
<1>2. undo \in Seq(Recommendations)
  BY <1>1, UndoFacts DEF TypeOK
<1>3. Becomes(template, new, undo, Len(undo))
  BY <1>1, <1>2, ResizeResult DEF TypeOK, Becomes
<1> HIDE DEF new
<1>4. ASSUME NEW c \in Container
      PROVE  /\ new[c] = template[c] \/ new[c] = Written(template, RollbackOf(original, c))
             /\ ~ useLimits => new[c].limits = original[c].limits
  <2>1. /\ new[c] = template[c] \/ new[c] = Written(template, RollbackOf(original, c))
        /\ ~ useLimits => new[c].limits = template[c].limits
    BY <1>1, <1>3, UndoResult DEF TypeOK
  <2>2. ~ useLimits => template[c].limits = original[c].limits
    BY <1>1 DEF Becomes, Resized
  <2> QED BY <2>1, <2>2
<1>5. ASSUME NEW c \in Container, NEW n \in DOMAIN new[c].requests \cap DOMAIN new[c].limits
      PROVE  new[c].requests[n] <= new[c].limits[n]
  <2>1. CASE new[c] = template[c]
    BY <1>1, <1>5, <2>1 DEF Accepts
  <2>2. CASE new[c] # template[c]
    <3> DEFINE r == original[c]
    <3>1. new[c] = Written(template, RollbackOf(original, c))
      BY <1>4, <2>2
    <3>2. new[c].requests = [m \in Managed |-> Quantity(r.requests, m)]
      BY <3>1 DEF Written, RollbackOf
    <3>3. n \in Managed /\ new[c].requests[n] = Quantity(r.requests, n)
      BY <1>5, <3>2
    <3>4. n \in DOMAIN r.limits /\ new[c].limits[n] = Quantity(r.limits, n)
      <4>1. CASE useLimits
        <5>1. useLimits = TRUE /\ TRUE \in DOMAIN Templates
          BY <1>1, <4>1 DEF TypeOK
        <5>2. n \in DOMAIN r.limits
          BY <1>1, <3>3, <5>1 DEF LimitsAreSet
        <5>3. new[c].limits = [m \in Managed |-> Quantity(r.limits, m)]
          BY <3>1, <4>1 DEF Written, RollbackOf
        <5> QED BY <3>3, <5>2, <5>3
      <4>2. CASE ~ useLimits
        <5>1. new[c].limits = r.limits
          BY <1>4, <4>2
        <5> QED BY <1>5, <5>1 DEF Quantity
      <4> QED BY <4>1, <4>2
    <3>5. IsResourceList(r.requests) /\ IsResourceList(r.limits)
      BY <1>1, TemplateFields DEF TypeOK
    <3>6. Quantity(r.limits, n) \in Nat
      BY <3>5, QuantityType
    <3>7. n \in DOMAIN r.requests => r.requests[n] <= r.limits[n]
      BY <1>1, <3>4 DEF Accepts
    <3> HIDE DEF r
    <3>8. Quantity(r.requests, n) <= Quantity(r.limits, n)
      BY <3>4, <3>6, <3>7 DEF Quantity
    <3> QED BY <3>3, <3>4, <3>8
  <2> QED BY <2>1, <2>2
<1> QED BY <1>5 DEF Accepts, new

\* Where limits are set if they are managed, every rollback is taken.
THEOREM RollbackAccepted ==
    ASSUME RecsArePositive, LimitsAreSet PROVE Spec => []RollbackIsAccepted
<1>1. Init => RollbackIsAccepted
  BY DEF Init, RollbackIsAccepted
<1>2. ASSUME Inv, RollbackIsAccepted, [Next]_vars PROVE RollbackIsAccepted'
  <2>1. CASE Validate
    BY <2>1 DEF Validate, RollbackIsAccepted
  <2>2. CASE Resize
    BY <2>2 DEF Resize, RollbackIsAccepted
  <2>3. CASE Rollback
    BY <1>2, <2>3, SomethingToUndo, UndoIsAccepted DEF Rollback, RollbackIsAccepted
  <2>4. CASE UNCHANGED vars
    BY <1>2, <2>4 DEF vars, RollbackIsAccepted
  <2> QED BY <1>2, <2>1, <2>2, <2>3, <2>4 DEF Next
<1> QED BY Invariant, <1>1, <1>2, PTL DEF Spec
=============================================================================
