----------------------- MODULE WorkloadResizerProofs -----------------------
(***************************************************************************)
(* What the groups of the workload strategy are for, for any number of     *)
(* workers and any sheet of one environment whose names are no kinds: a    *)
(* worker has all the rows of one object.                                  *)
(***************************************************************************)
EXTENDS WorkloadResizer, WorkerPoolProofs

-----------------------------------------------------------------------------
(* Loops that append the wanted rows.                                      *)

AppendIf(data, i, kept) ==
    IF data.list[i] \in data.wanted THEN Append(kept, data.list[i]) ELSE kept

Appends == INSTANCE FoldTheorems WITH Op <- AppendIf, Pick <- Max

LEMMA MaxIsLast == Appends!PicksLast
<1>1. ASSUME NEW n \in Nat, NEW T \in SUBSET (1 .. n), T # {}
      PROVE  Max(T) \in T /\ \A i \in T : i <= Max(T)
  <2>1. \E i \in T : \A k \in T : k <= i
    BY <1>1, Appends!LastExists
  <2>2. \A x, y \in T : x <= y <=> y >= x
    OBVIOUS
  <2> QED BY <2>1, <2>2 DEF Max
<1> QED BY <1>1 DEF Appends!PicksLast

\* The wanted rows of the list, and no others.
LEMMA WantedRows ==
    ASSUME NEW S, NEW list \in Seq(S), NEW wanted
    PROVE  /\ AppendWanted(list, wanted) \in Seq(S)
           /\ Range(AppendWanted(list, wanted)) = Range(list) \cap wanted
<1> DEFINE data == [list |-> list, wanted |-> wanted]
           after(n) == Appends!Fold(data, <<>>, 1 .. n)
           First(n) == {list[i] : i \in 1 .. n}
           U == {n \in Nat : n <= Len(list) =>
                    after(n) \in Seq(S) /\ Range(after(n)) = First(n) \cap wanted}
<1>1. after(0) = <<>>
  BY MaxIsLast, Appends!PrefixFold
<1>2. ASSUME NEW n \in Nat \ {0} PROVE after(n) = AppendIf(data, n, after(n - 1))
  BY MaxIsLast, Appends!PrefixFold
<1> HIDE DEF data
<1>3. data.list = list /\ data.wanted = wanted
  BY DEF data
<1> HIDE DEF after
<1>4. 0 \in U
  <2>1. First(0) = {} /\ <<>> \in Seq(S)
    OBVIOUS
  <2>2. after(0) \in Seq(S) /\ Range(after(0)) = First(0) \cap wanted
    BY <1>1, <2>1, EmptyQueue
  <2> QED BY <2>2
<1>5. ASSUME NEW n \in Nat, n \in U PROVE n + 1 \in U
  <2>1. CASE n + 1 <= Len(list)
    <3>1. n + 1 \in Nat \ {0} /\ (n + 1) - 1 = n /\ n <= Len(list) /\ list[n + 1] \in S
          /\ 1 .. n + 1 = (1 .. n) \cup {n + 1}
      BY <2>1
    <3>2. after(n + 1) = IF list[n + 1] \in wanted THEN Append(after(n), list[n + 1]) ELSE after(n)
      BY <1>2, <1>3, <3>1 DEF AppendIf
    <3>3. First(n + 1) = First(n) \cup {list[n + 1]}
      BY <3>1
    <3>4. after(n) \in Seq(S) /\ Range(after(n)) = First(n) \cap wanted
      BY <1>5, <3>1
    <3>5. after(n + 1) \in Seq(S) /\ Range(after(n + 1)) = First(n + 1) \cap wanted
      <4> DEFINE x == list[n + 1]
                 q == after(n)
      <4>1. x \in S /\ q \in Seq(S)
        BY <3>1, <3>4
      <4> HIDE DEF x, q, First
      <4>2. CASE x \in wanted
        <5>1. after(n + 1) = Append(q, x)
          BY <3>2, <4>2 DEF x, q
        <5>2. Append(q, x) \in Seq(S) /\ Range(Append(q, x)) = Range(q) \cup {x}
          BY <4>1, AppendTo
        <5> QED BY <3>3, <3>4, <4>2, <5>1, <5>2 DEF x, q
      <4>3. CASE x \notin wanted
        BY <3>2, <3>3, <3>4, <4>3 DEF x
      <4> QED BY <4>2, <4>3
    <3> QED BY <3>5
  <2>2. CASE ~ (n + 1 <= Len(list))
    BY <2>2
  <2> QED BY <2>1, <2>2
<1>6. Nat \subseteq U
  <2> HIDE DEF U
  <2> QED BY <1>4, <1>5, Appends!NatSetInduction
<1>7. Len(list) \in Nat /\ DOMAIN list = 1 .. Len(list)
  OBVIOUS
<1>8. AppendWanted(list, wanted) = Appends!Fold(data, <<>>, DOMAIN list)
  BY DEF AppendWanted, FoldLeft, MapThenFoldSet, Appends!Fold, Appends!IsFold, AppendIf, data
<1>9. First(Len(list)) = Range(list)
  BY <1>7 DEF Range
<1>10. AppendWanted(list, wanted) = after(Len(list))
  BY <1>7, <1>8 DEF after
<1> QED BY <1>6, <1>7, <1>9, <1>10

\* The rows that are read are rows of the sheet.
LEMMA ReadType == Read \in Seq(SheetRows)
<1> DEFINE rows == SubSeq(Sheet, 2, Len(Sheet))
<1>1. rows \in Seq(SheetRows)
  BY SheetAssumption, SubSeqProperties
<1> HIDE DEF rows
<1>2. Read = AppendWanted(rows, {row \in Range(Sheet) : row.cells >= Columns})
  BY DEF Read, rows
<1> QED BY <1>1, <1>2, WantedRows

\* A group is the rows of its WorkloadID, and there are some.
LEMMA GroupRows ==
    ASSUME NEW id \in WorkloadIDs
    PROVE  /\ RowsOf(id) = {rec \in Range(Read) : WorkloadID(rec) = id}
           /\ Head(arrangeRecsByWorkload[id]) \in RowsOf(id)
<1> DEFINE wanted == {rec \in Range(Read) : WorkloadID(rec) = id}
           group == arrangeRecsByWorkload[id]
<1>1. group = AppendWanted(Read, wanted)
  BY DEF arrangeRecsByWorkload
<1>2. wanted # {}
  BY DEF WorkloadIDs, Range
<1>3. Range(Read) \cap wanted = wanted
  OBVIOUS
<1> HIDE DEF wanted, group
<1>4. group \in Seq(SheetRows) /\ Range(group) = wanted
  BY <1>1, <1>3, ReadType, WantedRows
<1>5. group # <<>>
  BY <1>2, <1>4, EmptyQueue
<1>6. Head(group) \in Range(group)
  BY <1>4, <1>5, HeadOf
<1> QED BY <1>4, <1>6 DEF RowsOf, group, wanted

-----------------------------------------------------------------------------
(* Which rows have the same WorkloadID.                                    *)

Kinds == {"Deployment", "StatefulSet"}

\* Rows of one environment, each of the kind its object has, and names that
\* Kubernetes allows: a kind is no word of them, since it is not lower case.
PlainSheet ==
    /\ \A q, r \in Range(Read) : q.environment = r.environment
    /\ \A r \in Range(Read) :
          /\ r.kind \in Kinds
          /\ Range(r.namespace) \cap Kinds = {} /\ Range(r.workloadName) \cap Kinds = {}

Concat(s, t) == s \o t

\* The part is in the whole, after so many words of it.
Fits(part, whole, after) ==
    /\ after + Len(part) <= Len(whole)
    /\ \A i \in 1 .. Len(part) : whole[after + i] = part[i]

\* What is in the first of two names is in the name they make.
LEMMA FitsFirst ==
    ASSUME NEW S, NEW s \in Seq(S), NEW t \in Seq(S), NEW part \in Seq(S),
           NEW after \in Nat, Fits(part, s, after)
    PROVE  Fits(part, Concat(s, t), after)
<1>1. Len(s) \in Nat /\ Len(t) \in Nat /\ Len(part) \in Nat
  OBVIOUS
<1>2. /\ Len(Concat(s, t)) = Len(s) + Len(t)
      /\ \A i \in 1 .. Len(s) + Len(t) :
            Concat(s, t)[i] = IF i <= Len(s) THEN s[i] ELSE t[i - Len(s)]
  BY ConcatProperties DEF Concat
<1>3. ASSUME NEW i \in 1 .. Len(part) PROVE Concat(s, t)[after + i] = part[i]
  <2>1. after + i \in 1 .. Len(s) + Len(t) /\ after + i <= Len(s)
    BY <1>1 DEF Fits
  <2>2. Concat(s, t)[after + i] = s[after + i]
    BY <1>2, <2>1
  <2> QED BY <2>2 DEF Fits
<1>4. after + Len(part) <= Len(Concat(s, t))
  BY <1>1, <1>2 DEF Fits
<1> QED BY <1>3, <1>4 DEF Fits

\* The second of two names is in the name they make, after the first.
LEMMA FitsLast ==
    ASSUME NEW S, NEW s \in Seq(S), NEW t \in Seq(S)
    PROVE  /\ Concat(s, t) \in Seq(S) /\ Len(Concat(s, t)) = Len(s) + Len(t)
           /\ Fits(t, Concat(s, t), Len(s))
<1>1. Len(s) \in Nat /\ Len(t) \in Nat
  OBVIOUS
<1>2. /\ Concat(s, t) \in Seq(S) /\ Len(Concat(s, t)) = Len(s) + Len(t)
      /\ \A i \in 1 .. Len(s) + Len(t) :
            Concat(s, t)[i] = IF i <= Len(s) THEN s[i] ELSE t[i - Len(s)]
  BY ConcatProperties DEF Concat
<1>3. ASSUME NEW i \in 1 .. Len(t) PROVE Concat(s, t)[Len(s) + i] = t[i]
  <2>1. /\ Len(s) + i \in 1 .. Len(s) + Len(t) /\ ~ (Len(s) + i <= Len(s))
        /\ (Len(s) + i) - Len(s) = i
    BY <1>1
  <2> QED BY <1>2, <2>1
<1> QED BY <1>1, <1>2, <1>3 DEF Fits

Parts(env, ns, kd, nm) == Concat(Concat(Concat(env, ns), kd), nm)

\* The words of a WorkloadID.
LEMMA Words ==
    ASSUME NEW S, NEW env \in Seq(S), NEW ns \in Seq(S), NEW kd \in Seq(S), NEW nm \in Seq(S)
    PROVE  /\ Len(Parts(env, ns, kd, nm)) = Len(env) + Len(ns) + Len(kd) + Len(nm)
           /\ Fits(ns, Parts(env, ns, kd, nm), Len(env))
           /\ Fits(kd, Parts(env, ns, kd, nm), Len(env) + Len(ns))
           /\ Fits(nm, Parts(env, ns, kd, nm), Len(env) + Len(ns) + Len(kd))
<1> DEFINE place == Concat(env, ns)
           front == Concat(place, kd)
<1>1. Len(env) \in Nat /\ Len(ns) \in Nat /\ Len(kd) \in Nat
  OBVIOUS
<1>2. place \in Seq(S) /\ Len(place) = Len(env) + Len(ns) /\ Fits(ns, place, Len(env))
  BY FitsLast
<1> HIDE DEF place
<1>3. /\ front \in Seq(S) /\ Len(front) = Len(env) + Len(ns) + Len(kd)
      /\ Fits(ns, front, Len(env)) /\ Fits(kd, front, Len(env) + Len(ns))
  <2>1. /\ front \in Seq(S) /\ Len(front) = Len(place) + Len(kd)
        /\ Fits(kd, front, Len(place))
    BY <1>2, FitsLast
  <2>2. Fits(ns, front, Len(env))
    BY <1>1, <1>2, FitsFirst
  <2> QED BY <1>2, <2>1, <2>2
<1> HIDE DEF front
<1>4. Len(env) + Len(ns) \in Nat
  BY <1>1
<1>5. /\ Len(Concat(front, nm)) = Len(env) + Len(ns) + Len(kd) + Len(nm)
      /\ Fits(ns, Concat(front, nm), Len(env))
      /\ Fits(kd, Concat(front, nm), Len(env) + Len(ns))
      /\ Fits(nm, Concat(front, nm), Len(env) + Len(ns) + Len(kd))
  <2>1. /\ Len(Concat(front, nm)) = Len(front) + Len(nm)
        /\ Fits(nm, Concat(front, nm), Len(front))
    BY <1>3, FitsLast
  <2>2. Fits(ns, Concat(front, nm), Len(env))
    BY <1>1, <1>3, FitsFirst
  <2>3. Fits(kd, Concat(front, nm), Len(env) + Len(ns))
    BY <1>3, <1>4, FitsFirst
  <2> QED BY <1>3, <2>1, <2>2, <2>3
<1> QED BY <1>5 DEF Parts, front, place

OneWord(s) == Len(s) = 1

\* Where the kind is in one, no word of the other namespace is.
LEMMA NoLongerNamespace ==
    ASSUME NEW S, NEW env \in Seq(S), NEW ns \in Seq(S), NEW nm \in Seq(S),
           NEW ms \in Seq(S), NEW mm \in Seq(S),
           NEW kd \in Seq(S), NEW ld \in Seq(S), OneWord(kd),
           Parts(env, ns, kd, nm) = Parts(env, ms, ld, mm), kd[1] \notin Range(ms)
    PROVE  Len(ms) <= Len(ns)
<1> DEFINE id == Parts(env, ns, kd, nm)
           e == Len(env)
           n == Len(ns)
           m == Len(ms)
<1>1. e \in Nat /\ n \in Nat /\ m \in Nat /\ DOMAIN ms = 1 .. m
  OBVIOUS
<1>2. Fits(kd, id, e + n) /\ Fits(ms, id, e)
  BY Words
<1>3. \A i \in 1 .. m : ms[i] # kd[1]
  BY <1>1 DEF Range
<1> HIDE DEF id, e, n
<1>4. id[e + n + 1] = kd[1]
  BY <1>2 DEF Fits, OneWord
<1>5. \A i \in 1 .. m : id[e + i] = ms[i]
  BY <1>2 DEF Fits
<1> HIDE DEF m
<1>6. ASSUME ~ (m <= n) PROVE FALSE
  <2>1. n + 1 \in 1 .. m /\ e + (n + 1) = e + n + 1
    BY <1>1, <1>6
  <2> QED BY <1>3, <1>4, <1>5, <2>1
<1> QED BY <1>6 DEF n, m

LEMMA SameSequence ==
    ASSUME NEW S, NEW s \in Seq(S), NEW t \in Seq(S), Len(s) = Len(t),
           \A i \in 1 .. Len(s) : s[i] = t[i]
    PROVE  s = t
<1>1. /\ s \in [1 .. Len(s) -> S] /\ t \in [1 .. Len(s) -> S]
  BY LenProperties
<1> QED BY <1>1

LEMMA SameParts ==
    ASSUME NEW S, NEW env \in Seq(S), NEW ns \in Seq(S), NEW nm \in Seq(S),
           NEW ms \in Seq(S), NEW mm \in Seq(S),
           NEW kd \in Seq(S), OneWord(kd), NEW ld \in Seq(S), OneWord(ld),
           Parts(env, ns, kd, nm) = Parts(env, ms, ld, mm),
           kd[1] \notin Range(ms), ld[1] \notin Range(ns)
    PROVE  ns = ms /\ kd[1] = ld[1] /\ nm = mm
<1> DEFINE id == Parts(env, ns, kd, nm)
           e == Len(env)
           n == Len(ns)
           m == Len(ms)
           k == Len(nm)
           l == Len(mm)
<1>1. e \in Nat /\ n \in Nat /\ m \in Nat /\ k \in Nat /\ l \in Nat
  OBVIOUS
<1>2. /\ Len(id) = e + n + Len(kd) + k
      /\ Fits(ns, id, e) /\ Fits(kd, id, e + n) /\ Fits(nm, id, e + n + Len(kd))
  <2>1. Len(id) = e + n + Len(kd) + k
    BY Words
  <2>2. Fits(ns, id, e) /\ Fits(kd, id, e + n)
    BY Words
  <2>3. Fits(nm, id, e + n + Len(kd))
    BY Words
  <2> QED BY <2>1, <2>2, <2>3
<1>3. /\ Len(id) = e + m + Len(ld) + l
      /\ Fits(ms, id, e) /\ Fits(ld, id, e + m) /\ Fits(mm, id, e + m + Len(ld))
  BY Words
<1>4. m <= n /\ n <= m
  BY NoLongerNamespace
<1> HIDE DEF id, e, n, m, k, l
<1>5. n = m /\ k = l
  BY <1>1, <1>2, <1>3, <1>4 DEF OneWord
<1>6. kd[1] = ld[1]
  BY <1>2, <1>3, <1>5 DEF Fits, OneWord
<1>7. \A i \in 1 .. n : ns[i] = ms[i]
  BY <1>2, <1>3, <1>5 DEF Fits, n, m
<1>8. Fits(nm, id, e + n + 1) /\ Fits(mm, id, e + n + 1)
  BY <1>2, <1>3, <1>5 DEF OneWord
<1>9. \A i \in 1 .. k : nm[i] = mm[i]
  BY <1>5, <1>8 DEF Fits, k, l
<1>10. ns = ms
  BY <1>5, <1>7, SameSequence DEF n, m
<1>11. nm = mm
  BY <1>5, <1>9, SameSequence DEF k, l
<1> QED BY <1>6, <1>10, <1>11

\* Rows have one WorkloadID if they are of one object, and only then.
LEMMA SameID ==
    ASSUME PlainSheet, NEW q \in Range(Read), NEW r \in Range(Read)
    PROVE  WorkloadID(q) = WorkloadID(r) <=> ObjectOf(q) = ObjectOf(r)
<1>1. q \in SheetRows /\ r \in SheetRows
  BY ReadType DEF Range
<1>2. ASSUME ObjectOf(q) = ObjectOf(r) PROVE WorkloadID(q) = WorkloadID(r)
  <2>1. /\ lookupWorkloadOps(q.kind) = lookupWorkloadOps(r.kind)
        /\ q.namespace = r.namespace /\ q.workloadName = r.workloadName
    BY <1>2 DEF ObjectOf
  <2>2. q.kind = r.kind
    BY <2>1 DEF PlainSheet, Kinds, lookupWorkloadOps
  <2> QED BY <2>1, <2>2 DEF PlainSheet, WorkloadID
<1>3. ASSUME WorkloadID(q) = WorkloadID(r) PROVE ObjectOf(q) = ObjectOf(r)
  <2> DEFINE kd == <<q.kind>>
             ld == <<r.kind>>
  <2>1. /\ q.environment \in Seq(STRING)
        /\ q.namespace \in Seq(STRING) /\ r.namespace \in Seq(STRING)
        /\ q.workloadName \in Seq(STRING) /\ r.workloadName \in Seq(STRING)
        /\ q.kind \in STRING /\ r.kind \in STRING
    BY <1>1 DEF SheetRows
  <2>2. /\ kd \in Seq(STRING) /\ OneWord(kd) /\ kd[1] = q.kind
        /\ ld \in Seq(STRING) /\ OneWord(ld) /\ ld[1] = r.kind
    BY <2>1 DEF OneWord
  <2>3. Parts(q.environment, q.namespace, kd, q.workloadName)
            = Parts(q.environment, r.namespace, ld, r.workloadName)
    BY <1>3 DEF WorkloadID, PlainSheet, Parts, Concat
  <2> HIDE DEF kd, ld
  <2>4. kd[1] \notin Range(r.namespace) /\ ld[1] \notin Range(q.namespace)
    BY <2>2 DEF PlainSheet
  <2>5. /\ q.namespace = r.namespace /\ kd[1] = ld[1]
        /\ q.workloadName = r.workloadName
    <3> DEFINE Word == STRING
               env == q.environment
               ns  == q.namespace
               ms  == r.namespace
               nm  == q.workloadName
               mm  == r.workloadName
    <3>1. /\ env \in Seq(Word) /\ ns \in Seq(Word) /\ ms \in Seq(Word)
          /\ nm \in Seq(Word) /\ mm \in Seq(Word) /\ kd \in Seq(Word) /\ ld \in Seq(Word)
          /\ OneWord(kd) /\ OneWord(ld)
      BY <2>1, <2>2
    <3>2. /\ Parts(env, ns, kd, nm) = Parts(env, ms, ld, mm)
          /\ kd[1] \notin Range(ms) /\ ld[1] \notin Range(ns)
      BY <2>3, <2>4
    <3> HIDE DEF Word, env, ns, ms, nm, mm
    <3>3. ns = ms /\ kd[1] = ld[1] /\ nm = mm
      BY <3>1, <3>2, SameParts, SMTT(60)
    <3> QED BY <3>3 DEF ns, ms, nm, mm
  <2> QED BY <2>2, <2>5 DEF ObjectOf
<1> QED BY <1>2, <1>3

\* For any plain sheet, a worker that has a group has all the
\* rows of one object, so no other worker has any.
THEOREM WholeObject == ASSUME PlainSheet PROVE Spec => []GroupIsObject
<1>1. ASSUME Inv, NEW w \in Worker, held[w] # NoJob
      PROVE  RowsOf(held[w]) =
                 {rec \in Range(Read) :
                     ObjectOf(rec) = ObjectOf(Head(arrangeRecsByWorkload[held[w]]))}
  <2> DEFINE first == Head(arrangeRecsByWorkload[held[w]])
  <2>1. held[w] \in WorkloadIDs
    BY <1>1, WorkloadResizerAssumption DEF Inv, TypeOK
  <2>2. /\ RowsOf(held[w]) = {rec \in Range(Read) : WorkloadID(rec) = held[w]}
        /\ first \in RowsOf(held[w])
    BY <2>1, GroupRows
  <2> HIDE DEF first
  <2>3. first \in Range(Read) /\ WorkloadID(first) = held[w]
    BY <2>2
  <2>4. \A rec \in Range(Read) : WorkloadID(rec) = held[w] <=> ObjectOf(rec) = ObjectOf(first)
    BY <2>3, SameID
  <2>5. RowsOf(held[w]) = {rec \in Range(Read) : ObjectOf(rec) = ObjectOf(first)}
    BY <2>2, <2>4
  <2> QED BY <2>5 DEF first
<1>2. Inv => GroupIsObject
  BY <1>1 DEF GroupIsObject
<1> QED BY Invariance, <1>2, PTL
=============================================================================
