--------------------------- MODULE PodServiceProofs ---------------------------
(***************************************************************************)
(* The watch after a rollout, for any pods, window, interval and duration: *)
(* what it must have seen when it ends well.                               *)
(***************************************************************************)
EXTENDS PodService, TLAPS

LEMMA Times ==
    /\ Slots \in Nat \ {0}
    /\ Duration \in Nat /\ Interval \in Nat \ {0} /\ Recent \in Nat \ {0}
  BY PodServiceAssumption

USE Times

\* A container that has not been started has no last termination.
NewAges ==
    \A i \in Position :
        pods[i].state \in {"unschedulable", "starting"} /\ ~ pods[i].going =>
            pods[i].age = Recent

\* What StableMeansQuiet says, at every moment of the watch.
Quiet ==
    watch = "on" /\ saw =>
        \A i \in Position :
            ~ pods[i].going => pods[i].age \notin SinceLastPoll + 1 .. Recent - 1

Inv == TypeOK /\ NewAges /\ Quiet

-----------------------------------------------------------------------------
(* Types.                                                                  *)

LEMMA NewIsPod ==
    ASSUME NEW state \in States, NEW hints \in Hints
    PROVE  New(state, hints) \in Pods
  BY DEF New, Pods, Ages, Unknown

LEMMA GoneIsPod == Gone \in Pods /\ Gone.going
<1>1. New("starting", {}) \in Pods
  BY NewIsPod DEF States, Hints
<1> QED BY <1>1 DEF Gone, Pods

LEMMA InitInv == Init => Inv
<1> SUFFICES ASSUME Init PROVE Inv
  OBVIOUS
<1>1. pods \in [Position -> Pods]
  <2>1. Running \in Pods /\ [Running EXCEPT !.going = TRUE] \in Pods
    <3>1. Running \in Pods
      BY NewIsPod DEF Running, States, Hints
    <3> QED BY <3>1 DEF Pods
  <2> QED BY <2>1, GoneIsPod DEF Init
<1>2. TypeOK
  <2>1. /\ watch \in {"on", "stable", "unstable"} /\ saw \in BOOLEAN
    BY DEF Init
  <2>2. left \in 0 .. Duration /\ timer \in 0 .. Interval
    BY DEF Init
  <2> QED BY <1>1, <2>1, <2>2 DEF TypeOK
<1>3. NewAges
  <2>1. \A i \in Position : pods[i] \in {Running, [Running EXCEPT !.going = TRUE], Gone}
    BY DEF Init
  <2> QED BY <2>1, GoneIsPod DEF NewAges, Running, New
<1>4. Quiet
  BY DEF Init, Quiet
<1> QED BY <1>2, <1>3, <1>4 DEF Inv

\* A pod of the list becomes another one.
LEMMA Change ==
    ASSUME Inv, NEW i \in Position, NEW p \in Pods, Becomes(i, p),
           ~ p.going => /\ p.state \in {"unschedulable", "starting"} => p.age = Recent
                        /\ \/ p.age \in {0, Recent, Unknown}
                           \/ p.age = pods[i].age /\ ~ pods[i].going
    PROVE  Inv'
<1>1. UNCHANGED <<watch, left, timer, saw>> /\ pods' = [pods EXCEPT ![i] = p]
  BY DEF Becomes
<1>2. TypeOK'
  BY <1>1 DEF Inv, TypeOK
<1>3. pods'[i] = p /\ \A k \in Position \ {i} : pods'[k] = pods[k]
  BY <1>1 DEF Inv, TypeOK
<1>4. NewAges'
  BY <1>3 DEF Inv, NewAges
<1>5. SinceLastPoll' = SinceLastPoll /\ SinceLastPoll \in Nat
  BY <1>1 DEF SinceLastPoll, Inv, TypeOK
<1>6. Quiet'
  BY <1>1, <1>3, <1>5 DEF Inv, Quiet, Unknown
<1> QED BY <1>2, <1>4, <1>6 DEF Inv

LEMMA PodChangesInv ==
    ASSUME Inv, NEW i \in Position, PodChanges(i)
    PROVE  Inv'
<1>1. pods[i] \in Pods
  BY DEF Inv, TypeOK
<1>2. ~ pods[i].going /\ pods[i].state \in {"unschedulable", "starting"} =>
          pods[i].age = Recent
  BY DEF Inv, NewAges
<1> USE DEF Pods, States, Hints, Ages, Unknown
<1>3. CASE Crash(i)
  <2> PICK age \in {0, Unknown} :
          Becomes(i, [pods[i] EXCEPT !.state = "crashed", !.age = age])
    BY <1>3 DEF Crash
  <2> DEFINE p == [pods[i] EXCEPT !.state = "crashed", !.age = age]
  <2>1. age \in Ages
    OBVIOUS
  <2>2. p \in Pods
    BY <1>1, <2>1
  <2>3. p.state = "crashed" /\ p.age = age
    BY <1>1
  <2> QED BY <2>2, <2>3, Change
<1>4. CASE Restart(i)
  <2>1. CASE Becomes(i, [pods[i] EXCEPT !.state = "running"])
    <3> DEFINE p == [pods[i] EXCEPT !.state = "running"]
    <3>1. p \in Pods /\ p.state = "running" /\ p.age = pods[i].age /\ ~ pods[i].going
      BY <1>1, <1>4 DEF Restart
    <3> QED BY <2>1, <3>1, Change
  <2>2. CASE pods[i].state = "running" /\ Becomes(i, [pods[i] EXCEPT !.age = Recent])
    <3> DEFINE p == [pods[i] EXCEPT !.age = Recent]
    <3>1. p \in Pods /\ p.age = Recent
      BY <1>1
    <3> QED BY <2>2, <3>1, Change
  <2> QED BY <1>4, <2>1, <2>2 DEF Restart
<1>5. CASE BackOff(i)
  <2> DEFINE p == [pods[i] EXCEPT !.state = "backoff"]
  <2>1. p \in Pods /\ p.state = "backoff" /\ p.age = pods[i].age /\ p.going = pods[i].going
    BY <1>1
  <2> QED BY <1>5, <2>1, Change DEF BackOff
<1>6. CASE Schedule(i)
  <2>1. CASE Becomes(i, [pods[i] EXCEPT !.state = "starting", !.hints = {}])
    <3> DEFINE p == [pods[i] EXCEPT !.state = "starting", !.hints = {}]
    <3>1. p \in Pods /\ p.age = pods[i].age /\ p.going = pods[i].going
      BY <1>1
    <3>2. pods[i].state = "unschedulable"
      BY <1>6 DEF Schedule
    <3> QED BY <1>2, <2>1, <3>1, <3>2, Change
  <2>2. ASSUME NEW hints \in Hints, Becomes(i, [pods[i] EXCEPT !.hints = hints])
        PROVE  Inv'
    <3> DEFINE p == [pods[i] EXCEPT !.hints = hints]
    <3>1. p \in Pods /\ p.age = pods[i].age /\ p.going = pods[i].going
          /\ p.state = pods[i].state
      BY <1>1
    <3> QED BY <1>2, <2>2, <3>1, Change
  <2> QED BY <1>6, <2>1, <2>2 DEF Schedule
<1>7. CASE Create(i)
  <2>1. ASSUME NEW state \in States, NEW hints \in Hints, Becomes(i, New(state, hints))
        PROVE  Inv'
    <3>1. New(state, hints) \in Pods
      BY NewIsPod
    <3>2. New(state, hints).age = Recent
      BY DEF New
    <3> QED BY <2>1, <3>1, <3>2, Change
  <2> QED BY <1>7, <2>1 DEF Create
<1>8. CASE Delete(i)
  <2>1. CASE Becomes(i, Gone)
    BY <2>1, GoneIsPod, Change
  <2>2. CASE Becomes(i, [pods[i] EXCEPT !.going = TRUE])
    <3> DEFINE p == [pods[i] EXCEPT !.going = TRUE]
    <3>1. p \in Pods /\ p.going
      BY <1>1
    <3> QED BY <2>2, <3>1, Change
  <2> QED BY <1>8, <2>1, <2>2 DEF Delete
<1> QED BY <1>3, <1>4, <1>5, <1>6, <1>7, <1>8 DEF PodChanges

-----------------------------------------------------------------------------
(* The watch and the clock.                                                *)

\* Nothing was recent when a poll looked at every pod.
LEMMA SawNothing ==
    ASSUME Inv, SawAll, NEW i \in Position, ~ pods[i].going
    PROVE  pods[i].age \in {Recent}
<1>1. ~ Ends(pods[i])
  BY DEF SawAll, EndsAt
<1>2. pods[i] \in Pods
  BY DEF Inv, TypeOK
<1>3. /\ pods[i].state # "unschedulable"
      /\ ~ checkContainerStatusesForCriticalErrors(pods[i])
  BY <1>1 DEF Ends, Counts
<1>4. CASE pods[i].state = "starting"
  BY <1>4 DEF Inv, NewAges
<1>5. CASE pods[i].state = "running"
  <2>1. ~ isRecentTermination(pods[i].age)
    BY <1>3, <1>5 DEF checkContainerStatusesForCriticalErrors
  <2>2. pods[i].age \in 0 .. Recent + 1
    BY <1>2 DEF Pods, Ages, Unknown
  <2> QED BY <2>1, <2>2 DEF isRecentTermination, Unknown
<1>6. pods[i].state \notin {"backoff", "crashed"}
  BY <1>3 DEF checkContainerStatusesForCriticalErrors
<1> QED BY <1>2, <1>3, <1>4, <1>5, <1>6 DEF Pods, States

LEMMA PollInv ==
    ASSUME Inv, Poll
    PROVE  Inv'
<1>1. UNCHANGED <<pods, left>> /\ timer' = Interval
  BY DEF Poll
<1>2. /\ watch' \in {"on", "unstable"} /\ saw' \in BOOLEAN
      /\ watch' = "on" /\ saw' => SawAll
  BY DEF Poll, SawAll
<1>3. TypeOK'
  BY <1>1, <1>2 DEF Inv, TypeOK
<1>4. NewAges'
  BY <1>1 DEF Inv, NewAges
<1>5. Quiet'
  BY <1>1, <1>2, SawNothing DEF Quiet, SinceLastPoll
<1> QED BY <1>3, <1>4, <1>5 DEF Inv

LEMMA TickInv ==
    ASSUME Inv, Tick
    PROVE  Inv'
<1>1. /\ watch = "on" /\ UNCHANGED <<watch, saw>>
      /\ left' = left - 1 /\ timer' = timer - 1
      /\ left # 0 /\ timer # 0
  BY DEF Tick, Due
<1>2. ASSUME NEW i \in Position
      PROVE  /\ pods'[i] \in Pods
             /\ pods'[i].state = pods[i].state /\ pods'[i].going = pods[i].going
             /\ pods'[i].age = Older(pods[i].age)
             /\ pods[i].age \in 0 .. Recent + 1
  <2>1. pods[i] \in Pods /\ pods'[i] = [pods[i] EXCEPT !.age = Older(@)]
    BY DEF Inv, TypeOK, Tick
  <2>2. pods[i].age \in 0 .. Recent + 1
    BY <2>1 DEF Pods, Ages, Unknown
  <2>3. Older(pods[i].age) \in Ages
    BY <2>2 DEF Older, Ages, Unknown
  <2> QED BY <2>1, <2>2, <2>3 DEF Pods
<1>3. TypeOK'
  <2>1. pods' \in [Position -> Pods]
    BY <1>2 DEF Tick
  <2> QED BY <1>1, <2>1 DEF Inv, TypeOK
<1>4. NewAges'
  BY <1>2 DEF Inv, NewAges, Older
<1>5. Quiet'
  <2> SUFFICES ASSUME saw, NEW i \in Position, ~ pods'[i].going
               PROVE  pods'[i].age \notin SinceLastPoll' + 1 .. Recent - 1
    BY <1>1 DEF Quiet
  <2>1. pods[i].age \notin SinceLastPoll + 1 .. Recent - 1
    BY <1>1, <1>2 DEF Inv, Quiet
  <2>2. SinceLastPoll \in Nat /\ SinceLastPoll' = SinceLastPoll + 1
    BY <1>1 DEF Inv, TypeOK, SinceLastPoll
  <2> QED BY <1>2, <2>1, <2>2 DEF Older
<1> QED BY <1>3, <1>4, <1>5 DEF Inv

LEMMA NextInv == Inv /\ [Next]_vars => Inv'
<1> SUFFICES ASSUME Inv, [Next]_vars PROVE Inv'
  OBVIOUS
<1>1. CASE Poll  BY <1>1, PollInv
<1>2. CASE Tick  BY <1>2, TickInv
<1>3. CASE Deadline
  BY <1>3 DEF Deadline, DeadlinePasses, Inv, TypeOK, NewAges, Quiet
<1>4. CASE \E i \in Position : PodChanges(i)
  BY <1>4, PodChangesInv
<1>5. CASE UNCHANGED vars
  BY <1>5 DEF vars, Inv, TypeOK, NewAges, Quiet, SinceLastPoll
<1> QED BY <1>1, <1>2, <1>3, <1>4, <1>5 DEF Next

-----------------------------------------------------------------------------
(* Theorems.                                                               *)

LEMMA Invariance == Spec => []Inv
  BY InitInv, NextInv, PTL DEF Spec

\* Every variable keeps its type.
THEOREM TypeCorrect == Spec => []TypeOK
<1>1. Inv => TypeOK  BY DEF Inv
<1> QED BY Invariance, <1>1, PTL

\* For any number of pods and any intervals, a watch that ends well has seen
\* every crash up to its last poll, if that looked at all pods.
THEOREM StableQuiet == Spec => StableMeansQuiet
<1>1. Inv /\ [Next]_vars =>
          [watch = "on" /\ watch' = "stable" /\ saw =>
              \A i \in Position :
                  ~ pods[i].going =>
                      pods[i].age \notin SinceLastPoll + 1 .. Recent - 1]_vars
  BY DEF Inv, Quiet
<1> QED BY Invariance, <1>1, PTL DEF Spec, StableMeansQuiet
=============================================================================
