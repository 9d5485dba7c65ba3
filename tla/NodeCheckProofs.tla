--------------------------- MODULE NodeCheckProofs ---------------------------
(***************************************************************************)
(* Types of NodeCheck, and what its shared cooldown and its waits promise, *)
(* for any workers, nodes, window, interval and cooldown.                  *)
(***************************************************************************)
EXTENDS NodeCheck, TLAPS

\* The mark is never younger than the last wait that reached its deadline,
\* and one about to be made is as old as that: the cooldown is earned.
CooldownInv ==
    ~ canceled =>
        /\ sinceGiveUp <= sinceMark
        /\ \A w \in Worker : step[w] = "mark" => sinceGiveUp = 0

\* While there is no usable node none has been served, and a wait that has
\* polled found none at that poll.
WaitInv ==
    /\ Compatible(AnyArch) = {} => served = 0
    /\ \A w \in Worker :
          step[w] = "wait" /\ ~ FirstPoll(w) => served + timer[w] <= Interval

Inv == TypeOK /\ CooldownInv /\ WaitInv

LEMMA Times == Window \in Nat /\ Cooldown \in Nat /\ Interval \in Nat \ {0}
  BY NodeCheckAssumption

USE Times

LEMMA InitInv == Init => Inv
<1> SUFFICES ASSUME Init PROVE Inv
  OBVIOUS
<1>1. TypeOK
  <2>1. step \in [Worker -> Outcomes]  BY DEF Init, Outcomes
  <2>2. left \in [Worker -> 0 .. Window] /\ timer \in [Worker -> 0 .. Interval]
    BY DEF Init
  <2>3. /\ sinceMark \in 0 .. Cooldown /\ sinceGiveUp \in 0 .. Cooldown
        /\ served \in 0 .. Interval + 1
    BY DEF Init
  <2> QED BY <2>1, <2>2, <2>3 DEF Init, TypeOK
<1>2. CooldownInv  BY DEF Init, CooldownInv
<1>3. WaitInv      BY DEF Init, WaitInv
<1> QED BY <1>1, <1>2, <1>3 DEF Inv

-----------------------------------------------------------------------------
(* Types.                                                                  *)

LEMMA CheckTypes ==
    ASSUME TypeOK, NEW w \in Worker, Check(w)
    PROVE  TypeOK'
<1> USE DEF TypeOK, Outcomes, Goto, Pass, Refuse, EndWait
<1>1. CASE FirstFind(w)  BY <1>1 DEF FirstFind
<1>2. CASE Skip(w)       BY <1>2 DEF Skip
<1>3. CASE StartWait(w)  BY <1>3 DEF StartWait, Deadline
<1>4. CASE Poll(w)       BY <1>4 DEF Poll, PollError
<1>5. CASE GiveUp(w)     BY <1>5 DEF GiveUp
<1>6. CASE Mark(w)       BY <1>6 DEF Mark
<1>7. CASE Clear(w)      BY <1>7 DEF Clear
<1> QED BY <1>1, <1>2, <1>3, <1>4, <1>5, <1>6, <1>7 DEF Check

LEMMA TickTypes ==
    ASSUME TypeOK, Tick
    PROVE  TypeOK'
<1> USE DEF TypeOK, Tick
<1>1. left' \in [Worker -> 0 .. Window]
  OBVIOUS
<1>2. timer' \in [Worker -> 0 .. Interval]
  OBVIOUS
<1>3. sinceMark' \in 0 .. Cooldown /\ sinceGiveUp' \in 0 .. Cooldown
  BY DEF UpTo
<1>4. served' \in 0 .. Interval + 1
  BY DEF UpTo
<1> QED BY <1>1, <1>2, <1>3, <1>4

LEMMA NextTypes == TypeOK /\ [Next]_vars => TypeOK'
<1> SUFFICES ASSUME TypeOK, [Next]_vars PROVE TypeOK'
  OBVIOUS
<1>1. CASE \E w \in Worker : Check(w)  BY <1>1, CheckTypes
<1>2. CASE NodeChanges
  BY <1>2 DEF NodeChanges, checkVars, TypeOK, NodeStates
<1>3. CASE Cancel  BY <1>3 DEF Cancel, checkVars, TypeOK
<1>4. CASE Tick    BY <1>4, TickTypes
<1>5. CASE UNCHANGED vars  BY <1>5 DEF vars, checkVars, TypeOK
<1> QED BY <1>1, <1>2, <1>3, <1>4, <1>5 DEF Next

-----------------------------------------------------------------------------
(* The cooldown.                                                           *)

LEMMA CheckCooldown ==
    ASSUME TypeOK, CooldownInv, NEW w \in Worker, Check(w)
    PROVE  CooldownInv'
<1> USE DEF TypeOK, CooldownInv, Outcomes, Goto, Pass, Refuse, EndWait
<1>1. CASE FirstFind(w)  BY <1>1 DEF FirstFind
<1>2. CASE Skip(w)       BY <1>2 DEF Skip
<1>3. CASE StartWait(w)  BY <1>3 DEF StartWait
<1>4. CASE Poll(w)       BY <1>4 DEF Poll, PollError
<1>5. CASE GiveUp(w)     BY <1>5 DEF GiveUp, WaitOver
<1>6. CASE Mark(w)       BY <1>6 DEF Mark
<1>7. CASE Clear(w)      BY <1>7 DEF Clear
<1> QED BY <1>1, <1>2, <1>3, <1>4, <1>5, <1>6, <1>7 DEF Check

LEMMA NextCooldown == TypeOK /\ CooldownInv /\ [Next]_vars => CooldownInv'
<1> SUFFICES ASSUME TypeOK, CooldownInv, [Next]_vars PROVE CooldownInv'
  OBVIOUS
<1>1. CASE \E w \in Worker : Check(w)  BY <1>1, CheckCooldown
<1>2. CASE NodeChanges  BY <1>2 DEF NodeChanges, checkVars, CooldownInv
<1>3. CASE Cancel       BY <1>3 DEF Cancel, checkVars, CooldownInv
<1>4. CASE Tick
  <2>1. \A w \in Worker : step'[w] # "mark"
    BY <1>4 DEF Tick, Due
  <2>2. ~ canceled => sinceGiveUp' <= sinceMark'
    BY <1>4 DEF Tick, UpTo, TypeOK, CooldownInv
  <2> QED BY <2>1, <2>2, <1>4 DEF Tick, CooldownInv
<1>5. CASE UNCHANGED vars  BY <1>5 DEF vars, checkVars, CooldownInv
<1> QED BY <1>1, <1>2, <1>3, <1>4, <1>5 DEF Next

-----------------------------------------------------------------------------
(* The waits.                                                              *)

LEMMA CheckWait ==
    ASSUME TypeOK, WaitInv, NEW w \in Worker, Check(w)
    PROVE  WaitInv'
<1>1. UNCHANGED <<nodes, served>>
  BY DEF Check, FirstFind, Skip, StartWait, Poll, GiveUp, Mark, Clear
<1>2. Compatible(AnyArch)' = Compatible(AnyArch)
  BY <1>1 DEF Compatible
<1>3. ASSUME NEW v \in Worker, step'[v] = "wait", ~ FirstPoll(v)'
      PROVE  served + timer'[v] <= Interval
  <2> USE <1>3 DEF TypeOK, WaitInv, FirstPoll, Deadline, Goto, Pass, Refuse,
                   EndWait, Outcomes
  <2>1. CASE FirstFind(w)  BY <2>1 DEF FirstFind
  <2>2. CASE Skip(w)       BY <2>2 DEF Skip
  <2>3. CASE StartWait(w)  BY <2>3 DEF StartWait
  <2>4. CASE Poll(w)       BY <2>4 DEF Poll, PollError
  <2>5. CASE GiveUp(w)     BY <2>5 DEF GiveUp
  <2>6. CASE Mark(w)       BY <2>6 DEF Mark
  <2>7. CASE Clear(w)      BY <2>7 DEF Clear
  <2> QED BY <2>1, <2>2, <2>3, <2>4, <2>5, <2>6, <2>7 DEF Check
<1> QED BY <1>1, <1>2, <1>3 DEF WaitInv

LEMMA NextWait == TypeOK /\ WaitInv /\ [Next]_vars => WaitInv'
<1> SUFFICES ASSUME TypeOK, WaitInv, [Next]_vars PROVE WaitInv'
  OBVIOUS
<1>1. CASE \E w \in Worker : Check(w)  BY <1>1, CheckWait
<1>2. CASE NodeChanges
  BY <1>2 DEF NodeChanges, checkVars, WaitInv, TypeOK, FirstPoll
<1>3. CASE Cancel
  BY <1>3 DEF Cancel, checkVars, WaitInv, FirstPoll, Compatible
<1>4. CASE Tick
  <2>1. Compatible(AnyArch)' = Compatible(AnyArch)
    BY <1>4 DEF Tick, Compatible
  <2>2. Compatible(AnyArch) = {} => served' = 0
    BY <1>4 DEF Tick
  <2>3. ASSUME NEW v \in Worker, step'[v] = "wait"
        PROVE  served' + timer'[v] <= Interval
    <3>1. step[v] = "wait" /\ v \in Waiting /\ timer[v] # 0
      BY <1>4, <2>3 DEF Tick, Waiting, Due, PollDue
    <3>2. timer'[v] = timer[v] - 1
      BY <1>4, <3>1 DEF Tick, TypeOK
    <3>3. served + timer[v] <= Interval
      BY <3>1 DEF WaitInv, FirstPoll
    <3>4. served' <= served + 1 /\ served' \in Nat
      BY <1>4 DEF Tick, UpTo, TypeOK
    <3> QED BY <3>2, <3>3, <3>4 DEF TypeOK
  <2> QED BY <2>1, <2>2, <2>3 DEF WaitInv
<1>5. CASE UNCHANGED vars
  BY <1>5 DEF vars, checkVars, WaitInv, FirstPoll, Compatible
<1> QED BY <1>1, <1>2, <1>3, <1>4, <1>5 DEF Next

-----------------------------------------------------------------------------
(* Theorems.                                                               *)

LEMMA Invariance == Spec => []Inv
<1>1. Inv /\ [Next]_vars => Inv'
  BY NextTypes, NextCooldown, NextWait DEF Inv
<1> QED BY InitInv, <1>1, PTL DEF Spec

\* Every variable keeps its type.
THEOREM TypeCorrect == Spec => []TypeOK
<1>1. Inv => TypeOK  BY DEF Inv
<1> QED BY Invariance, <1>1, PTL

\* However the waits of any number of workers overlap, the cooldown skips a
\* check only within Cooldown of a wait that lasted its whole window.
THEOREM SkipEarned == Spec => SkipIsEarned
<1>1. ASSUME Inv, [Next]_vars, NEW w \in Worker,
             step[w] = "recheck", step'[w] = "refused", ~ canceled
      PROVE  sinceGiveUp < Cooldown
  <2>1. PICK v \in Worker : Check(v)
    BY <1>1 DEF Next, NodeChanges, Cancel, Tick, vars, checkVars
  <2>2. Skip(w)
    BY <1>1, <2>1 DEF Check, FirstFind, Skip, StartWait, Poll, PollError, GiveUp,
                      Mark, Clear, EndWait, Goto, Pass, Refuse, Outcomes, Inv, TypeOK
  <2> QED BY <1>1, <2>2 DEF Skip, Inv, CooldownInv, TypeOK
<1>2. Inv /\ [Next]_vars =>
          [\A w \in Worker :
              step[w] = "recheck" /\ step'[w] = "refused" /\ ~ canceled =>
                  sinceGiveUp < Cooldown]_vars
  BY <1>1
<1> QED BY Invariance, <1>2, PTL DEF Spec, SkipIsEarned

\* A wait that gives up at its deadline has not overlooked a usable node
\* for longer than a poll interval.
THEOREM GiveUpSaw == Spec => GiveUpSawNone
<1>1. ASSUME Inv, [Next]_vars, NEW w \in Worker,
             step[w] = "wait", step'[w] = "mark"
      PROVE  served <= Interval
  <2>1. PICK v \in Worker : Check(v)
    BY <1>1 DEF Next, NodeChanges, Cancel, Tick, vars, checkVars
  <2>2. GiveUp(w)
    BY <1>1, <2>1 DEF Check, FirstFind, Skip, StartWait, Poll, PollError, GiveUp,
                      Mark, Clear, EndWait, Goto, Pass, Refuse, Outcomes, Inv, TypeOK
  <2>3. ~ FirstPoll(w)
    BY <2>2 DEF GiveUp, WaitOver
  <2> QED BY <1>1, <2>3 DEF Inv, WaitInv, TypeOK
<1>2. Inv /\ [Next]_vars =>
          [\A w \in Worker :
              step[w] = "wait" /\ step'[w] = "mark" /\ ~ canceled =>
                  served <= Interval]_vars
  BY <1>1
<1> QED BY Invariance, <1>2, PTL DEF Spec, GiveUpSawNone
=============================================================================
