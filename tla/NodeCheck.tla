------------------------------ MODULE NodeCheck ------------------------------
(***************************************************************************)
(* BaseResizer.NodeCheck of workers that run at the same time: the count   *)
(* of NodeService.Find, the wait for usable nodes with its polls and its   *)
(* deadline, and the cooldown of that wait, which the workers share.       *)
(*                                                                         *)
(* Time is a tick.  Times of the code are kept as ages and remaining       *)
(* times, so nothing is unbounded: an age stops at Cooldown, which also    *)
(* stands for a lastNoCompatibleNodesAt that is zero.  A poll that is due  *)
(* and the few instructions around the mutex take no tick.                 *)
(***************************************************************************)
EXTENDS Naturals, FiniteSets

CONSTANTS
    Worker,      \* goroutines that check nodes for their workloads
    Node,
    Arch,        \* Arch[n]: the label kubernetes.io/arch of node n
    Wanted,      \* architectures the templates select; "" selects none
    Window,      \* NodeCompatibilityRecheckWindow, 0 if it is not positive
    Interval,    \* NodeCompatibilityRecheckPollInterval
    Cooldown,    \* NodeCompatibilityRecheckCooldown, 0 if it is not positive
    Cancelable   \* is the context ever canceled?

ASSUME NodeCheckAssumption ==
    /\ IsFiniteSet(Node)
    /\ Window \in Nat /\ Cooldown \in Nat /\ Interval \in Nat \ {0}
    /\ Cancelable \in BOOLEAN

VARIABLES
    nodes,       \* the state of each node
    canceled,    \* ctx.Done() is closed
    step,        \* where in NodeCheck each worker is, or how its last one ended
    left,        \* time to the deadline of its wait
    timer,       \* time to the next poll of its wait
    sinceMark,   \* age of lastNoCompatibleNodesAt
    sinceGiveUp, \* history: age of the last wait that reached its deadline
    served       \* history: for how long there has been a usable node

checkVars == <<step, left, timer, sinceMark>>
vars == <<nodes, canceled, checkVars, sinceGiveUp, served>>

NodeStates == {"absent", "notReady", "cordoned", "usable"}
Outcomes == {"passed", "refused"}

TypeOK ==
    /\ nodes \in [Node -> NodeStates]
    /\ canceled \in BOOLEAN
    /\ step \in [Worker -> Outcomes \cup {"recheck", "wait", "mark", "clear"}]
    /\ left \in [Worker -> 0 .. Window]
    /\ timer \in [Worker -> 0 .. Interval]
    /\ sinceMark \in 0 .. Cooldown
    /\ sinceGiveUp \in 0 .. Cooldown
    /\ served \in 0 .. Interval + 1

-----------------------------------------------------------------------------
(* NodeService.Find.                                                       *)

\* A template without an architecture.
AnyArch == ""

Present    == {n \in Node : nodes[n] # "absent"}
ReadyNodes == {n \in Node : nodes[n] \in {"cordoned", "usable"}}

Compatible(arch) ==
    {n \in Node : nodes[n] = "usable" /\ (arch = AnyArch \/ Arch[n] = arch)}

Unstable == Cardinality(ReadyNodes) * 2 < Cardinality(Present)

-----------------------------------------------------------------------------
(* NodeCheck.                                                              *)

Goto(w, s) == step' = [step EXCEPT ![w] = s]

\* NodeCheck returns nil, or one of its errors: its job is skipped.
Pass(w)   == Goto(w, "passed")
Refuse(w) == Goto(w, "refused")

\* Find may fail; only a template that selects no architecture waits.
FirstFind(w) ==
    /\ step[w] \in Outcomes
    /\ \E arch \in Wanted :
          \/ Refuse(w)
          \/ Unstable /\ Refuse(w)
          \/ ~ Unstable /\ Compatible(arch) # {} /\ Pass(w)
          \/ ~ Unstable /\ Compatible(arch) = {} /\ arch # AnyArch /\ Refuse(w)
          \/ ~ Unstable /\ Compatible(arch) = {} /\ arch = AnyArch /\ Goto(w, "recheck")
    /\ UNCHANGED <<nodes, canceled, left, timer, sinceMark, sinceGiveUp, served>>

\* Mutant: a check the cooldown skips is a failure that marks it again.
SkipMarksAgain(w) ==
    /\ step[w] = "recheck"
    /\ sinceMark < Cooldown
    /\ Refuse(w)
    /\ sinceMark' = 0
    /\ UNCHANGED <<nodes, canceled, left, timer, sinceGiveUp, served>>

Skip(w) ==
    /\ step[w] = "recheck"
    /\ sinceMark < Cooldown
    /\ Refuse(w)
    /\ UNCHANGED <<nodes, canceled, left, timer, sinceMark, sinceGiveUp, served>>

\* Mutant: the time of the polls is added to the window.
LateDeadline == Window + Interval

Deadline == Window

\* waitForCompatibleNodes: it polls at once, and without a window it is over.
StartWait(w) ==
    /\ step[w] = "recheck"
    /\ sinceMark >= Cooldown
    /\ Goto(w, IF Window = 0 THEN "mark" ELSE "wait")
    /\ sinceGiveUp' = IF Window = 0 THEN 0 ELSE sinceGiveUp
    /\ left'  = [left EXCEPT ![w] = Deadline]
    /\ timer' = [timer EXCEPT ![w] = 0]
    /\ UNCHANGED <<nodes, canceled, sinceMark, served>>

\* The wait ends, and its context and timer with it.
EndWait(w, s) ==
    /\ Goto(w, s)
    /\ left'  = [left EXCEPT ![w] = 0]
    /\ timer' = [timer EXCEPT ![w] = 0]

\* The poll made before the loop; it is made on a canceled context, too.
FirstPoll(w) == left[w] = Deadline /\ timer[w] = 0

\* Mutant: no poll but the first one.
PollOnce(w) == timer[w] = 0 /\ FirstPoll(w)

PollDue(w) == timer[w] = 0

\* Mutant: a Find that fails is taken for unavailable nodes.
PollErrorMarks(w) == EndWait(w, "mark")

PollError(w) == EndWait(w, "refused")

Poll(w) ==
    /\ step[w] = "wait" /\ PollDue(w)
    /\ \/ Compatible(AnyArch) # {} /\ EndWait(w, "clear")
       \/ /\ Compatible(AnyArch) = {}
          /\ timer' = [timer EXCEPT ![w] = Interval]
          /\ UNCHANGED <<step, left>>
       \/ PollError(w)
    /\ UNCHANGED <<nodes, canceled, sinceMark, sinceGiveUp, served>>

\* Mutant: the deadline is not looked at.
OnlyCanceled(w) == canceled /\ ~ FirstPoll(w)

\* The context of the wait is done, by its deadline or by its parent.
WaitOver(w) == (left[w] = 0 \/ canceled) /\ ~ FirstPoll(w)

\* Either is errCompatibleNodesUnavailable.
GiveUp(w) ==
    /\ step[w] = "wait"
    /\ WaitOver(w)
    /\ EndWait(w, "mark")
    /\ sinceGiveUp' = IF left[w] = 0 THEN 0 ELSE sinceGiveUp
    /\ UNCHANGED <<nodes, canceled, sinceMark, served>>

\* markCompatibleNodesRecheckFailure; the window it records is never read.
Mark(w) ==
    /\ step[w] = "mark"
    /\ sinceMark' = 0
    /\ Refuse(w)
    /\ UNCHANGED <<nodes, canceled, left, timer, sinceGiveUp, served>>

\* clearCompatibleNodesRecheckFailure
Clear(w) ==
    /\ step[w] = "clear"
    /\ sinceMark' = Cooldown
    /\ Pass(w)
    /\ UNCHANGED <<nodes, canceled, left, timer, sinceGiveUp, served>>

Check(w) ==
    \/ FirstFind(w)
    \/ Skip(w) \/ StartWait(w)
    \/ Poll(w)
    \/ GiveUp(w)
    \/ Mark(w) \/ Clear(w)

-----------------------------------------------------------------------------
(* The nodes, the clock and the caller.                                    *)

NodeChanges ==
    /\ \E n \in Node, s \in NodeStates : nodes' = [nodes EXCEPT ![n] = s]
    /\ served' = IF Compatible(AnyArch)' = {} THEN 0 ELSE served
    /\ UNCHANGED <<canceled, checkVars, sinceGiveUp>>

Cancel ==
    /\ Cancelable /\ ~ canceled
    /\ canceled' = TRUE
    /\ UNCHANGED <<nodes, checkVars, sinceGiveUp, served>>

UpTo(n, age) == IF age < n THEN age + 1 ELSE n

\* A step of w that takes no time is due.
Due(w) ==
    \/ step[w] \in {"mark", "clear"}
    \/ step[w] = "wait" /\ (PollDue(w) \/ WaitOver(w))

Waiting == {w \in Worker : step[w] = "wait"}

\* A deadline that is not heeded stays at zero.
Tick ==
    /\ \A w \in Worker : ~ Due(w)
    /\ left'  = [w \in Worker |->
                    IF w \in Waiting /\ left[w] > 0 THEN left[w] - 1 ELSE left[w]]
    /\ timer' = [w \in Worker |->
                    IF w \in Waiting /\ timer[w] > 0 THEN timer[w] - 1 ELSE timer[w]]
    /\ sinceMark'   = UpTo(Cooldown, sinceMark)
    /\ sinceGiveUp' = UpTo(Cooldown, sinceGiveUp)
    /\ served' = IF Compatible(AnyArch) = {} THEN 0 ELSE UpTo(Interval + 1, served)
    /\ UNCHANGED <<nodes, canceled, step>>

-----------------------------------------------------------------------------

Init ==
    /\ nodes \in [Node -> NodeStates]
    /\ canceled = FALSE
    /\ step = [w \in Worker |-> "refused"]
    /\ left = [w \in Worker |-> 0]
    /\ timer = [w \in Worker |-> 0]
    /\ sinceMark = Cooldown
    /\ sinceGiveUp = Cooldown
    /\ served = 0

Next ==
    \/ \E w \in Worker : Check(w)
    \/ NodeChanges
    \/ Cancel
    \/ Tick

Spec == Init /\ [][Next]_vars

\* Goroutines that are inside NodeCheck go on, and time passes.  No check
\* has to be started.
FairSpec ==
    /\ Spec
    /\ \A w \in Worker : WF_vars(step[w] \notin Outcomes /\ Check(w))
    /\ SF_vars(Tick)

-----------------------------------------------------------------------------
(* Properties.                                                             *)

\* A job is refused by the cooldown only if some worker's recheck did last
\* its whole window in the time before: an error, another worker's success
\* or a canceled run never costs a workload its resize.
SkipIsEarned ==
    [][\A w \in Worker :
          step[w] = "recheck" /\ step'[w] = "refused" /\ ~ canceled =>
              sinceGiveUp < Cooldown]_vars

\* A wait that ends at its deadline has looked until the end: there has not
\* been a usable node for longer than a poll interval.
GiveUpSawNone ==
    [][\A w \in Worker :
          step[w] = "wait" /\ step'[w] = "mark" /\ ~ canceled =>
              served <= Interval]_vars

\* Whatever the nodes do, every check that needs to wait ends.
ChecksEnd == \A w \in Worker : step[w] \notin Outcomes ~> step[w] \in Outcomes

\* The cooldown never keeps the workers from looking again: if checks go on
\* finding no usable node, some of them wait for one.
LooksAgain ==
    []<>(\E w \in Worker : step[w] = "recheck")
        => []<>(\E w \in Worker : step[w] = "wait")
=============================================================================
