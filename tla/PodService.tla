----------------------------- MODULE PodService -----------------------------
(***************************************************************************)
(* CheckPodCriticalErrors on the pods of a workload, and the watch of      *)
(* verifyPostRolloutStability that polls it while containers crash and     *)
(* restart, pods wait for a node and pods are replaced.                    *)
(*                                                                         *)
(* Pods are numbered as the API server lists them.  Containers of a pod    *)
(* are looked at one after another and the first one in trouble ends the   *)
(* scan, so one container stands for all of a pod.  Time is a tick; a poll *)
(* that is due takes none.                                                 *)
(***************************************************************************)
EXTENDS Naturals, FiniteSets, FiniteSetsExt

CONSTANTS
    Slots,     \* places in the list of pods
    Recent,    \* lastTerminationOOMWindow
    Interval,  \* WorkloadCheckInterval
    Duration,  \* PostRolloutCheckIntervalFromContext, 0 if not positive
    ListFails  \* may the API server fail to list the pods?

ASSUME PodServiceAssumption ==
    /\ Slots \in Nat \ {0}
    /\ Duration \in Nat /\ Interval \in Nat \ {0}
    /\ Recent \in Nat \ {0}
    /\ ListFails \in BOOLEAN

VARIABLES
    pods,    \* the pod at each place
    watch,   \* "on", or what verifyPostRolloutStability returned
    left,    \* time to its deadline
    timer,   \* time to its next poll
    saw      \* history: the last poll looked at every pod

vars == <<pods, watch, left, timer, saw>>

Position == 1 .. Slots

\* "unschedulable", or the state of the pod's container.
States == {"unschedulable", "starting", "running", "backoff", "crashed"}

\* What the scheduler's message blames: a hard constraint, which generic
\* nodes do not help, or resource pressure.
Hints == SUBSET {"constraint", "pressure"}

\* Age of the container's last termination with a critical reason: Recent
\* also stands for none, Unknown for one without a time.
Unknown == Recent + 1
Ages    == 0 .. Unknown

New(state, hints) ==
    [going |-> FALSE, state |-> state, hints |-> hints, age |-> Recent]

\* No pod; one that is going is never looked at, nor is this.
Gone == [New("starting", {}) EXCEPT !.going = TRUE]

Pods == [going : BOOLEAN, state : States, hints : Hints, age : Ages]

TypeOK ==
    /\ pods \in [Position -> Pods]
    /\ watch \in {"on", "stable", "unstable"}
    /\ left \in 0 .. Duration
    /\ timer \in 0 .. Interval
    /\ saw \in BOOLEAN

-----------------------------------------------------------------------------
(* CheckPodCriticalErrors.                                                 *)

autoscalerCanLikelyHelpUnschedulable(hints) ==
    "constraint" \notin hints /\ "pressure" \in hints

\* Mutant: only the current state counts, which a restart makes good.
NeverRecent(age) == age > Unknown

isRecentTermination(age) == age < Recent \/ age = Unknown

checkContainerStatusesForCriticalErrors(p) ==
    \/ p.state \in {"backoff", "crashed"}
    \/ p.state = "running" /\ isRecentTermination(p.age)

\* Pods that are being deleted are left out, and so are those in a final
\* phase (Succeeded, Failed): "going" stands for either.
Counts(p) == ~ p.going

\* A pod that ends the scan, and whether the first of them is an error: a
\* pod the autoscaler can likely help is none.
Ends(p) ==
    /\ Counts(p)
    /\ \/ p.state = "unschedulable"
       \/ checkContainerStatusesForCriticalErrors(p)

EndsAt == {i \in Position : Ends(pods[i])}

Saturated(p) ==
    p.state = "unschedulable" /\ autoscalerCanLikelyHelpUnschedulable(p.hints)

CriticalError == EndsAt # {} /\ ~ Saturated(pods[Min(EndsAt)])

\* The scan reached the end of the list.
SawAll == EndsAt = {}

-----------------------------------------------------------------------------
(* verifyPostRolloutStability.                                             *)

Poll ==
    /\ watch = "on"
    /\ timer = 0
    /\ timer' = Interval
    /\ \/ /\ CriticalError
          /\ watch' = "unstable" /\ saw' = TRUE
       \/ /\ ~ CriticalError
          /\ saw' = SawAll /\ UNCHANGED watch
       \/ /\ ListFails \* no error is reported then
          /\ saw' = FALSE /\ UNCHANGED watch
    /\ UNCHANGED <<pods, left>>

\* Mutant: the deadline of the poll is returned as its error.
DeadlineReturned == watch' = "deadline exceeded"

\* Mutant: the poll has no deadline of its own.
DeadlineIgnored == UNCHANGED watch

DeadlinePasses == watch' = "stable"

\* The loop has polled once before it looks at its deadline.
Deadline ==
    /\ watch = "on"
    /\ left = 0
    /\ DeadlinePasses
    /\ UNCHANGED <<pods, left, timer, saw>>

Due == watch = "on" /\ (left = 0 \/ timer = 0)

-----------------------------------------------------------------------------
(* The kubelet, the scheduler, the controller and the clock.               *)

Becomes(i, p) == pods' = [pods EXCEPT ![i] = p] /\ UNCHANGED <<watch, left, timer, saw>>

\* Its termination may come without a time; a container that is stopped
\* because its pod is deleted may end in error as well.
Crash(i) ==
    /\ pods[i].state = "running"
    /\ \E age \in {0, Unknown} :
          Becomes(i, [pods[i] EXCEPT !.state = "crashed", !.age = age])

\* A container that is started again, after a crash or an exit without
\* error, which then is its last termination.
Restart(i) ==
    /\ ~ pods[i].going
    /\ \/ /\ pods[i].state \in {"starting", "crashed", "backoff"}
          /\ Becomes(i, [pods[i] EXCEPT !.state = "running"])
       \/ /\ pods[i].state = "running"
          /\ Becomes(i, [pods[i] EXCEPT !.age = Recent])

BackOff(i) ==
    /\ pods[i].state \in {"starting", "crashed"}
    /\ Becomes(i, [pods[i] EXCEPT !.state = "backoff"])

\* The scheduler tries again, and may find a node now.
Schedule(i) ==
    /\ pods[i].state = "unschedulable"
    /\ \/ Becomes(i, [pods[i] EXCEPT !.state = "starting", !.hints = {}])
       \/ \E hints \in Hints : Becomes(i, [pods[i] EXCEPT !.hints = hints])

Create(i) ==
    /\ pods[i] = Gone
    /\ \/ Becomes(i, New("starting", {}))
       \/ \E hints \in Hints : Becomes(i, New("unschedulable", hints))

Delete(i) ==
    \/ ~ pods[i].going /\ Becomes(i, [pods[i] EXCEPT !.going = TRUE])
    \/ pods[i].going /\ Becomes(i, Gone)

Older(age) == IF age < Recent THEN age + 1 ELSE age

Tick ==
    /\ watch = "on" /\ ~ Due
    /\ left' = left - 1 /\ timer' = timer - 1
    /\ pods' = [i \in Position |-> [pods[i] EXCEPT !.age = Older(@)]]
    /\ UNCHANGED <<watch, saw>>

-----------------------------------------------------------------------------

Running == New("running", {})

\* The rollout is complete; old pods may be on their way out.
Init ==
    /\ pods \in [Position -> {Running, [Running EXCEPT !.going = TRUE], Gone}]
    /\ watch = IF Duration = 0 THEN "stable" ELSE "on"
    /\ left = Duration
    /\ timer = 0
    /\ saw = FALSE

PodChanges(i) == Crash(i) \/ Restart(i) \/ BackOff(i) \/ Schedule(i) \/ Create(i) \/ Delete(i)

Next ==
    \/ Poll \/ Deadline
    \/ watch = "on" /\ \E i \in Position : PodChanges(i)
    \/ Tick
    \/ watch # "on" /\ UNCHANGED vars

Spec == Init /\ [][Next]_vars

\* The goroutine runs and time passes; nothing is assumed of the pods.
FairSpec == Spec /\ WF_vars(Poll) /\ WF_vars(Deadline) /\ WF_vars(Tick)

-----------------------------------------------------------------------------
(* Properties.                                                             *)

SinceLastPoll == Interval - timer

\* A watch that ends well has seen every crash: unless its last poll was
\* blind, no pod that stays has had a container crash within Recent, but for
\* crashes after that poll, although crashed containers restart between two
\* polls.
StableMeansQuiet ==
    [][watch = "on" /\ watch' = "stable" /\ saw =>
          \A i \in Position :
              ~ pods[i].going => pods[i].age \notin SinceLastPoll + 1 .. Recent - 1]_vars

\* The watch ends, whatever the pods do.
WatchEnds == <>(watch # "on")

\* README: "Startup Crash | Container status CrashLoopBackOff | Immediate
\* Rollback".  A poll that lists a pod in that state reports it.
CrashIsSeen ==
    [][watch = "on" /\ timer = 0 /\ timer' # 0 /\ watch' = "on" =>
          \A i \in Position : ~ pods[i].going => pods[i].state # "backoff"]_vars
=============================================================================
