# K8s-Rightsizer in TLA+

Specifications of the rightsizer's engine, the TLC runs that check them on small
instances, and proofs of its central safety properties for every instance.
Paths and line numbers are relative to the repository's root; the README quoted
below is the repository's.

## 1. The system

The tool reads rows (recommendations) from an Excel file and applies each to a
Deployment or StatefulSet: read the object, validate, pre-check, write it back
with other cpu/memory settings, watch the rollout, and put the old settings back
if it fails. Several workers do this in parallel.

| Part | State it keeps | Operations | Correct when |
|---|---|---|---|
| `cmd/main.go` | flags | parses them, reads the file, runs one `Resize` | - |
| `recommendation/reader`, `model.Recommendation` | - | reads the Excel file once; a row's WorkloadID | equal IDs are equal objects |
| `WorkloadResizer` | one channel of groups, results channel, wait group | `Resize`, `ResizeJob`, grouping by WorkloadID | every group is processed once, `Resize` returns |
| `ContainerResizer` | a channel per worker, results channel, wait group | `Resize`, `ResizeJob`, sharding by WorkloadID | the same, and rows of a workload run one at a time in file order |
| `BaseResizer` | cooldown of the node recheck (mutex); per job, on the stack: the object read, the backup, deadlines | `ResizePrecheck`, `NodeCheck`, `ApplyResize`, `CheckWorkloadStatus`, `verifyPostRolloutStability`, `rollbackAfterFailedUpdate` | a resize is a monitored transaction on a workload that was fit for it |
| `DeploymentWorkload`, `StatefulSetWorkload` | - | `FindWorkload`, `ResizeWorkload`, `GetStatus`, `IsWorkloadInPausedState` | the Update changes resources only |
| `Workload` | the template read | `ValidateRecommendations`, `ResizeContainer` | what is valid is accepted, a rollback restores |
| `PodService` | - | tells whether a workload has a pod in trouble | a watch misses no crash a poll can see, and ends |
| `NodeService` | - | counts nodes | a job is refused for nodes only while there are none |
| `ResizeWatcher`, `ResizeIndicator` | listeners; counters per status (lock) | `Notify`, `HandleResizeEvent` | the progress is exact |
| the cluster (external) | the object, its resourceVersion, generation and status, pods, PDBs | controllers, kubelet, users | - |
| Helm chart | - | restarts a job that dies | - |

How they interact: the caller of `Resize` feeds workers over buffered channels;
each worker calls the API server many times per job, synchronously; it calls
the indicator through the watcher in its own goroutine and then sends a line to
the results channel, which one more goroutine prints. The only state workers
share is the channels, the indicator, the node cooldown, and the cluster.

What is hard here: the object is read once, checked by five pre-checks with API
calls of their own, and written back minutes later, while users, the controller
and other workers change it; status lags behind the spec; the rollout, its
deadline and its failure race; the rollback re-reads and retries; the process
may die in between; channels must be closed in the right order whoever is
canceled; and zero stands for "absent" in some places and not in others.

## 2. Modules

| Module | Models | State and actions |
|---|---|---|
| `Cluster` | external: the object, its controller, pods, a PDB, users | see below |
| `ResizeJob` | one job from `FindWorkload` to its last event, `resizer.go` and the workload services | `pc[w]` is the next API call of worker `w`; every call is one action; `snap` is the object read, `orig` is `originalTemplate`, `expired` the current deadline, `tries` the attempts of `RetryOnConflict` |
| `MonitoredUpdate` | the abstract specification: a transaction on the resources of one workload | `Begin, Decline, Apply, Refuse, Commit, Abort, Restore, Close` |
| `NodeCheck` | `BaseResizer.NodeCheck`, `waitForCompatibleNodes`, the cooldown, `NodeService.Find` | `step[w]` is where each worker is; `left`, `timer` the deadline and next poll of its wait; `sinceMark` the age of `lastNoCompatibleNodesAt`; nodes come, go and change; `Tick` |
| `PodService` | `CheckPodCriticalErrors` and the loop of `verifyPostRolloutStability` | the listed pods with the state of their container and the age of its last termination; `Poll`, `Deadline`, and what kubelet, scheduler and controller do |
| `Recommendation` | which rows of the sheet are read, their WorkloadIDs, the groups, the object a row is applied to | operators |
| `ResizeIndicator` | the counters | `HandleResizeEvent` |
| `WorkerPool` | `Resize` and the loop of `ResizeJob`, both strategies | caller, printer and workers as processes over bounded channels |
| `WorkloadResizer`, `ContainerResizer` | what fixes the channels of each | assumptions on the constants; properties of the shards |
| `Workload` | validation, `ResizeContainer`, `ResizeWorkload`, rollback recommendations | operators on templates, and a pipeline `Validate`, `Resize`, `Rollback` |
| `ResizeJobProofs` | types and the safety of what `ResizeJob` writes; that it implements `MonitoredUpdate`; what a reported success means | theorems |
| `WorkerPoolProofs`, `ContainerResizerProofs`, `WorkloadResizerProofs` | the pool, and what its shards and its groups are for | theorems |
| `WorkloadProofs` | validation, resize and rollback of a template | theorems |
| `FoldTheorems` | what folds over sets and sequences compute | lemmas about the library's folds, parameterised by the step |
| `NodeCheckProofs`, `PodServiceProofs` | the cooldown and the waits; the watch | theorems |
| `MC*` | instances | |

`WorkerPool` extends `ResizeIndicator`; a job is opaque there and ends with any
status, which `ResizeJob`'s `JobsEnd` justifies. `WorkloadResizer` and
`ContainerResizer` extend it and `Recommendation`: their jobs, groups and routes
are computed from the rows of a sheet. In `ResizeJob`, `NodeCheck` is one call
that passes or fails, and a pod is critical or not and may be missed; what is
behind these two calls is in the modules of their names. `ResizeJob` extends `Cluster`;
a template's resources are one value there, and "valid" means "other than the
current one"; `Workload` has what happens inside that value.

Abstractions worth knowing:

* **resourceVersion and generation** are only ever compared, so `Cluster` keeps
  the result: `fresh`, the clients whose copy is current (a stored write empties
  it), and `obj.observed`, observedGeneration >= generation. No counter is
  bounded because none is left.
* **Any call may fail**: most actions have a branch for it. A conflict is not
  told from other errors, except in the rollback, where only a conflict retries.
* **Time** is `Expire`: a deadline may pass at any moment of a poll.
* **The controller** only ever computes status from the stored object, and its
  pods are interchangeable. With `Surge = 0` it replaces in place, with
  `Surge = 1` it creates first. Replicas are not scaled, strategies not edited.
  A poll that counts as progress to nobody (nothing found) is a stutter.
* **`seenDone`**: `CheckWorkloadStatus` reads the status, then the pods; the
  model keeps the verdict between the two calls.
* **`good`** is a history variable: the workload has been rolled out since the
  worker's last write. So are `sinceGiveUp` and `served` in `NodeCheck` (age of
  the last wait that reached its deadline; how long there has been a usable node)
  and `saw` in `PodService` (the last poll looked at every pod).
* **Clocks** of `NodeCheck` and `PodService` are ages and remaining times that
  stop at the constant they are compared with, so they are bounded for any
  constants. A poll that is due takes no tick. Pods of `PodService` have one
  container: containers of a pod are scanned in order and any that is in trouble
  ends the scan with the same result.
* **Names** in `Recommendation` are sequences of words, which hyphens separate:
  joining by hyphens is concatenation, and names with hyphens can collide.
* **Quantities** are numbers in `Workload`; an unparsable row is a flag.

## 3. Runs

Bounds: two resource settings and two images tell all templates the code
compares apart, one worker and one replica the orders of calls; two pods where a
surge is the question, three settings where two workers and the original have to
differ. All runs of `ResizeJob` have one replica: the theorems are about any
number, and with two of them (partial rollouts) and users who only pause, the
properties of `rolling` were found to hold as well, in 600,000 states. `MaxTries` is 2 in the runs about rollbacks (one
retry, then none), 1 elsewhere; the code has 5 and treats them alike.

| Run | Shows | Instance |
|---|---|---|
| `rolling` | `SnapshotInv`, `PatchOnlyChecked`, `EditsSurvive`: no patch on a workload that is paused, degraded or mid-rollout by its status, no lost edits; `FailureIsUndone`, `MonitoredTransaction`: the job implements `MonitoredUpdate`; `SuccessMeansRolledOut`, also of rollbacks; `SoakSeesOwnPods`: the soak test looks at no pod of the old template | 1 worker, 1 pod, users edit image and pause, soak test on |
| `liveness` | `JobsEnd` under fairness; `NoNoopUpdate` across crashes, lost answers and reruns | 3 strategies, soak test, users edit the resources, crashes at any step |
| `workload_resizer` | `JobsConserved`, `SendIsSafe`, `ProgressIsExact`, `ReturnMeansAll`, `ReturnsUncanceled`; `GroupIsObject`: a group is all rows of one object | 2 workers, 3 groups, 2 places, every order, canceled at any moment |
| `container_resizer` | `OneAtATime`, `FileOrder`, `ReturnMeansAll`, `Returns` | 2 shards, 4 rows of 3 workloads, two of them in one shard, canceled at any moment |
| `templates` | a pipeline over every template and group: `ValidIsAccepted`, `ValidChangesSomething`, `RollbackIsAccepted`, `RollbackRestoresQuantities`, `OthersUntouched`, `RerunIsSkipped` | 2 containers, quantities 1 to 3, absent ones included, groups of 1 or 2 |
| `nodes` | `SkipIsEarned`: a job is refused unchecked only within the cooldown of a wait that lasted its window; `GiveUpSawNone`: a wait looks until its deadline; `ChecksEnd`; `LooksAgain`: the cooldown never stops the workers from looking | 2 workers, 3 nodes of 2 architectures in any state, window 3, interval 2, cooldown 3, canceled at any moment |
| `pods` | `StableMeansQuiet`: a watch that ends well has seen every crash up to its last poll; `WatchEnds` | 2 pods that crash, restart, back off, wait for a node, are deleted and replaced; polls may fail |

In `nodes` the deadline falls between two polls and waits of the two workers
overlap in every way; three nodes are the fewest of which most can be NotReady
while one is usable. In `pods` an interval has room for a crash and a restart
between two polls, and the second pod can hide behind the first.

Deadlock is checked in all of them but `workload_resizer` and `templates`. `workload_resizer` may really stop: see the last section.
`templates` is a pipeline that ends.

The runs that find a violation, each a disagreement of code and text:

| Run | What it shows |
|---|---|
| `surge` | `CheckWorkloadStatus` commits while the only ready pod is the old one: `status.replicas` is not looked at (`resizer.go:312`) |
| `stale_status` | `ResizePrecheck` does not look at `observedGeneration`: it patches in the middle of a rollout that is not observed yet (`resizer.go:120`) |
| `same_object` | rows that differ in environment, or say ReplicaSet, go to other shards although they name the same Deployment; one's rollback undoes the other's resize (`container-resizer.go:78`) |
| `unlimited_rollback` | with limits managed, a container that had none is rolled back to a limit of zero, which the API server refuses (`resizer.go:275`) |
| `hidden_crash` | a pod in CrashLoopBackOff goes unreported while a pod listed before it waits for the autoscaler: the scan returns there (`pod-svc.go:98`) |

### Fairness

`FairSpec` of `ResizeJob`: weak fairness of each worker's next call (goroutines
run and client calls return, by their timeouts) and of `Expire` (clocks advance).
Nothing is assumed of the controller, the pods or the users, so `JobsEnd` holds
for a cluster that never does anything and for one that never rests.
`FairSpec` of `WorkerPool`: weak fairness of the caller, the printer and each
worker: the Go scheduler, and, for the end of a job, `JobsEnd`. Cancellation is
never forced. `FairSpec` of `NodeCheck`: weak fairness of each worker inside
`NodeCheck`, and strong fairness of `Tick`, because time passes however often
something that takes none becomes due; no check has to be begun, so `LooksAgain`
is about runs in which they are. `FairSpec` of `PodService`: weak fairness of the
poll, its deadline and the clock; nothing is assumed of nodes and pods.

## 4. Proofs

The theorems of `ResizeJobProofs` are about `ResizeJob`, for all sets of workers,
pods, resources, images and edits and any number of replicas; those of
`WorkloadProofs` are about any containers, resources, templates and groups of
recommendations of any length. Every safety property that a passing run checks is
stated by one of the theorems. The named assumptions on the constants
(`ClusterAssumption`, `ResizeJobAssumption`, `PoolAssumption`, ...: finite sets,
positive bounds, queues that are served) are assumed throughout; the last column
names what else a theorem needs.

| Module | Theorem | Statement | Also assumes |
|---|---|---|---|
| `ResizeJobProofs` | `TypeCorrect` | `Spec => []TypeOK` | |
| | `Checked` | `Spec => []SnapshotInv` | |
| | `PatchSafe` | `Spec => PatchOnlyChecked` | |
| | `EditsSafe` | `Spec => EditsSurvive` | |
| | `NoNoop` | `Spec => NoNoopUpdate` | |
| | `FailureUndone` | `Spec => []FailureIsUndone` | `SoleOwner` |
| | `Implements` | `Spec => MonitoredTransaction` | `SoleOwner` |
| | `SuccessIsReal` | `Spec => []SuccessMeansRolledOut` | `NoExtraPods` |
| | `SoakIsOwn` | `Spec => []SoakSeesOwnPods` | `SoleOwner`, `NoExtraPods` |
| `WorkerPoolProofs` | `TypeCorrect` | `Spec => []TypeOK` | |
| | `Conserved` | `Spec => []JobsConserved` | |
| | `SafeSend` | `Spec => []SendIsSafe` | |
| | `ReturnComplete` | `Spec => []ReturnMeansAll` | |
| | `ExactProgress` | `Spec => []ProgressIsExact` | |
| `ContainerResizerProofs` | `OneWorker` | `Spec => []OneAtATime` | `OneEnvironment` |
| | `InFileOrder` | `Spec => FileOrder` | `OneEnvironment` |
| `WorkloadResizerProofs` | `WholeObject` | `Spec => []GroupIsObject` | `PlainSheet` |
| `WorkloadProofs` | `TypeCorrect` | `Spec => []TypeOK` | |
| | `Restores` | `Spec => []RollbackRestoresQuantities` | |
| | `Untouched` | `Spec => []OthersUntouched` | |
| | `Rerun` | `Spec => []RerunIsSkipped` | `RecsArePositive` |
| | `Accepted` | `Spec => []ValidIsAccepted` | `RecsArePositive`, `LimitsArePositive` |
| | `ChangesSomething` | `Spec => []ValidChangesSomething` | `RecsArePositive` |
| | `RollbackAccepted` | `Spec => []RollbackIsAccepted` | `RecsArePositive`, `LimitsAreSet` |
| `NodeCheckProofs` | `TypeCorrect` | `Spec => []TypeOK` | |
| | `SkipEarned` | `Spec => SkipIsEarned` | |
| | `GiveUpSaw` | `Spec => GiveUpSawNone` | |
| `PodServiceProofs` | `TypeCorrect` | `Spec => []TypeOK` | |
| | `StableQuiet` | `Spec => StableMeansQuiet` | |

**Patches.** They are safe although the pre-checks read the object again and
again, without comparing what they read with the copy that is written. What
makes them safe is optimistic concurrency. While `w \in fresh`, nothing has been
stored since `FindWorkload`, so the copy is the object and whatever a later
pre-check read is still true of it: that is `CheckedInv`, one conjunct per fact
and the steps at which it is known. It is inductive together with `TypeOK`: a
step of anybody either leaves the object alone (`ClusterKeeps`, `OthersHold`), or
stores and empties `fresh`. A step of `w` itself moves `pc[w]` past a check only
if the check holds now (`CheckedOwn`). An accepted Update has `w \in fresh`
(`WriteIsUpdate`), so the invariant speaks of the object it replaces
(`WriteEffect`), and the action properties follow.

**Refinement.** `SoleOwner` is one worker on the object, nobody else who sets its
resources, no crash, no lost answer, no dry run; image and pause may be edited
at any moment. Then `OwnedInv` relates the backup, the copy and the object phase
by phase: until the Update the copy has the object's resources (so the backup is
what the Update replaced, or would have), and from an accepted rollback until
its verification has ended the backup has them. Whether a rollback's Update
changes anything comes from `SnapshotInv`. Each action of the job is then one
step of `MonitoredUpdate` or a stutter: `CheckOwned`, `ApplyOwned`,
`MonitorOwned`, `StuckOwned`, `RecoverOwned`, `UndoOwned`. Each assumption is
needed; section 5 says what happens without it.

**Success.** `NoExtraPods` is about the object: a StatefulSet, a Deployment
without surge, or one whose strategy is not a rolling update (Recreate waits until
the old pods are gone). Then there are never more pods than replicas
(`NoSurplus`), so a status that counts all replicas as updated and all as ready counts the same
pods twice (`CountsTell`): when the controller publishes it, the rollout is
complete. It stays the status of the current spec while `observed` holds, and
every write of a spec clears that (`StatusKept`), so whoever reads it complete
reads of a rollout since his own last write (`StatusTells`); `SuccessInv` carries
this from the poll over the soak test to the report. Crashes, lost answers,
other workers and users make no difference. With surge it fails: run `surge`.
That Recreate needs no bound on the surge was checked by TLC first (2 replicas,
surge 1, 3.3 million states).

**Soak.** `AllNew` says that every pod has the stored resources. A complete status
tells it (`StatusNew`: as many updated pods as replicas, and no others), pods made
later are made from the stored spec (`AllNewKept`), and nobody but the worker sets
the resources (`ResourcesHeld`); while it monitors, the stored ones are those it
wrote (`SoakInv`). So the pods that were replaced are gone when the soak begins.

**Pool.** `Apart` and `Somewhere` say that the queues, the workers' hands and the
printed results partition the jobs; only four actions move a job, each from the
head of one place to another (`SendMoves`, `ReceiveMoves`, `ResultMoves`,
`PrintMoves`), and the counts of `JobsConserved` follow (`OnePlace`). A worker
with a result holds a job that is in no result, so the results channel, with a
place per job, has one left (`RoomForResult`); it is closed only when all workers
are done (`Control`). An uncanceled worker is done only when its channel is
closed and empty (`Holding`), and every channel a job is sent to has a worker, so
a Resize that returns has nothing left. For the shards, `Own` adds that workers
hold jobs of their own channel and `InOrder` that each channel is in file order;
`OneEnvironment` (rows of one environment, each of kind Deployment or
StatefulSet) makes rows of one object have one WorkloadID, whatever the names and
the hash are. `ExactProgress` needs no more of the pool: a worker adds the rows of
its job to the indicator in the step in which the job's outcome is out, and a
job's outcome is out once (`OutcomeReported`, from `Apart`); the sum grows by
these rows (`TotalStep`).

**Folds.** The code's loops over recommendations are `FoldLeft`s, and the progress
is a sum over a set; the library defines both by `CHOOSE` of a function over all
subsets. `FoldTheorems` has the step as an operator parameter of the module, so
whoever folds instantiates it with his own step, and proves that such a function
exists (`FoldExists`, by induction over the subsets of a finite set, from the
well-foundedness of the library), that it is one (`FoldUnique`), and so that
`Fold` satisfies its recursive definition (`FoldStep`, `PrefixFold`). These are
lemmas about the library, not results about the code. `ResizeSteps` and `KeepSteps` then give
the template, or the list, after each pass of a loop.

**Templates.** `Resized` says what the first n recommendations of a group have
made of a container: if none disagrees with what it had, it is untouched; it is
untouched or as one of them wrote it; the last one about it holds; limits that
are not managed are as before. `ResizeResult` proves it of the whole loop, for
groups of any length. In the inductive invariant `Inv` the template is what the
original *becomes* (`Becomes`) by the valid recommendations and, after a rollback,
what that becomes by the rollback's. The rollback has one recommendation per
container, in any order, so "the last one holds" restores every quantity
(`Restores`), and "none disagrees" keeps what nobody resized (`Untouched`).
For `Accepted`, a container is as it was or as a valid recommendation
wrote it, whatever the others wrote before. The three hypotheses bound what files
and templates contain. They are needed, see section 5; in the run `templates` all
of them hold, as do the parts of `Inv` that TLC can evaluate.

**Groups.** `PlainSheet` adds to `OneEnvironment` that no word of a namespace or a
workload name is a kind; Kubernetes allows only lower case in them. Equal
WorkloadIDs of one environment then have their kind at the same place, or one
namespace would contain the other's kind (`NoLongerNamespace`); so all their parts
are equal (`SameParts`), and a group is the rows of one object, all of them
(`GroupRows`). Without it `shop-Deployment` would be a namespace like any other.

**Cooldown.** `CooldownInv`: the mark is never younger than the last wait that
reached its deadline, and a mark about to be made is as old as that, because
marking takes no time. `WaitInv`: a wait that has polled and found no node cannot
have been served for longer than it takes to the next poll.

**Watch.** `Quiet` is `StableMeansQuiet` at every moment of the watch: a poll
that saw every pod leaves no recent termination, and from then on a termination
is never older than the poll. It needs `NewAges`, as a container that is being
created is not asked for its last termination.

Only model-checked: `JobsEnd`, `Returns`, `ReturnsUncanceled`, `ChecksEnd`,
`LooksAgain`, `WatchEnds`. They are liveness under fairness, which is out of the
prover's reach. What the violation runs show is found by TLC, not proved.

## 5. Where the limits are

Assumptions the passing runs make, and what happens without them (change the
constant in the `.cfg` and the property fails):

* `FailureIsUndone` needs answers to arrive: with `Faults = {"lostReply"}` an
  Update that was stored is reported Failed and left in place (`resizer.go:420`).
* It is about one process: the backup is in memory. After a crash the rerun finds
  the resources it wants, skips the workload, and nobody monitors the update. What
  crashes and lost answers cannot do is in `liveness`: cause a second write or an
  endless job.
* `MonitoredTransaction` needs nobody else to set the resources.
* `Returns` does not hold in `workload_resizer` once the context is canceled: the
  caller sends over a full channel without a select (`workload-resizer.go:74`)
  and the workers no longer receive. `cmd/main.go` never cancels.
* `ValidIsAccepted` needs limits above zero where limits are not managed: a limit
  of zero counts as absent (`workload.go:148`), and Kubernetes takes it for zero.
* `ValidIsAccepted`, `ValidChangesSomething` and `RerunIsSkipped` need
  recommendations above zero:
  with limits managed, limits of zero pass the validation whatever the requests
  are, and are refused by the API server; on a container without limits whose
  requests already match they pass the validation and then match
  (`workload.go:139` and `workload.go:75` disagree about zero). A zero never matches, so a
  rerun does not skip it (`workload.go:137`).
* `RollbackRestoresQuantities` compares as the code does, absent is zero. A
  container that had no request gets a request of zero from a rollback, also
  where its request defaulted to its limit, and a resource other than cpu and
  memory is dropped (`workload.go:87`).
* `OneAtATime`, `FileOrder` and `GroupIsObject` need the rows of one environment,
  none of kind ReplicaSet: otherwise rows of one object have several IDs (run
  `same_object`). With several environments IDs of different objects can be
  equal, too: environment `prod` with namespace `eu-shop`, and `prod-eu` with
  `shop`.
* `StableMeansQuiet` leaves out a watch whose last poll was blind: the pods could
  not be listed, which is no error (`pod-svc.go:80`), or a pod that waits for the
  autoscaler came first. It says something only when the window of recent
  terminations is longer than the interval of the polls, as it is. A container
  that exits without error after a crash has no critical last termination any
  more. A watch whose context is canceled ends well; the command never cancels.
* `SoakSeesOwnPods` is about the soak test, and about rollouts that make no extra
  pod. While a rollout is polled, nothing tells pods of the old template from those
  of the new one: old pods that are not being deleted yet, and after a rollback the
  pods of the resize that failed, count (`pod-svc.go:86`), although the README says
  that the new pods are monitored (`README.md:184`). So an old pod that crashes takes
  a resize back, and a rollback made because of a crash is reported failed if a poll
  still finds the pod that crashed.
* A dry run writes nothing because `DryRun` reaches every Update; it does through
  `context.WithoutCancel`, too, and is a constant here, so no property is about it.
* A mark of the cooldown may come after another worker's success has cleared it:
  then the next check that finds no node is refused unchecked, although the last
  wait succeeded. A wait that succeeds does not look again whether most nodes are
  ready (`resizer.go:206` and `resizer.go:155`). A canceled wait marks as well;
  the run is over then.
* The events of a group count its recommendations that were dropped as invalid,
  too (`workload-resizer.go:162`), so the successes may exceed the rows that were
  applied.
* A rollback's event comes before its job's Failed event and counts the
  template's containers, so the rollback counters may exceed the failures;
  `ProgressIsExact` is about the progress only.

Not modelled: the hash (any function stands for it, and the theorems hold for
all); opening the sheet and the units its cells get (a number with a decimal point
gets none and is read as cores or bytes, `excel.go:96`); formatting and parsing
of quantities beyond whether it succeeds; `cmd`, which parses flags, sets up the
log and runs one `Resize` with a context that is never canceled; how a context
carries the flags, which are constants here; listeners other than the indicator;
the Helm chart beyond the restart of a job; the test environment.

## 6. Plan

Done: the job and its cluster, the abstract transaction, the pool in both
strategies over the rows of a sheet, the templates, the node check and the watch;
the job's inductive invariants, its refinement and what its success means, the
pool and its progress, the shards, the groups, the templates, the cooldown and the
watch, proved. Left:

1. `FailureIsUndone` for several workers whose objects differ, from the theorem
   about one and `OneWorker`.
2. An abstract specification of `Resize` (jobs that are open, taken or settled) that
   `WorkerPool` implements, proved.
3. Which recommendations of a group an event counts, and the rows that were applied.
4. The command's `Resize` over a context that is canceled by a signal, should it
   get one.
