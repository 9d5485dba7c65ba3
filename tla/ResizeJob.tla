------------------------------ MODULE ResizeJob ------------------------------
(***************************************************************************)
(* The body of ResizeJob's loop for one workload object: FindWorkload,     *)
(* ValidateRecommendations, ResizePrecheck, NodeCheck, ApplyResize and     *)
(* rollbackAfterFailedUpdate, against the cluster of module Cluster.       *)
(* Every API call is a step of its own, so the controller, the pods, the   *)
(* users and the other workers move between any two calls.                 *)
(*                                                                         *)
(* A worker runs one job after another on the same object: what the        *)
(* container strategy does with the rows of one workload, what a restarted *)
(* run does, and, with two workers, what happens when two workload IDs     *)
(* name one object.                                                        *)
(*                                                                         *)
(* All containers' resources are one value here, which the rollback puts   *)
(* back exactly.  The real backup turns an absent quantity into zero and   *)
(* ResizeContainer drops resources other than cpu and memory: that is in   *)
(* module Workload.                                                        *)
(***************************************************************************)
EXTENDS Cluster

CONSTANTS
    Worker,            \* goroutines running ResizeJob
    Recommended,       \* Recommended[w]: the recommendations worker w is given
    DryRun,            \* ctxkeys.DryRunFromContext
    ResizeOnRecreate,  \* ctxkeys.ResizeOnRecreateFromContext
    PostRolloutCheck,  \* ctxkeys.PostRolloutCheckFromContext
    MaxTries,          \* retry.DefaultRetry.Steps
    Faults             \* a subset of {"lostReply", "crash"}

ASSUME ResizeJobAssumption ==
    /\ Client = Worker
    /\ Recommended \in [Worker -> SUBSET Resources]
    /\ DryRun \in BOOLEAN /\ ResizeOnRecreate \in BOOLEAN
    /\ PostRolloutCheck \in BOOLEAN
    /\ MaxTries \in Nat \ {0}

VARIABLES
    pc,       \* the next call of each worker
    rec,      \* the recommendation its job applies
    snap,     \* spec of the Workload its last FindWorkload returned
    orig,     \* originalTemplate: the resources ApplyResize backed up
    undoing,  \* it runs rollbackAfterFailedUpdate
    seenDone, \* the status GetStatus returned in this poll is complete
    expired,  \* the deadline of its current poll has passed
    tries,    \* failed attempts of RetryOnConflict
    report,   \* status of the last event that ended its job
    rollback, \* the rollback event of that job, if any
    good      \* history: was the workload rolled out since its last write?

jobVars == <<pc, rec, snap, orig, undoing, seenDone, expired, tries,
             report, rollback>>
vars == <<clusterVars, jobVars, good>>

Precheck == {"paused", "pdb", "status", "pods", "nodes"}
Polling  == {"poll", "pollPods", "soak"}
Undo     == {"undoFind", "undoUpdate", "undoVerify"}
Steps    == {"idle", "find", "update"} \cup Precheck \cup Polling \cup Undo

Reports   == {"none", "Skipped", "Failed", "Succeeded"}
Rollbacks == {"none", "RollbackSucceeded", "RollbackFailed"}

TypeOK ==
    /\ ClusterTypeOK
    /\ pc \in [Worker -> Steps]
    /\ rec \in [Worker -> Resources]
    /\ snap \in [Worker -> WorkloadSpec]
    /\ orig \in [Worker -> Resources]
    /\ undoing \in [Worker -> BOOLEAN]
    /\ seenDone \in [Worker -> BOOLEAN]
    /\ expired \in [Worker -> BOOLEAN]
    /\ tries \in [Worker -> 0 .. MaxTries - 1]
    /\ report \in [Worker -> Reports]
    /\ rollback \in [Worker -> Rollbacks]
    /\ good \in [Worker -> BOOLEAN]

-----------------------------------------------------------------------------
(* Control.                                                                *)

Goto(w, step) == pc' = [pc EXCEPT ![w] = step]

\* The job ends: its event and, from a rollback, the rollback's event.
Finish(w, status, undone) ==
    /\ Goto(w, "idle")
    /\ report'   = [report EXCEPT ![w] = status]
    /\ rollback' = [rollback EXCEPT ![w] = undone]

Skip(w) == Finish(w, "Skipped", "none")

\* wait.PollUntilContextTimeout starts with a new deadline.
StartPoll(w) ==
    /\ Goto(w, "poll")
    /\ expired' = [expired EXCEPT ![w] = FALSE]

StartJob(w) ==
    /\ pc[w] = "idle"
    /\ \E r \in Recommended[w] : rec' = [rec EXCEPT ![w] = r]
    /\ rollback' = [rollback EXCEPT ![w] = "none"]
    /\ undoing'  = [undoing EXCEPT ![w] = FALSE]
    /\ \/ Goto(w, "find") /\ report' = [report EXCEPT ![w] = "none"]
       \/ report' = [report EXCEPT ![w] = "Skipped"] /\ UNCHANGED pc
    /\ UNCHANGED <<clusterVars, snap, orig, seenDone, expired, tries>>

FindWorkload(w) ==
    /\ pc[w] = "find"
    /\ \/ /\ Fetch(w)
          /\ snap' = [snap EXCEPT ![w] = obj.spec]
          /\ \/ /\ rec[w] # obj.spec.res
                /\ Goto(w, "paused")
                /\ UNCHANGED <<report, rollback>>
             \/ Skip(w)
       \/ Skip(w) /\ UNCHANGED <<fresh, snap>>
    /\ UNCHANGED <<obj, pods, pdbBlocks, strategy, rec, orig, undoing,
                   seenDone, expired, tries>>

-----------------------------------------------------------------------------
(* ResizePrecheck and NodeCheck.                                           *)

\* One check: it may fail (its call does, or its condition), or be passed.
Check(w, here, passes, next) ==
    /\ pc[w] = here
    /\ \/ passes /\ Goto(w, next) /\ UNCHANGED <<report, rollback>>
       \/ Skip(w)
    /\ UNCHANGED <<clusterVars, rec, snap, orig, undoing, seenDone, expired,
                   tries>>

\* Mutant: a paused workload is resized as well.
PausedIgnored(w) == Check(w, "paused", TRUE, "pdb")

IsWorkloadInPausedState(w) == Check(w, "paused", ~ obj.spec.paused, "pdb")

\* The update strategy follows in the same step; it needs no call.
StrategyAllowed ==
    \/ strategy = "RollingUpdate"
    \/ strategy = "Recreate" /\ ResizeOnRecreate

\* If the PDBs cannot be listed the job goes on: only a PDB seen to block
\* or the strategy skips it.
IsPDBTooRestrictive(w) ==
    /\ pc[w] = "pdb"
    /\ \/ StrategyAllowed /\ Goto(w, "status") /\ UNCHANGED <<report, rollback>>
       \/ (pdbBlocks \/ ~ StrategyAllowed) /\ Skip(w)
    /\ UNCHANGED <<clusterVars, rec, snap, orig, undoing, seenDone, expired,
                   tries>>

\* Mutant: a rollout under way goes unnoticed.
RolloutIgnored(w) == Check(w, "status", obj.available >= Replicas, "pods")

GetStatus(w) ==
    Check(w, "status",
          obj.available >= Replicas /\ obj.updated >= Replicas, "pods")

\* If the pods cannot be listed no error is reported: the check passes.
CheckPodCriticalErrors(w) ==
    /\ pc[w] = "pods"
    /\ \/ Goto(w, "nodes") /\ UNCHANGED <<report, rollback>>
       \/ AnyPodCritical /\ Skip(w)
    /\ UNCHANGED <<clusterVars, rec, snap, orig, undoing, seenDone, expired,
                   tries>>

NodeCheck(w) == Check(w, "nodes", TRUE, "update")

-----------------------------------------------------------------------------
(* ResizeWorkload: the held object with other resources is written back    *)
(* whole, as client-go's Update does; the API server refuses it unless its *)
(* resourceVersion is current.                                             *)

Accepted(w) == w \in fresh

\* Mutant: the Update is sent without the resourceVersion that was read, as
\* an unconditional one.
UpdateUnversioned(w, res) ==
    IF DryRun THEN UNCHANGED <<obj, fresh>>
    ELSE StoreSpec([snap[w] EXCEPT !.res = res])

Update(w, res) ==
    IF DryRun THEN UNCHANGED <<obj, fresh>>
    ELSE Accepted(w) /\ StoreSpec([snap[w] EXCEPT !.res = res])

\* Mutant: resources that already match are written again.
AlwaysChanges(w, res) == res \in Resources

\* Resources that already match make ResizeWorkload return an error.
Changes(w, res) == snap[w].res # res

\* The answer to an Update the server did perform is lost.
LostUpdate(w, res) == "lostReply" \in Faults /\ ~ DryRun /\ Update(w, res)

ApplyResize(w) ==
    /\ pc[w] = "update"
    /\ orig' = [orig EXCEPT ![w] = snap[w].res]
    /\ \/ /\ Changes(w, rec[w])
          /\ Update(w, rec[w])
          /\ StartPoll(w)
          /\ UNCHANGED <<report, rollback>>
       \/ /\ Changes(w, rec[w])
          /\ LostUpdate(w, rec[w])
          /\ Finish(w, "Failed", "none")
          /\ UNCHANGED expired
       \/ /\ ~ DryRun \/ ~ Changes(w, rec[w])
          /\ Finish(w, "Failed", "none") \* a conflict or any other error
          /\ UNCHANGED <<obj, fresh, expired>>
    /\ UNCHANGED <<pods, pdbBlocks, strategy, rec, snap, undoing, seenDone, tries>>

-----------------------------------------------------------------------------
(* CheckWorkloadStatus, polled after the resize and after the rollback.    *)

\* Mutant: a failed rollout is only reported.
UndoForgotten(w) == Finish(w, "Failed", "none") /\ UNCHANGED <<undoing, tries>>

StartUndo(w) ==
    /\ Goto(w, "undoFind")
    /\ undoing' = [undoing EXCEPT ![w] = TRUE]
    /\ tries'   = [tries EXCEPT ![w] = 0]
    /\ UNCHANGED <<report, rollback>>

\* The poll returned an error: of the resize, or of the rollback.
PollFailed(w) ==
    IF undoing[w] THEN /\ Finish(w, "Failed", "RollbackFailed")
                       /\ UNCHANGED <<undoing, tries>>
                  ELSE StartUndo(w)

PollSucceeded(w) ==
    /\ UNCHANGED <<undoing, tries>>
    /\ IF undoing[w]          THEN Finish(w, "Failed", "RollbackSucceeded")
       ELSE IF PostRolloutCheck THEN Goto(w, "soak") /\ UNCHANGED <<report, rollback>>
       ELSE Finish(w, "Succeeded", "none")

\* Mutant: a status of the generation before counts.
StatusUnobserved == obj.updated = Replicas /\ obj.available = Replicas

StatusComplete ==
    obj.updated = Replicas /\ obj.available = Replicas /\ obj.observed

PollStatus(w) ==
    /\ pc[w] = "poll"
    /\ ~ expired[w]
    /\ \/ /\ seenDone' = [seenDone EXCEPT ![w] = StatusComplete]
          /\ Goto(w, "pollPods")
          /\ UNCHANGED <<undoing, tries, report, rollback>>
       \/ PollFailed(w) /\ UNCHANGED seenDone
    /\ UNCHANGED <<clusterVars, rec, snap, orig, expired>>

PollPods(w) ==
    /\ pc[w] = "pollPods"
    /\ seenDone' = [seenDone EXCEPT ![w] = FALSE]
    /\ \/ AnyPodCritical /\ PollFailed(w) /\ UNCHANGED expired
       \/ /\ seenDone[w]
          /\ PollSucceeded(w)
          /\ expired' = [expired EXCEPT ![w] = FALSE]
       \/ /\ ~ seenDone[w]
          /\ Goto(w, "poll")
          /\ UNCHANGED <<undoing, tries, report, rollback, expired>>
    /\ UNCHANGED <<clusterVars, rec, snap, orig>>

\* Time passes: any deadline is reached if its poll lasts long enough.
Expire(w) ==
    /\ pc[w] \in Polling
    /\ ~ expired[w]
    /\ expired' = [expired EXCEPT ![w] = TRUE]
    /\ UNCHANGED <<clusterVars, pc, rec, snap, orig, undoing, seenDone, tries,
                   report, rollback>>

\* Mutant: the verification of a rollback has no deadline.
UndoUnlimited(w) ==
    /\ pc[w] = "poll"
    /\ expired[w] /\ ~ undoing[w]
    /\ StartUndo(w)
    /\ UNCHANGED <<clusterVars, rec, snap, orig, seenDone, expired>>

PollTimeout(w) ==
    /\ pc[w] = "poll"
    /\ expired[w]
    /\ PollFailed(w)
    /\ UNCHANGED <<clusterVars, rec, snap, orig, seenDone, expired>>

\* verifyPostRolloutStability: until its deadline every poll of the pods
\* must find no critical error; one that finds none changes nothing here.
Soak(w) ==
    /\ pc[w] = "soak"
    /\ \/ AnyPodCritical /\ StartUndo(w)
       \/ expired[w] /\ Finish(w, "Succeeded", "none") /\ UNCHANGED <<undoing, tries>>
    /\ UNCHANGED <<clusterVars, rec, snap, orig, seenDone, expired>>

-----------------------------------------------------------------------------
(* rollbackAfterFailedUpdate.                                              *)

\* Mutant: the event of a failed rollback is not sent.
UndoFailedSilently(w) == Finish(w, "Failed", "none") /\ UNCHANGED tries

\* Mutant: the rollback's event is taken for the one of the job.
UndoFailedOnly(w) == Finish(w, "RollbackFailed", "none") /\ UNCHANGED tries

UndoFailed(w) == Finish(w, "Failed", "RollbackFailed") /\ UNCHANGED tries

UndoFind(w) ==
    /\ pc[w] = "undoFind"
    /\ \/ /\ Fetch(w)
          /\ snap' = [snap EXCEPT ![w] = obj.spec]
          /\ Goto(w, "undoUpdate")
          /\ UNCHANGED <<tries, report, rollback>>
       \/ UndoFailed(w) /\ UNCHANGED <<fresh, snap>>
    /\ UNCHANGED <<obj, pods, pdbBlocks, strategy, rec, orig, undoing,
                   seenDone, expired>>

MayRetry(w) == tries[w] + 1 < MaxTries

\* A conflict, and nothing else, is retried from FindWorkload.
UndoUpdate(w) ==
    /\ pc[w] = "undoUpdate"
    /\ \/ /\ Changes(w, orig[w])
          /\ Update(w, orig[w])
          /\ Goto(w, "undoVerify")
          /\ UNCHANGED <<tries, report, rollback>>
       \/ /\ Changes(w, orig[w])
          /\ LostUpdate(w, orig[w])
          /\ UndoFailed(w)
       \/ /\ Changes(w, orig[w])
          /\ ~ DryRun /\ ~ Accepted(w)
          /\ MayRetry(w)
          /\ tries' = [tries EXCEPT ![w] = @ + 1]
          /\ Goto(w, "undoFind")
          /\ UNCHANGED <<obj, fresh, report, rollback>>
       \/ /\ ~ DryRun \/ ~ Changes(w, orig[w])
          /\ UndoFailed(w)
          /\ UNCHANGED <<obj, fresh>>
    /\ UNCHANGED <<pods, pdbBlocks, strategy, rec, snap, orig, undoing,
                   seenDone, expired>>

\* The workload is fetched again to be verified; without it no rollback
\* event is sent at all.
UndoVerify(w) ==
    /\ pc[w] = "undoVerify"
    /\ \/ StartPoll(w) /\ UNCHANGED <<report, rollback>>
       \/ Finish(w, "Failed", "none") /\ UNCHANGED expired
    /\ UNCHANGED <<clusterVars, rec, snap, orig, undoing, seenDone, tries>>

-----------------------------------------------------------------------------

\* The process dies, with the backup in its memory, and is started again.
Crash ==
    /\ "crash" \in Faults
    /\ \E w \in Worker : pc[w] # "idle"
    /\ pc'       = [w \in Worker |-> "idle"]
    /\ report'   = [w \in Worker |-> "none"]
    /\ rollback' = [w \in Worker |-> "none"]
    /\ UNCHANGED <<clusterVars, rec, snap, orig, undoing, seenDone, expired, tries>>

Init ==
    /\ ClusterInit
    /\ pc = [w \in Worker |-> "idle"]
    /\ rec \in [Worker -> {obj.spec.res}]
    /\ snap = [w \in Worker |-> obj.spec]
    /\ orig = [w \in Worker |-> obj.spec.res]
    /\ undoing = [w \in Worker |-> FALSE]
    /\ seenDone = [w \in Worker |-> FALSE]
    /\ expired = [w \in Worker |-> FALSE]
    /\ tries = [w \in Worker |-> 0]
    /\ report = [w \in Worker |-> "none"]
    /\ rollback = [w \in Worker |-> "none"]
    /\ good = [w \in Worker |-> TRUE]

Job(w) ==
    \/ FindWorkload(w)
    \/ IsWorkloadInPausedState(w)
    \/ IsPDBTooRestrictive(w)
    \/ GetStatus(w)
    \/ CheckPodCriticalErrors(w)
    \/ NodeCheck(w)
    \/ ApplyResize(w)
    \/ PollStatus(w)
    \/ PollPods(w)
    \/ PollTimeout(w)
    \/ Soak(w)
    \/ UndoFind(w)
    \/ UndoUpdate(w)
    \/ UndoVerify(w)

\* The API server stored an Update of worker w in this step.  One that
\* changes nothing takes the object's resourceVersion, too.
Wrote(w) ==
    /\ pc[w] \in {"update", "undoUpdate"} /\ pc'[w] # pc[w]
    /\ <<obj, fresh>>' # <<obj, fresh>>

History == good' = [w \in Worker |-> RolledOut' \/ (good[w] /\ ~ Wrote(w))]

Next ==
    /\ \/ ClusterNext /\ UNCHANGED jobVars
       \/ \E w \in Worker : StartJob(w) \/ Job(w) \/ Expire(w)
       \/ Crash
    /\ History

Spec == Init /\ [][Next]_vars

\* Goroutines run, calls return and clocks advance; nothing is assumed of
\* the cluster, and no job has to be started.
FairSpec ==
    /\ Spec
    /\ \A w \in Worker : WF_vars(Job(w) /\ History) /\ WF_vars(Expire(w) /\ History)

-----------------------------------------------------------------------------
(* Properties.                                                             *)

PastPaused == {"pdb", "status", "pods", "nodes", "update"}
PastStatus == {"pods", "nodes", "update"}

\* What ResizePrecheck established about the object still holds, for as
\* long as the resourceVersion FindWorkload read is current: its checks read
\* the object again, so they speak of the object that is written.
CheckedInv(w) ==
    w \in fresh =>
        /\ pc[w] \in Precheck \cup {"update", "undoUpdate"} => snap[w] = obj.spec
        /\ pc[w] \in Precheck \cup {"update"} => snap[w].res # rec[w]
        /\ pc[w] \in PastPaused => ~ obj.spec.paused
        /\ pc[w] \in PastStatus =>
              obj.available >= Replicas /\ obj.updated >= Replicas

SnapshotInv == \A w \in Worker : CheckedInv(w)

\* ResizeWorkload of ApplyResize never patches a workload that is paused or
\* that its status shows degraded or mid-rollout, whatever users and the
\* controller do between the checks and the Update, and the backup it keeps
\* for the rollback is what its patch replaces.
PatchIsChecked ==
    \A w \in Worker :
        Wrote(w) /\ pc[w] = "update" =>
            /\ ~ obj.spec.paused
            /\ obj.available >= Replicas /\ obj.updated >= Replicas
            /\ orig'[w] = obj.spec.res

PatchOnlyChecked == [][PatchIsChecked]_vars

\* A patch writes the whole object back, yet neither the resize nor the
\* rollback ever reverts a concurrent edit of the rest of its spec.
KeepsEdits ==
    \A w \in Worker :
        Wrote(w) => /\ obj'.spec.img = obj.spec.img
                    /\ obj'.spec.paused = obj.spec.paused

EditsSurvive == [][KeepsEdits]_vars

\* No write restarts the pods for nothing: each changes the resources, also
\* when a run is repeated after a crash.
ChangesResources ==
    \A w \in Worker : Wrote(w) => obj'.spec.res # obj.spec.res

NoNoopUpdate == [][ChangesResources]_vars

\* A job that reports Failed, without a failed rollback, has left the
\* resources as they were before it.
FailureIsUndone ==
    \A w \in Worker :
        report[w] = "Failed" /\ rollback[w] # "RollbackFailed" =>
            obj.spec.res = orig[w]

\* A reported success (of the resize, or of the rollback) means that all
\* replicas ran the written template and were ready after the write.
SuccessMeansRolledOut ==
    \A w \in Worker :
        (report[w] = "Succeeded" \/ rollback[w] = "RollbackSucceeded") => good[w]

\* The soak test only looks at pods of its own resize: the old ones, which
\* the selector finds as well, are gone by then, however the controller,
\* failing pods and users who edit the rest of the template interleave, so
\* no crash of theirs takes the resize back.  (While the rollout is polled
\* they are not gone, and theirs may.)
SoakSeesOwnPods ==
    \A w \in Worker :
        pc[w] = "soak" => \A p \in Live : pods[p].tmpl.res = rec[w]

\* The rollback of a job only ever takes back that job's own resize.
RollbackUndoesOwn ==
    [][\A w \in Worker :
          Wrote(w) /\ pc[w] = "undoUpdate" => obj.spec.res = rec[w]]_vars

\* A workload whose last spec the controller has not looked at yet is in the
\* middle of a rollout whatever its status says: it is not patched.
PatchOnlySettled ==
    [][\A w \in Worker : Wrote(w) /\ pc[w] = "update" => obj.observed]_vars

\* Each worker's jobs implement the monitored transaction the README
\* promises, as long as nobody else sets the resources and the process and
\* its calls' answers are not lost.
Phase(w) ==
    IF pc[w] = "idle" THEN "idle"
    ELSE IF pc[w] \in {"find", "update"} \cup Precheck THEN "checking"
    ELSE IF pc[w] \in Polling /\ ~ undoing[w] THEN "monitoring"
    ELSE "recovering"

Verdict(w) == IF rollback[w] = "RollbackFailed" THEN "Stuck" ELSE report[w]

Transaction(w) == INSTANCE MonitoredUpdate WITH
    Value <- Resources, Targets <- Recommended[w],
    live <- obj.spec.res, phase <- Phase(w), target <- rec[w],
    backup <- orig[w], verdict <- Verdict(w)

MonitoredTransaction ==
    /\ \A w \in Worker : Transaction(w)!Init
    /\ [][\A w \in Worker : [Transaction(w)!Next]_(Transaction(w)!vars)]_vars

\* Every job ends with a report, whatever the cluster does: each poll has a
\* deadline, and conflicts are retried a bounded number of times.
JobsEnd == \A w \in Worker : pc[w] # "idle" ~> pc[w] = "idle"
=============================================================================
