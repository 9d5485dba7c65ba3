--------------------------- MODULE ResizeJobProofs ---------------------------
(***************************************************************************)
(* Theorems about ResizeJob, for any workload, any number of workers,      *)
(* replicas and users, every fault included.                               *)
(***************************************************************************)
EXTENDS ResizeJob, TLAPS, FiniteSetTheorems

USE ClusterAssumption, ResizeJobAssumption

-----------------------------------------------------------------------------
(* Type correctness.                                                       *)

\* Counting pods yields a number: Pod is finite.
LEMMA PodCounts ==
    /\ Cardinality(Updated) \in Nat
    /\ Cardinality(Ready) \in Nat
<1>1. Updated \subseteq Pod /\ Ready \subseteq Pod
  BY DEF Updated, Ready, Live
<1>2. IsFiniteSet(Updated) /\ IsFiniteSet(Ready)
  BY <1>1, FS_Subset
<1> QED
  BY <1>2, FS_CardinalityType

\* Writing a spec of the right type keeps the object and its readers typed.
LEMMA StoreSpecType ==
    ASSUME ClusterTypeOK, NEW s \in WorkloadSpec, StoreSpec(s)
    PROVE  obj' \in Object /\ fresh' \subseteq Client
BY DEF ClusterTypeOK, StoreSpec, Store, Object

\* The cluster's own steps preserve the types of its state.
LEMMA ClusterTypeStep ==
    ASSUME ClusterTypeOK, ClusterNext
    PROVE  ClusterTypeOK'
<1>1. CASE UserEdit
  <2>1. obj.spec \in WorkloadSpec
    BY DEF ClusterTypeOK, Object
  <2>2. PICK s \in WorkloadSpec : StoreSpec(s)
    BY <1>1, <2>1 DEF UserEdit, WorkloadSpec
  <2> QED
    BY <1>1, <2>2, StoreSpecType DEF UserEdit, ClusterTypeOK
<1>2. CASE CreatePod
  <2>1. [tmpl |-> TemplateOf(obj.spec), state |-> "starting"] \in PodRecord
    BY DEF ClusterTypeOK, Object, WorkloadSpec, TemplateOf, Template, PodRecord, PodStates
  <2> QED
    BY <1>2, <2>1 DEF CreatePod, ClusterTypeOK
<1>3. CASE DeletePod
  BY <1>3 DEF DeletePod, ClusterTypeOK
<1>4. CASE PublishStatus
  BY <1>4, PodCounts DEF PublishStatus, Store, ClusterTypeOK, Object
<1>5. CASE PodChanges
  <2>1. PICK p \in Live, s \in PodStates : pods' = [pods EXCEPT ![p].state = s]
    BY <1>5 DEF PodChanges
  <2>2. p \in Pod /\ pods[p] \in PodRecord
    BY DEF Live, ClusterTypeOK
  <2>3. [pods[p] EXCEPT !.state = s] \in PodRecord
    BY <2>2 DEF PodRecord
  <2> QED
    BY <1>5, <2>1, <2>2, <2>3 DEF PodChanges, ClusterTypeOK
<1>6. CASE BudgetChanges
  BY <1>6 DEF BudgetChanges, ClusterTypeOK
<1> QED
  BY <1>1, <1>2, <1>3, <1>4, <1>5, <1>6 DEF ClusterNext

\* What every step of worker w must preserve besides the cluster's types.
JobTypeOK ==
    /\ pc \in [Worker -> Steps]
    /\ rec \in [Worker -> Resources]
    /\ snap \in [Worker -> WorkloadSpec]
    /\ orig \in [Worker -> Resources]
    /\ undoing \in [Worker -> BOOLEAN]
    /\ seenDone \in [Worker -> BOOLEAN]
    /\ expired \in [Worker -> BOOLEAN]
    /\ tries \in [Worker -> 0 .. MaxTries - 1]
    /\ report \in [Worker -> Reports]
    /\ rollback \in [Worker -> Rollbacks]

\* The part of it that deciding a poll, or ending a job, sets.
OutcomeTypeOK ==
    /\ pc \in [Worker -> Steps]
    /\ undoing \in [Worker -> BOOLEAN]
    /\ tries \in [Worker -> 0 .. MaxTries - 1]
    /\ report \in [Worker -> Reports]
    /\ rollback \in [Worker -> Rollbacks]

\* However a poll ends, it stores well-typed outcomes.
LEMMA OutcomeType ==
    ASSUME OutcomeTypeOK, NEW w \in Worker,
           PollFailed(w) \/ PollSucceeded(w) \/ StartUndo(w)
    PROVE  OutcomeTypeOK'
<1> USE DEF OutcomeTypeOK, Goto, Finish, Steps, Polling, Undo, Reports, Rollbacks
<1>1. ASSUME StartUndo(w) PROVE OutcomeTypeOK'
  <2>1. 0 \in 0 .. MaxTries - 1
    OBVIOUS
  <2> QED
    BY <1>1, <2>1 DEF StartUndo
<1>2. CASE PollFailed(w)
  BY <1>1, <1>2 DEF PollFailed
<1>3. CASE PollSucceeded(w)
  BY <1>3 DEF PollSucceeded
<1> QED
  BY <1>1, <1>2, <1>3

\* An Update writes a well-typed object, or nothing.
LEMMA UpdateType ==
    ASSUME TypeOK, NEW w \in Worker, NEW r \in Resources, Update(w, r)
    PROVE  obj' \in Object /\ fresh' \subseteq Client
<1>1. CASE DryRun
  BY <1>1 DEF Update, TypeOK, ClusterTypeOK
<1>2. CASE ~ DryRun
  <2>1. [snap[w] EXCEPT !.res = r] \in WorkloadSpec
    BY DEF TypeOK, WorkloadSpec
  <2>2. StoreSpec([snap[w] EXCEPT !.res = r])
    BY <1>2 DEF Update
  <2> QED
    BY <2>1, <2>2, StoreSpecType DEF TypeOK
<1> QED
  BY <1>1, <1>2

\* A worker's step preserves the types of the cluster and of the job.
LEMMA JobTypeStep ==
    ASSUME TypeOK, NEW w \in Worker, Job(w)
    PROVE  ClusterTypeOK' /\ JobTypeOK'
<1> USE DEF Goto, Finish, Skip, StartPoll, UndoFailed, Fetch, Check, Steps,
            Precheck, Polling, Undo, Reports, Rollbacks,
            clusterVars, TypeOK, JobTypeOK, ClusterTypeOK
<1>1. CASE FindWorkload(w)
  BY <1>1 DEF FindWorkload, Object
<1>2. CASE IsWorkloadInPausedState(w)
  BY <1>2 DEF IsWorkloadInPausedState
<1>3. CASE IsPDBTooRestrictive(w)
  BY <1>3 DEF IsPDBTooRestrictive
<1>4. CASE GetStatus(w)
  BY <1>4 DEF GetStatus
<1>5. CASE CheckPodCriticalErrors(w)
  BY <1>5 DEF CheckPodCriticalErrors
<1>6. CASE NodeCheck(w)
  BY <1>6 DEF NodeCheck
<1>7. CASE ApplyResize(w)
  <2>1. obj' \in Object /\ fresh' \subseteq Client
    BY <1>7, UpdateType DEF ApplyResize, LostUpdate
  <2>2. snap[w].res \in Resources
    BY DEF WorkloadSpec
  <2> QED
    BY <1>7, <2>1, <2>2 DEF ApplyResize
<1>8. CASE PollStatus(w)
  <2>1. OutcomeTypeOK'
    BY <1>8, OutcomeType DEF PollStatus, OutcomeTypeOK
  <2>2. StatusComplete \in BOOLEAN
    BY DEF StatusComplete, Object
  <2>3. seenDone' \in [Worker -> BOOLEAN]
    BY <1>8, <2>2 DEF PollStatus
  <2> QED
    BY <1>8, <2>1, <2>3 DEF PollStatus, OutcomeTypeOK
<1>9. CASE PollPods(w)
  <2>1. OutcomeTypeOK'
    BY <1>9, OutcomeType DEF PollPods, OutcomeTypeOK
  <2> QED
    BY <1>9, <2>1 DEF PollPods, OutcomeTypeOK
<1>10. CASE PollTimeout(w)
  <2>1. OutcomeTypeOK'
    BY <1>10, OutcomeType DEF PollTimeout, OutcomeTypeOK
  <2> QED
    BY <1>10, <2>1 DEF PollTimeout, OutcomeTypeOK
<1>11. CASE Soak(w)
  <2>1. OutcomeTypeOK'
    BY <1>11, OutcomeType DEF Soak, OutcomeTypeOK
  <2> QED
    BY <1>11, <2>1 DEF Soak, OutcomeTypeOK
<1>12. CASE UndoFind(w)
  BY <1>12 DEF UndoFind, Object
<1>13. CASE UndoUpdate(w)
  <2>1. obj' \in Object /\ fresh' \subseteq Client
    BY <1>13, UpdateType DEF UndoUpdate, LostUpdate
  <2>2. tries' \in [Worker -> 0 .. MaxTries - 1]
    BY <1>13 DEF UndoUpdate, MayRetry
  <2> QED
    BY <1>13, <2>1, <2>2 DEF UndoUpdate
<1>14. CASE UndoVerify(w)
  BY <1>14 DEF UndoVerify
<1> QED
  BY <1>1, <1>2, <1>3, <1>4, <1>5, <1>6, <1>7, <1>8, <1>9, <1>10, <1>11,
     <1>12, <1>13, <1>14 DEF Job

\* Init satisfies the type invariant.
LEMMA TypeInit == Init => TypeOK
<1> SUFFICES ASSUME Init PROVE TypeOK
  OBVIOUS
<1>1. PICK t \in Template, P \in SUBSET Pod :
        /\ obj = [spec      |-> [res |-> t.res, img |-> t.img, paused |-> FALSE],
                  observed  |-> TRUE,
                  updated   |-> Replicas,
                  available |-> Replicas]
        /\ pods = [p \in Pod |-> IF p \in P
                                 THEN [tmpl |-> t, state |-> "ready"]
                                 ELSE NoPod]
  BY DEF Init, ClusterInit
<1>2. obj \in Object /\ obj.spec \in WorkloadSpec /\ obj.spec.res \in Resources
  BY <1>1 DEF Object, WorkloadSpec, Template
<1>3. [tmpl |-> t, state |-> "ready"] \in PodRecord
  BY DEF PodRecord, PodStates
<1>4. pods \in [Pod -> PodRecord \cup {NoPod}]
  BY <1>1, <1>3
<1>5. ClusterTypeOK
  BY <1>2, <1>4 DEF Init, ClusterInit, ClusterTypeOK
<1>6. MaxTries - 1 \in Nat /\ 0 \in 0 .. MaxTries - 1
  OBVIOUS
<1>7. rec \in [Worker -> Resources]
  BY <1>2 DEF Init
<1> QED
  BY <1>2, <1>5, <1>6, <1>7 DEF Init, TypeOK, Steps, Reports, Rollbacks

\* The history variable stays a function to the Booleans.
LEMMA HistoryType ==
    ASSUME good \in [Worker -> BOOLEAN], History
    PROVE  good' \in [Worker -> BOOLEAN]
<1>1. \A w \in Worker : (RolledOut' \/ (good[w] /\ ~ Wrote(w))) \in BOOLEAN
  OBVIOUS
<1> QED
  BY <1>1 DEF History

\* Every step preserves the type invariant.
LEMMA TypeStep ==
    ASSUME TypeOK, [Next]_vars
    PROVE  TypeOK'
<1>1. CASE UNCHANGED vars
  BY <1>1 DEF vars, clusterVars, jobVars, TypeOK, ClusterTypeOK
<1>2. CASE Next
  <2>1. good' \in [Worker -> BOOLEAN]
    BY <1>2, HistoryType DEF Next, TypeOK
  <2>2. CASE ClusterNext /\ UNCHANGED jobVars
    <3>1. ClusterTypeOK'
      BY <2>2, ClusterTypeStep DEF TypeOK
    <3> QED
      BY <2>1, <2>2, <3>1 DEF jobVars, TypeOK
  <2>3. ASSUME NEW w \in Worker, StartJob(w)
        PROVE  TypeOK'
    <3>1. rec' \in [Worker -> Resources]
      BY <2>3 DEF StartJob, TypeOK
    <3> QED
      BY <2>1, <2>3, <3>1
      DEF StartJob, TypeOK, ClusterTypeOK, clusterVars, Goto, Steps, Reports, Rollbacks
  <2>4. ASSUME NEW w \in Worker, Job(w)
        PROVE  TypeOK'
    BY <2>1, <2>4, JobTypeStep DEF TypeOK, JobTypeOK
  <2>5. ASSUME NEW w \in Worker, Expire(w)
        PROVE  TypeOK'
    BY <2>1, <2>5 DEF Expire, TypeOK, ClusterTypeOK, clusterVars
  <2>6. CASE Crash
    BY <2>1, <2>6
    DEF Crash, TypeOK, ClusterTypeOK, clusterVars, Steps, Reports, Rollbacks
  <2> QED
    BY <1>2, <2>2, <2>3, <2>4, <2>5, <2>6 DEF Next
<1> QED
  BY <1>1, <1>2

\* Every variable keeps its type, in every instance.
THEOREM TypeCorrect == Spec => []TypeOK
<1>1. Init => TypeOK
  BY TypeInit
<1>2. TypeOK /\ [Next]_vars => TypeOK'
  BY TypeStep
<1> QED
  BY <1>1, <1>2, PTL DEF Spec

-----------------------------------------------------------------------------
(* What the checks of ResizePrecheck established survives to the Update.   *)

\* The environment only changes the object by storing it.
LEMMA ClusterKeeps ==
    ASSUME ClusterNext
    PROVE  fresh' = {} \/ (obj' = obj /\ fresh' = fresh)
BY DEF ClusterNext, UserEdit, CreatePod, DeletePod, PublishStatus, PodChanges,
       BudgetChanges, StoreSpec, Store

\* A worker too; and only a Get makes it a current reader.
LEMMA JobKeeps ==
    ASSUME NEW w \in Worker, StartJob(w) \/ Job(w) \/ Expire(w)
    PROVE  fresh' = {} \/ (obj' = obj /\ fresh' \subseteq fresh \cup {w})
<1> USE DEF StoreSpec, Store, Fetch, Check, clusterVars
<1>1. CASE StartJob(w)
  BY <1>1 DEF StartJob
<1>2. CASE Expire(w)
  BY <1>2 DEF Expire
<1>3. CASE ApplyResize(w)
  BY <1>3 DEF ApplyResize, LostUpdate, Update
<1>4. CASE UndoUpdate(w)
  BY <1>4 DEF UndoUpdate, LostUpdate, Update
<1>5. CASE FindWorkload(w) \/ UndoFind(w)
  BY <1>5 DEF FindWorkload, UndoFind
<1>6. CASE \/ IsWorkloadInPausedState(w) \/ IsPDBTooRestrictive(w)
           \/ GetStatus(w) \/ CheckPodCriticalErrors(w) \/ NodeCheck(w)
  BY <1>6 DEF IsWorkloadInPausedState, IsPDBTooRestrictive, GetStatus,
              CheckPodCriticalErrors, NodeCheck
<1>7. CASE \/ PollStatus(w) \/ PollPods(w) \/ PollTimeout(w)
           \/ Soak(w) \/ UndoVerify(w)
  BY <1>7 DEF PollStatus, PollPods, PollTimeout, Soak, UndoVerify
<1> QED
  BY <1>1, <1>2, <1>3, <1>4, <1>5, <1>6, <1>7 DEF Job

\* No worker touches what another one holds.
LEMMA OthersHold ==
    ASSUME TypeOK, NEW w \in Worker, StartJob(w) \/ Job(w) \/ Expire(w),
           NEW v \in Worker \ {w}
    PROVE  /\ pc'[v] = pc[v] /\ snap'[v] = snap[v] /\ rec'[v] = rec[v]
           /\ seenDone'[v] = seenDone[v]
           /\ report'[v] = report[v] /\ rollback'[v] = rollback[v]
<1> USE DEF TypeOK, Goto, Finish, Skip, StartPoll, StartUndo, UndoFailed
<1>1. CASE StartJob(w) \/ Expire(w)
  BY <1>1 DEF StartJob, Expire
<1>2. CASE FindWorkload(w) \/ UndoFind(w)
  BY <1>2 DEF FindWorkload, UndoFind
<1>3. CASE \/ IsWorkloadInPausedState(w) \/ IsPDBTooRestrictive(w)
           \/ GetStatus(w) \/ CheckPodCriticalErrors(w) \/ NodeCheck(w)
  BY <1>3 DEF IsWorkloadInPausedState, IsPDBTooRestrictive, GetStatus,
              CheckPodCriticalErrors, NodeCheck, Check
<1>4. CASE ApplyResize(w) \/ UndoUpdate(w) \/ UndoVerify(w)
  BY <1>4 DEF ApplyResize, UndoUpdate, UndoVerify
<1>5. CASE PollStatus(w) \/ PollPods(w) \/ PollTimeout(w) \/ Soak(w)
  BY <1>5 DEF PollStatus, PollPods, PollTimeout, Soak, PollFailed, PollSucceeded
<1> QED
  BY <1>1, <1>2, <1>3, <1>4, <1>5 DEF Job

\* So a worker's knowledge survives every step that is not its own.
LEMMA CheckedKept ==
    ASSUME NEW v \in Worker, CheckedInv(v),
           pc'[v] = pc[v], snap'[v] = snap[v], rec'[v] = rec[v],
           fresh' = {} \/ (obj' = obj /\ (v \in fresh' => v \in fresh))
    PROVE  CheckedInv(v)'
BY DEF CheckedInv, Precheck, PastPaused, PastStatus

\* Its own step adds exactly the check it made.
LEMMA CheckedOwn ==
    ASSUME TypeOK, NEW w \in Worker, CheckedInv(w),
           StartJob(w) \/ Job(w) \/ Expire(w)
    PROVE  CheckedInv(w)'
<1> USE DEF TypeOK, CheckedInv, Precheck, PastPaused, PastStatus, Goto, Finish,
            Skip, clusterVars
<1>1. CASE StartJob(w)
  BY <1>1 DEF StartJob
<1>2. CASE Expire(w)
  BY <1>2 DEF Expire
<1>3. CASE FindWorkload(w)
  BY <1>3 DEF FindWorkload, Fetch
<1>4. CASE IsWorkloadInPausedState(w)
  BY <1>4 DEF IsWorkloadInPausedState, Check
<1>5. CASE IsPDBTooRestrictive(w)
  BY <1>5 DEF IsPDBTooRestrictive
<1>6. CASE GetStatus(w)
  BY <1>6 DEF GetStatus, Check
<1>7. CASE CheckPodCriticalErrors(w)
  BY <1>7 DEF CheckPodCriticalErrors
<1>8. CASE NodeCheck(w)
  BY <1>8 DEF NodeCheck, Check
<1>9. CASE ApplyResize(w)
  BY <1>9 DEF ApplyResize, StartPoll
<1>10. CASE PollStatus(w) \/ PollPods(w) \/ PollTimeout(w) \/ Soak(w)
  BY <1>10 DEF PollStatus, PollPods, PollTimeout, Soak, PollFailed,
               PollSucceeded, StartUndo
<1>11. CASE UndoFind(w)
  BY <1>11 DEF UndoFind, UndoFailed, Fetch
<1>12. CASE UndoUpdate(w)
  BY <1>12 DEF UndoUpdate, UndoFailed
<1>13. CASE UndoVerify(w)
  BY <1>13 DEF UndoVerify, StartPoll
<1> QED
  BY <1>1, <1>2, <1>3, <1>4, <1>5, <1>6, <1>7, <1>8, <1>9, <1>10, <1>11,
     <1>12, <1>13 DEF Job

\* SnapshotInv is inductive relative to the types.
LEMMA SnapshotStep ==
    ASSUME TypeOK, SnapshotInv, [Next]_vars
    PROVE  SnapshotInv'
<1> SUFFICES ASSUME NEW v \in Worker PROVE CheckedInv(v)'
  BY DEF SnapshotInv
<1>0. CheckedInv(v)
  BY DEF SnapshotInv
<1>1. CASE UNCHANGED vars
  BY <1>0, <1>1, CheckedKept DEF vars, clusterVars, jobVars
<1>2. CASE ClusterNext /\ UNCHANGED jobVars
  BY <1>0, <1>2, CheckedKept, ClusterKeeps DEF jobVars
<1>3. ASSUME NEW w \in Worker, StartJob(w) \/ Job(w) \/ Expire(w)
      PROVE  CheckedInv(v)'
  <2>1. CASE v = w
    BY <1>0, <1>3, <2>1, CheckedOwn
  <2>2. CASE v # w
    BY <1>0, <1>3, <2>2, CheckedKept, OthersHold, JobKeeps
  <2> QED
    BY <2>1, <2>2
<1>4. CASE Crash
  BY <1>4 DEF Crash, CheckedInv, Precheck, PastPaused, PastStatus
<1> QED
  BY <1>1, <1>2, <1>3, <1>4 DEF Next

\* While a worker's resourceVersion is current, everything it has checked of
\* the object is still true of it, and what it would write is its spec.
THEOREM Checked == Spec => []SnapshotInv
<1>1. Init => SnapshotInv
  BY DEF Init, ClusterInit, SnapshotInv, CheckedInv
<1>2. TypeOK /\ SnapshotInv /\ [Next]_vars => SnapshotInv'
  BY SnapshotStep
<1> QED
  BY <1>1, <1>2, TypeCorrect, PTL DEF Spec

-----------------------------------------------------------------------------
(* What the engine writes.                                                 *)

\* The whole of w's write: the spec it holds, with the resources res.
Writes(w, res) ==
    /\ w \in fresh /\ ~ DryRun
    /\ obj' = [obj EXCEPT !.spec = [snap[w] EXCEPT !.res = res], !.observed = FALSE]

\* Only ApplyResize and the rollback change the spec, and only by an Update
\* that the API server accepted.
LEMMA WriteIsUpdate ==
    ASSUME TypeOK, [Next]_vars, NEW w \in Worker, Wrote(w)
    PROVE  \/ pc[w] = "update" /\ Writes(w, rec[w]) /\ orig'[w] = snap[w].res
           \/ /\ pc[w] = "undoUpdate" /\ Writes(w, orig[w])
              /\ snap[w].res # orig[w]
<1>1. pc'[w] # pc[w] /\ <<obj, fresh>>' # <<obj, fresh>> /\ pc[w] \in {"update", "undoUpdate"}
  BY DEF Wrote
<1>2. ~ UNCHANGED vars /\ ~ UNCHANGED jobVars /\ ~ Crash
  BY <1>1 DEF vars, jobVars, clusterVars, Crash
<1>3. PICK v \in Worker : StartJob(v) \/ Job(v) \/ Expire(v)
  BY <1>2 DEF Next
<1>4. v = w
  BY <1>1, <1>3, OthersHold
<1>5. CASE pc[w] = "update"
  <2>1. ApplyResize(w)
    BY <1>3, <1>4, <1>5
    DEF StartJob, Expire, Polling, Job, FindWorkload, IsWorkloadInPausedState,
        IsPDBTooRestrictive, GetStatus, CheckPodCriticalErrors, NodeCheck, Check,
        PollStatus, PollPods, PollTimeout, Soak, UndoFind, UndoUpdate, UndoVerify
  <2> QED
    BY <1>1, <1>5, <2>1
    DEF ApplyResize, LostUpdate, Update, Accepted, StoreSpec, Store, Writes, TypeOK
<1>6. CASE pc[w] = "undoUpdate"
  <2>1. UndoUpdate(w)
    BY <1>3, <1>4, <1>6
    DEF StartJob, Expire, Polling, Job, FindWorkload, IsWorkloadInPausedState,
        IsPDBTooRestrictive, GetStatus, CheckPodCriticalErrors, NodeCheck, Check,
        PollStatus, PollPods, PollTimeout, Soak, UndoFind, ApplyResize, UndoVerify
  <2> QED
    BY <1>1, <1>6, <2>1
    DEF UndoUpdate, LostUpdate, Update, Changes, Accepted, StoreSpec, Store, Writes
<1> QED
  BY <1>1, <1>5, <1>6

\* The write keeps everything of the stored spec but the resources, and
\* changes those.
LEMMA WriteEffect ==
    ASSUME TypeOK, SnapshotInv, NEW w \in Worker, NEW res \in Resources,
           pc[w] \in {"update", "undoUpdate"}, Writes(w, res)
    PROVE  /\ snap[w] = obj.spec
           /\ obj'.spec = [obj.spec EXCEPT !.res = res]
           /\ obj'.spec.img = obj.spec.img
           /\ obj'.spec.paused = obj.spec.paused
           /\ obj'.spec.res = res
<1>1. snap[w] = obj.spec
  BY DEF SnapshotInv, CheckedInv, Writes
<1>2. obj \in Object /\ obj.spec \in WorkloadSpec
  BY DEF TypeOK, ClusterTypeOK, Object
<1>3. obj'.spec = [obj.spec EXCEPT !.res = res]
  BY <1>1, <1>2 DEF Writes, Object
<1> QED
  BY <1>1, <1>2, <1>3 DEF WorkloadSpec

\* The action of PatchOnlyChecked follows from the invariant.
LEMMA PatchStep == TypeOK /\ SnapshotInv /\ [Next]_vars => PatchIsChecked
<1> SUFFICES ASSUME TypeOK, SnapshotInv, [Next]_vars,
                    NEW w \in Worker, Wrote(w), pc[w] = "update"
             PROVE  /\ ~ obj.spec.paused
                    /\ obj.available >= Replicas /\ obj.updated >= Replicas
                    /\ orig'[w] = obj.spec.res
  BY DEF PatchIsChecked
<1>1. Writes(w, rec[w]) /\ orig'[w] = snap[w].res
  BY WriteIsUpdate
<1>2. CheckedInv(w) /\ w \in fresh
  BY <1>1 DEF SnapshotInv, Writes
<1> QED
  BY <1>1, <1>2 DEF CheckedInv, PastPaused, PastStatus

\* The engine never patches a workload it has not just checked, whatever
\* users, the controller, other workers or crashes interleave.
THEOREM PatchSafe == Spec => PatchOnlyChecked
<1>1. TypeOK /\ SnapshotInv /\ [Next]_vars => [PatchIsChecked]_vars
  BY PatchStep
<1> QED
  BY <1>1, TypeCorrect, Checked, PTL DEF Spec, PatchOnlyChecked

\* The engine never reverts what somebody else set in the spec.
THEOREM EditsSafe == Spec => EditsSurvive
<1>1. TypeOK /\ SnapshotInv /\ [Next]_vars => [KeepsEdits]_vars
  <2> SUFFICES ASSUME TypeOK, SnapshotInv, [Next]_vars, NEW w \in Worker, Wrote(w)
               PROVE  /\ obj'.spec.img = obj.spec.img
                      /\ obj'.spec.paused = obj.spec.paused
    BY DEF KeepsEdits
  <2>1. rec[w] \in Resources /\ orig[w] \in Resources
    BY DEF TypeOK
  <2> QED
    BY <2>1, WriteIsUpdate, WriteEffect
<1> QED
  BY <1>1, TypeCorrect, Checked, PTL DEF Spec, EditsSurvive

\* Every write changes the resources: no rollout is caused for nothing.
THEOREM NoNoop == Spec => NoNoopUpdate
<1>1. TypeOK /\ SnapshotInv /\ [Next]_vars => [ChangesResources]_vars
  <2> SUFFICES ASSUME TypeOK, SnapshotInv, [Next]_vars, NEW w \in Worker, Wrote(w)
               PROVE  obj'.spec.res # obj.spec.res
    BY DEF ChangesResources
  <2>1. rec[w] \in Resources /\ orig[w] \in Resources
    BY DEF TypeOK
  <2>2. CASE pc[w] = "update" /\ Writes(w, rec[w])
    <3>1. snap[w].res # rec[w]
      BY <2>2 DEF SnapshotInv, CheckedInv, Writes
    <3> QED
      BY <2>1, <2>2, <3>1, WriteEffect
  <2>3. CASE /\ pc[w] = "undoUpdate" /\ Writes(w, orig[w])
             /\ snap[w].res # orig[w]
    BY <2>1, <2>3, WriteEffect
  <2> QED
    BY <2>2, <2>3, WriteIsUpdate
<1> QED
  BY <1>1, TypeCorrect, Checked, PTL DEF Spec, NoNoopUpdate

-----------------------------------------------------------------------------
(* A worker that has the resources of its workload to itself implements    *)
(* the monitored transaction, for any resources, replicas, pods and edits  *)
(* of the rest of the spec.                                                *)

\* What the promise needs: one worker on the object, nobody else who sets
\* its resources, neither crashes nor lost answers, and no dry run.
SoleOwner ==
    /\ \A v, w \in Worker : v = w
    /\ "resources" \notin UserMay
    /\ Faults = {}
    /\ ~ DryRun

Checking == {"find", "update"} \cup Precheck

\* Relates the backup, the copy and the object phase by phase: until the
\* Update the copy has the object's resources, from an accepted rollback on
\* the backup has them, and a job reports when it ends and not before.
OwnedInv(w) ==
    /\ pc[w] # "idle" => report[w] = "none" /\ rollback[w] = "none"
    /\ pc[w] \in Checking \cup {"soak"} => ~ undoing[w]
    /\ pc[w] \in Undo => undoing[w]
    /\ pc[w] \in Precheck \cup {"update"} => snap[w].res = obj.spec.res
    /\ pc[w] = "undoVerify" \/ (pc[w] \in Polling /\ undoing[w]) =>
          obj.spec.res = orig[w]
    /\ report[w] = "Failed" /\ rollback[w] # "RollbackFailed" =>
          obj.spec.res = orig[w]

-----------------------------------------------------------------------------
(* One step of the worker is one step of the transaction, or none.         *)

\* A step that the transaction does not see.
LEMMA Unseen ==
    ASSUME NEW w \in Worker, Phase(w)' = Phase(w), obj'.spec.res = obj.spec.res,
           rec'[w] = rec[w], orig'[w] = orig[w],
           report'[w] = report[w], rollback'[w] = rollback[w]
    PROVE  UNCHANGED Transaction(w)!vars
BY DEF Transaction!vars, Verdict

\* Nobody else sets the resources.
LEMMA ClusterKeepsResources ==
    ASSUME SoleOwner, TypeOK, ClusterNext
    PROVE  obj'.spec.res = obj.spec.res
<1>1. obj \in Object /\ obj.spec \in WorkloadSpec
  BY DEF TypeOK, ClusterTypeOK, Object
<1>2. CASE UserEdit
  <2>1. ASSUME NEW i \in Images, StoreSpec([obj.spec EXCEPT !.img = i])
        PROVE  obj'.spec.res = obj.spec.res
    BY <1>1, <2>1 DEF StoreSpec, Store, Object, WorkloadSpec
  <2>2. ASSUME StoreSpec([obj.spec EXCEPT !.paused = ~ @])
        PROVE  obj'.spec.res = obj.spec.res
    <3>1. obj'.spec = [obj.spec EXCEPT !.paused = ~ @]
      BY <1>1, <2>2 DEF StoreSpec, Store, Object
    <3> QED
      BY <1>1, <3>1 DEF WorkloadSpec
  <2> QED
    BY <1>2, <2>1, <2>2 DEF SoleOwner, UserEdit
<1>3. CASE PublishStatus
  BY <1>1, <1>3 DEF PublishStatus, Store, Object
<1>4. CASE CreatePod \/ DeletePod \/ PodChanges \/ BudgetChanges
  BY <1>4 DEF CreatePod, DeletePod, PodChanges, BudgetChanges
<1> QED
  BY <1>2, <1>3, <1>4 DEF ClusterNext

\* The environment does not take part.
LEMMA ClusterOwned ==
    ASSUME SoleOwner, TypeOK, ClusterNext, UNCHANGED jobVars, NEW w \in Worker,
           OwnedInv(w)
    PROVE  OwnedInv(w)' /\ UNCHANGED Transaction(w)!vars
<1>1. obj'.spec.res = obj.spec.res
  BY ClusterKeepsResources
<1>2. UNCHANGED <<pc, rec, snap, orig, undoing, report, rollback>>
  BY DEF jobVars
<1>3. OwnedInv(w)'
  BY <1>1, <1>2 DEF OwnedInv
<1>4. Phase(w)' = Phase(w)
  BY <1>2 DEF Phase
<1> QED
  BY <1>1, <1>2, <1>3, <1>4, Unseen

\* A job begins, or is rejected for an unsupported kind.
LEMMA StartOwned ==
    ASSUME SoleOwner, TypeOK, NEW w \in Worker, OwnedInv(w), StartJob(w)
    PROVE  OwnedInv(w)' /\ Transaction(w)!Next
<1> USE DEF StartJob, Goto, TypeOK, clusterVars
<1>1. OwnedInv(w)'
  BY DEF OwnedInv, Checking, Precheck, Polling, Undo
<1>2. CASE pc'[w] = "find"
  <2>1. Transaction(w)!Begin
    BY <1>2 DEF Transaction!Begin, Transaction!Move, Phase, Verdict
  <2> QED
    BY <1>1, <2>1 DEF Transaction!Next
<1>3. CASE pc'[w] # "find"
  <2>1. Transaction(w)!Reject
    BY <1>3 DEF Transaction!Reject, Transaction!Move, Phase, Verdict
  <2> QED
    BY <1>1, <2>1 DEF Transaction!Next
<1> QED
  BY <1>2, <1>3

\* Whatever the checks do, the transaction is still checking or declined.
LEMMA CheckOwned ==
    ASSUME SoleOwner, TypeOK, NEW w \in Worker, OwnedInv(w),
           pc[w] \in Checking, UNCHANGED <<obj, rec, orig, undoing>>,
           \/ /\ pc'[w] \in Precheck \cup {"update"}
              /\ snap'[w].res = obj.spec.res
              /\ UNCHANGED <<report, rollback>>
           \/ Skip(w)
    PROVE  OwnedInv(w)' /\ [Transaction(w)!Next]_(Transaction(w)!vars)
<1> USE DEF Checking, Precheck, Polling, Undo
<1>1. CASE Skip(w)
  <2>1. pc'[w] = "idle" /\ report'[w] = "Skipped" /\ rollback'[w] = "none"
    BY <1>1 DEF Skip, Finish, Goto, TypeOK
  <2>2. OwnedInv(w)'
    BY <2>1 DEF OwnedInv
  <2>3. Transaction(w)!Decline
    BY <2>1 DEF Transaction!Decline, Transaction!Move, Phase, Verdict
  <2> QED
    BY <2>2, <2>3 DEF Transaction!Next
<1>2. CASE /\ pc'[w] \in Precheck \cup {"update"}
           /\ snap'[w].res = obj.spec.res
           /\ UNCHANGED <<report, rollback>>
  <2>1. OwnedInv(w)'
    BY <1>2 DEF OwnedInv
  <2>2. Phase(w)' = Phase(w)
    BY <1>2 DEF Phase
  <2> QED
    BY <1>2, <2>1, <2>2, Unseen
<1> QED
  BY <1>1, <1>2

\* ApplyResize applies the update, or it is refused and nothing changed.
LEMMA ApplyOwned ==
    ASSUME SoleOwner, TypeOK, NEW w \in Worker, OwnedInv(w), ApplyResize(w)
    PROVE  OwnedInv(w)' /\ Transaction(w)!Next
<1>1. /\ snap[w].res = obj.spec.res /\ orig'[w] = obj.spec.res
      /\ ~ undoing[w] /\ undoing' = undoing /\ rec' = rec
      /\ pc[w] = "update" /\ report[w] = "none" /\ rollback[w] = "none"
  BY DEF ApplyResize, OwnedInv, Checking, TypeOK
<1>2. CASE /\ Changes(w, rec[w]) /\ Update(w, rec[w]) /\ StartPoll(w)
           /\ UNCHANGED <<report, rollback>>
  <2>1. pc'[w] = "poll"
    BY <1>2 DEF StartPoll, Goto, TypeOK
  <2>2. obj'.spec.res = rec[w]
    <3>1. obj' = [obj EXCEPT !.spec = [snap[w] EXCEPT !.res = rec[w]],
                             !.observed = FALSE]
      BY <1>2 DEF SoleOwner, Update, StoreSpec, Store
    <3> QED
      BY <3>1 DEF TypeOK, ClusterTypeOK, Object, WorkloadSpec
  <2>3. OwnedInv(w)'
    BY <1>1, <1>2, <2>1 DEF OwnedInv, Checking, Precheck, Polling, Undo
  <2>4. Transaction(w)!Apply
    BY <1>1, <1>2, <2>1, <2>2
    DEF Transaction!Apply, Transaction!Move, Phase, Verdict, Changes, Precheck,
        Polling
  <2> QED
    BY <2>3, <2>4 DEF Transaction!Next
<1>3. CASE Finish(w, "Failed", "none") /\ UNCHANGED <<obj, fresh, expired>>
  <2>1. pc'[w] = "idle" /\ report'[w] = "Failed" /\ rollback'[w] = "none"
    BY <1>3 DEF Finish, Goto, TypeOK
  <2>2. OwnedInv(w)'
    BY <1>1, <1>3, <2>1 DEF OwnedInv, Checking, Precheck, Polling, Undo
  <2>3. Transaction(w)!Refuse
    BY <1>1, <1>3, <2>1 DEF Transaction!Refuse, Transaction!Move, Phase, Verdict
  <2> QED
    BY <2>2, <2>3 DEF Transaction!Next
<1> QED
  BY <1>2, <1>3 DEF ApplyResize, LostUpdate, SoleOwner

-----------------------------------------------------------------------------
(* Monitoring.                                                             *)

\* Polls and the soak change nothing, commit, abort, or close the recovery.
LEMMA MonitorOwned ==
    ASSUME SoleOwner, TypeOK, NEW w \in Worker, OwnedInv(w),
           pc[w] \in Polling, UNCHANGED <<obj, rec, snap, orig>>,
           \/ /\ pc'[w] \in Polling /\ (pc'[w] = "soak" => ~ undoing[w])
              /\ UNCHANGED <<undoing, report, rollback>>
           \/ ~ undoing[w] /\ StartUndo(w)
           \/ ~ undoing[w] /\ Finish(w, "Succeeded", "none") /\ undoing' = undoing
           \/ /\ undoing[w]
              /\ \E undone \in Rollbacks : Finish(w, "Failed", undone)
              /\ undoing' = undoing
    PROVE  OwnedInv(w)' /\ [Transaction(w)!Next]_(Transaction(w)!vars)
<1> USE DEF Checking, Precheck, Polling, Undo
<1>1. CASE /\ pc'[w] \in Polling /\ (pc'[w] = "soak" => ~ undoing[w])
           /\ UNCHANGED <<undoing, report, rollback>>
  <2>1. OwnedInv(w)'
    BY <1>1 DEF OwnedInv
  <2>2. Phase(w)' = Phase(w)
    BY <1>1 DEF Phase
  <2> QED
    BY <1>1, <2>1, <2>2, Unseen
<1>2. CASE ~ undoing[w] /\ StartUndo(w)
  <2>1. pc'[w] = "undoFind" /\ undoing'[w] /\ UNCHANGED <<report, rollback>>
    BY <1>2 DEF StartUndo, Goto, TypeOK
  <2>2. OwnedInv(w)'
    BY <2>1 DEF OwnedInv
  <2>3. Transaction(w)!Abort
    BY <1>2, <2>1 DEF Transaction!Abort, Transaction!Move, Phase, Verdict
  <2> QED
    BY <2>2, <2>3 DEF Transaction!Next
<1>3. CASE ~ undoing[w] /\ Finish(w, "Succeeded", "none") /\ undoing' = undoing
  <2>1. pc'[w] = "idle" /\ report'[w] = "Succeeded" /\ rollback'[w] = "none"
    BY <1>3 DEF Finish, Goto, TypeOK
  <2>2. OwnedInv(w)'
    BY <2>1 DEF OwnedInv
  <2>3. Transaction(w)!Commit
    BY <1>3, <2>1 DEF Transaction!Commit, Transaction!Move, Phase, Verdict
  <2> QED
    BY <2>2, <2>3 DEF Transaction!Next
<1>4. ASSUME undoing[w], undoing' = undoing,
             NEW undone \in Rollbacks, Finish(w, "Failed", undone)
      PROVE  OwnedInv(w)' /\ Transaction(w)!Next
  <2>1. pc'[w] = "idle" /\ report'[w] = "Failed" /\ obj.spec.res = orig[w]
    BY <1>4 DEF Finish, Goto, TypeOK, OwnedInv
  <2>2. OwnedInv(w)'
    BY <2>1 DEF OwnedInv
  <2>3. Transaction(w)!Close
    BY <1>4, <2>1 DEF Transaction!Close, Transaction!Move, Phase, Verdict
  <2> QED
    BY <2>2, <2>3 DEF Transaction!Next
<1> QED
  BY <1>1, <1>2, <1>3, <1>4

\* Each action of the polls is one of those.
LEMMA PollOwned ==
    ASSUME SoleOwner, TypeOK, NEW w \in Worker, OwnedInv(w),
           \/ PollStatus(w) \/ PollPods(w) \/ PollTimeout(w)
           \/ Soak(w) \/ Expire(w)
    PROVE  OwnedInv(w)' /\ [Transaction(w)!Next]_(Transaction(w)!vars)
<1> USE DEF clusterVars, Polling
<1>1. undoing[w] \in BOOLEAN /\ w \in DOMAIN pc
  BY DEF TypeOK
<1>2. CASE PollStatus(w)
  BY <1>1, <1>2, MonitorOwned DEF PollStatus, PollFailed, Goto, Rollbacks
<1>3. CASE PollPods(w)
  BY <1>1, <1>3, MonitorOwned
  DEF PollPods, PollFailed, PollSucceeded, Goto, Rollbacks
<1>4. CASE PollTimeout(w)
  BY <1>1, <1>4, MonitorOwned DEF PollTimeout, PollFailed, Rollbacks
<1>5. CASE Soak(w)
  BY <1>1, <1>5, MonitorOwned DEF Soak, OwnedInv
<1>6. CASE Expire(w)
  BY <1>1, <1>6, MonitorOwned DEF Expire, OwnedInv
<1> QED
  BY <1>2, <1>3, <1>4, <1>5, <1>6

-----------------------------------------------------------------------------
(* Recovering.                                                             *)

\* A rollback that fails closes the transaction with its outcome open.
LEMMA StuckOwned ==
    ASSUME SoleOwner, TypeOK, NEW w \in Worker, OwnedInv(w), pc[w] \in Undo,
           UndoFailed(w), UNCHANGED <<obj, rec, orig, undoing>>
    PROVE  OwnedInv(w)' /\ Transaction(w)!Next
<1> USE DEF Checking, Precheck, Polling, Undo
<1>1. pc'[w] = "idle" /\ report'[w] = "Failed" /\ rollback'[w] = "RollbackFailed"
  BY DEF UndoFailed, Finish, Goto, TypeOK
<1>2. OwnedInv(w)'
  BY <1>1 DEF OwnedInv
<1>3. Transaction(w)!Close
  BY <1>1 DEF Transaction!Close, Transaction!Move, Phase, Verdict
<1> QED
  BY <1>2, <1>3 DEF Transaction!Next

\* A step within the recovery that leaves the object alone.
LEMMA RecoverOwned ==
    ASSUME SoleOwner, TypeOK, NEW w \in Worker, OwnedInv(w), pc[w] \in Undo,
           UNCHANGED <<obj, rec, orig, undoing, report, rollback>>,
           \/ pc'[w] \in {"undoFind", "undoUpdate"}
           \/ pc[w] = "undoVerify" /\ pc'[w] = "poll"
    PROVE  OwnedInv(w)' /\ UNCHANGED Transaction(w)!vars
<1> USE DEF Checking, Precheck, Polling, Undo
<1>1. OwnedInv(w)'
  BY DEF OwnedInv
<1>2. Phase(w)' = Phase(w)
  BY DEF Phase, OwnedInv
<1> QED
  BY <1>1, <1>2, Unseen

\* The accepted rollback restores the backup, a rollback that cannot be
\* verified closes the transaction with the backup in place.
LEMMA UndoOwned ==
    ASSUME SoleOwner, TypeOK, SnapshotInv, NEW w \in Worker, OwnedInv(w),
           UndoFind(w) \/ UndoUpdate(w) \/ UndoVerify(w)
    PROVE  OwnedInv(w)' /\ [Transaction(w)!Next]_(Transaction(w)!vars)
<1> USE DEF Undo
<1>0. w \in DOMAIN pc
  BY DEF TypeOK
<1>1. CASE UndoFind(w)
  BY <1>0, <1>1, StuckOwned, RecoverOwned DEF UndoFind, Goto
<1>2. CASE UndoUpdate(w)
  <2>1. UNCHANGED <<rec, snap, orig, undoing>> /\ pc[w] = "undoUpdate"
    BY <1>2 DEF UndoUpdate
  <2>2. CASE /\ Changes(w, orig[w]) /\ Update(w, orig[w]) /\ Goto(w, "undoVerify")
             /\ UNCHANGED <<report, rollback>>
    <3>1. pc'[w] = "undoVerify" /\ undoing[w]
      BY <1>0, <2>1, <2>2 DEF Goto, OwnedInv
    <3>2. w \in fresh /\ obj' = [obj EXCEPT !.spec = [snap[w] EXCEPT !.res = orig[w]],
                                            !.observed = FALSE]
      BY <2>2 DEF SoleOwner, Update, Accepted, StoreSpec, Store
    <3>3. obj'.spec.res = orig[w]
      BY <3>2 DEF TypeOK, ClusterTypeOK, Object, WorkloadSpec
    <3>4. obj.spec.res # orig[w]
      BY <2>1, <2>2, <3>2 DEF SnapshotInv, CheckedInv, Changes
    <3>5. OwnedInv(w)'
      BY <2>1, <2>2, <3>1, <3>3 DEF OwnedInv, Checking, Precheck, Polling
    <3>6. Transaction(w)!Restore
      BY <2>1, <2>2, <3>1, <3>3, <3>4
      DEF Transaction!Restore, Transaction!Move, Phase, Verdict, Precheck, Polling
    <3> QED
      BY <3>5, <3>6 DEF Transaction!Next
  <2>3. CASE UndoFailed(w) /\ UNCHANGED <<obj, fresh>>
    BY <2>1, <2>3, StuckOwned
  <2>4. CASE Goto(w, "undoFind") /\ UNCHANGED <<obj, fresh, report, rollback>>
    BY <1>0, <2>1, <2>4, RecoverOwned DEF Goto
  <2> QED
    BY <1>2, <2>2, <2>3, <2>4 DEF UndoUpdate, LostUpdate, SoleOwner
<1>3. CASE UndoVerify(w)
  <2>1. UNCHANGED <<obj, rec, snap, orig, undoing>> /\ pc[w] = "undoVerify"
    BY <1>3 DEF UndoVerify, clusterVars
  <2>2. CASE StartPoll(w) /\ UNCHANGED <<report, rollback>>
    BY <1>0, <2>1, <2>2, RecoverOwned DEF StartPoll, Goto
  <2>3. CASE Finish(w, "Failed", "none")
    <3>1. pc'[w] = "idle" /\ report'[w] = "Failed" /\ rollback'[w] = "none"
      BY <2>3 DEF Finish, Goto, TypeOK
    <3>2. OwnedInv(w)'
      BY <2>1, <3>1 DEF OwnedInv, Checking, Precheck, Polling
    <3>3. Transaction(w)!Close
      BY <2>1, <3>1
      DEF OwnedInv, Transaction!Close, Transaction!Move, Phase, Verdict, Precheck, Polling
    <3> QED
      BY <3>2, <3>3 DEF Transaction!Next
  <2> QED
    BY <1>3, <2>2, <2>3 DEF UndoVerify
<1> QED
  BY <1>1, <1>2, <1>3

-----------------------------------------------------------------------------
(* The theorems.                                                           *)

\* Every step of the job, seen from its transaction.
LEMMA JobOwned ==
    ASSUME SoleOwner, TypeOK, SnapshotInv, NEW w \in Worker, OwnedInv(w), Job(w)
    PROVE  OwnedInv(w)' /\ [Transaction(w)!Next]_(Transaction(w)!vars)
<1> USE DEF Checking, Precheck, clusterVars
<1>0. w \in DOMAIN pc /\ w \in DOMAIN snap
  BY DEF TypeOK
<1>1. CASE FindWorkload(w)
  BY <1>0, <1>1, CheckOwned DEF FindWorkload, Goto
<1>2. CASE \/ IsWorkloadInPausedState(w) \/ IsPDBTooRestrictive(w)
           \/ GetStatus(w) \/ CheckPodCriticalErrors(w) \/ NodeCheck(w)
  <2>1. pc[w] \in Precheck /\ UNCHANGED <<obj, rec, snap, orig, undoing>>
    BY <1>2 DEF IsWorkloadInPausedState, IsPDBTooRestrictive, GetStatus,
                CheckPodCriticalErrors, NodeCheck, Check
  <2>2. \/ pc'[w] \in Precheck \cup {"update"} /\ UNCHANGED <<report, rollback>>
        \/ Skip(w)
    BY <1>0, <1>2 DEF IsWorkloadInPausedState, IsPDBTooRestrictive, GetStatus,
                      CheckPodCriticalErrors, NodeCheck, Check, Goto
  <2>3. snap'[w].res = obj.spec.res
    BY <2>1 DEF OwnedInv
  <2> QED
    BY <2>1, <2>2, <2>3, CheckOwned
<1>3. CASE ApplyResize(w)
  BY <1>3, ApplyOwned
<1>4. CASE PollStatus(w) \/ PollPods(w) \/ PollTimeout(w) \/ Soak(w)
  BY <1>4, PollOwned
<1>5. CASE UndoFind(w) \/ UndoUpdate(w) \/ UndoVerify(w)
  BY <1>5, UndoOwned
<1> QED
  BY <1>1, <1>2, <1>3, <1>4, <1>5 DEF Job

\* Every step of the system, seen from every worker's transaction.
LEMMA OwnedStep ==
    ASSUME SoleOwner, TypeOK, SnapshotInv, [Next]_vars, NEW w \in Worker, OwnedInv(w)
    PROVE  OwnedInv(w)' /\ [Transaction(w)!Next]_(Transaction(w)!vars)
<1>1. CASE UNCHANGED vars
  <2>1. UNCHANGED <<obj, pc, rec, snap, orig, undoing, report, rollback>>
    BY <1>1 DEF vars, clusterVars, jobVars
  <2>2. OwnedInv(w)'
    BY <2>1 DEF OwnedInv
  <2>3. Phase(w)' = Phase(w)
    BY <2>1 DEF Phase
  <2> QED
    BY <2>1, <2>2, <2>3, Unseen
<1>2. CASE ClusterNext /\ UNCHANGED jobVars
  BY <1>2, ClusterOwned
<1>3. ASSUME NEW v \in Worker, StartJob(v) \/ Job(v) \/ Expire(v)
      PROVE  OwnedInv(w)' /\ [Transaction(w)!Next]_(Transaction(w)!vars)
  <2>1. v = w
    BY DEF SoleOwner
  <2> QED
    BY <1>3, <2>1, StartOwned, JobOwned, PollOwned
<1>4. ~ Crash
  BY DEF Crash, SoleOwner
<1> QED
  BY <1>1, <1>2, <1>3, <1>4 DEF Next

Owned == \A w \in Worker : OwnedInv(w)

\* The invariant that relates the phases to the object.
LEMMA OwnedCorrect == ASSUME SoleOwner PROVE Spec => []Owned
<1>1. Init => Owned
  BY DEF Init, Owned, OwnedInv, Checking, Precheck, Polling, Undo
<1>2. TypeOK /\ SnapshotInv /\ Owned /\ [Next]_vars => Owned'
  BY OwnedStep DEF Owned
<1> QED
  BY <1>1, <1>2, TypeCorrect, Checked, PTL DEF Spec

\* A job that reports Failed, without a failed rollback, has left the
\* resources as they were before it.
THEOREM FailureUndone == ASSUME SoleOwner PROVE Spec => []FailureIsUndone
<1>1. Owned => FailureIsUndone
  BY DEF Owned, OwnedInv, FailureIsUndone
<1> QED
  BY <1>1, OwnedCorrect, PTL

\* The job implements the monitored transaction: what is patched is watched
\* until it is committed, or the backup is back, or the rollback has failed.
THEOREM Implements == ASSUME SoleOwner PROVE Spec => MonitoredTransaction
<1>1. Init => \A w \in Worker : Transaction(w)!Init
  <2> SUFFICES ASSUME Init, NEW w \in Worker PROVE Transaction(w)!Init
    OBVIOUS
  <2>1. obj.spec.res \in Resources
    BY DEF Init, ClusterInit, Template
  <2> QED
    BY <2>1 DEF Init, Transaction!Init, Phase, Verdict
<1>2. TypeOK /\ SnapshotInv /\ Owned /\ [Next]_vars
      => [\A w \in Worker : [Transaction(w)!Next]_(Transaction(w)!vars)]_vars
  BY OwnedStep DEF Owned
<1> QED
  BY <1>1, <1>2, TypeCorrect, Checked, OwnedCorrect, PTL
  DEF Spec, MonitoredTransaction

-----------------------------------------------------------------------------
(* What a reported success means when a rollout makes no extra pod:        *)
(* for any number of workers, users who edit anything, crashes and lost    *)
(* answers.                                                                *)

\* No rollout makes a pod beyond the replicas: a StatefulSet's, one with
\* maxSurge 0, or one that waits until the old pods are gone.
NoExtraPods == Surge = 0 \/ "RollingUpdate" \notin Strategies

\* So there are never more pods than replicas.
NoSurplus == Cardinality(Live) <= Replicas

\* What a complete status tells, of a rollout since each worker's last write.
StatusTells ==
    StatusComplete => \A w \in Worker : good[w]

\* How that travels from a poll to the report.
SuccessInv(w) ==
    /\ pc[w] # "idle" => report[w] = "none" /\ rollback[w] = "none"
    /\ pc[w] = "pollPods" /\ seenDone[w] => good[w]
    /\ pc[w] = "soak" => good[w]
    /\ report[w] = "Succeeded" \/ rollback[w] = "RollbackSucceeded" => good[w]

-----------------------------------------------------------------------------
(* The pods.                                                               *)

\* Pod is finite, so pods can be counted.
LEMMA LiveFinite == IsFiniteSet(Live) /\ Cardinality(Live) \in Nat
<1>1. Live \subseteq Pod
  BY DEF Live
<1>2. IsFiniteSet(Live)
  BY <1>1, FS_Subset
<1> QED
  BY <1>2, FS_CardinalityType

\* A workload at rest has one pod per replica.
LEMMA NoSurplusInit == Init => NoSurplus
<1> SUFFICES ASSUME Init PROVE NoSurplus
  OBVIOUS
<1>1. PICK t \in Template, P \in {Q \in SUBSET Pod : Cardinality(Q) = Replicas} :
         pods = [p \in Pod |-> IF p \in P THEN [tmpl |-> t, state |-> "ready"]
                               ELSE NoPod]
  BY DEF Init, ClusterInit
<1>2. Live \subseteq P
  BY <1>1 DEF Live
<1>3. IsFiniteSet(P)
  BY FS_Subset
<1>4. Cardinality(Live) <= Cardinality(P)
  BY <1>2, <1>3, FS_Subset
<1> QED
  BY <1>4 DEF NoSurplus

\* Only the controller and the kubelet touch pods.
LEMMA PodsMove ==
    ASSUME TypeOK, [Next]_vars
    PROVE  pods' = pods \/ CreatePod \/ DeletePod \/ PodChanges
<1>1. ASSUME NEW w \in Worker, StartJob(w) \/ Job(w) \/ Expire(w)
      PROVE  pods' = pods
  BY <1>1
  DEF StartJob, Expire, Job, FindWorkload, IsWorkloadInPausedState,
      IsPDBTooRestrictive, GetStatus, CheckPodCriticalErrors, NodeCheck, Check,
      ApplyResize, PollStatus, PollPods, PollTimeout, Soak, UndoFind,
      UndoUpdate, UndoVerify, clusterVars
<1> QED
  BY <1>1 DEF Next, ClusterNext, UserEdit, PublishStatus, BudgetChanges, Crash,
              vars, clusterVars

\* Only CreatePod adds a pod, and only while one is missing.
LEMMA NoSurplusStep ==
    ASSUME NoExtraPods, TypeOK, NoSurplus, [Next]_vars
    PROVE  NoSurplus'
<1>1. CASE pods' = pods
  BY <1>1 DEF NoSurplus, Live
<1>2. CASE CreatePod
  <2>1. PICK p \in Pod \ Live :
           pods' = [pods EXCEPT ![p] = [tmpl  |-> TemplateOf(obj.spec),
                                        state |-> "starting"]]
    BY <1>2 DEF CreatePod
  <2>2. Live' \subseteq Live \cup {p}
    BY <2>1 DEF Live, TypeOK, ClusterTypeOK
  <2>3. /\ IsFiniteSet(Live \cup {p})
        /\ Cardinality(Live \cup {p}) = Cardinality(Live) + 1
    BY <2>1, LiveFinite, FS_AddElement
  <2>4. Cardinality(Live') <= Cardinality(Live) + 1
    BY <2>2, <2>3, FS_Subset
  <2>5. Cardinality(Live) < Replicas
    <3>1. CASE Surge = 0
      BY <1>2, <3>1, LiveFinite DEF CreatePod
    <3>2. CASE strategy = "Recreate"
      BY <1>2, <3>2 DEF CreatePod
    <3>3. CASE strategy = "OnDelete"
      BY <1>2, <3>3 DEF CreatePod, Rolling
    <3> QED BY <3>1, <3>2, <3>3 DEF NoExtraPods, TypeOK, ClusterTypeOK
  <2>6. IsFiniteSet(Live') /\ Cardinality(Live') \in Nat
    BY <2>2, <2>3, FS_Subset, FS_CardinalityType
  <2> QED
    BY <2>4, <2>5, <2>6, LiveFinite DEF NoSurplus
<1>3. CASE DeletePod \/ PodChanges
  <2>1. Live' \subseteq Live
    BY <1>3 DEF DeletePod, PodChanges, Live, TypeOK, ClusterTypeOK
  <2>2. Cardinality(Live') <= Cardinality(Live)
    BY <2>1, LiveFinite, FS_Subset
  <2>3. Cardinality(Live') \in Nat
    BY <2>1, LiveFinite, FS_Subset, FS_CardinalityType
  <2> QED
    BY <2>2, <2>3, LiveFinite DEF NoSurplus
<1> QED
  BY <1>1, <1>2, <1>3, PodsMove

\* All pods of a workload without surplus that are counted twice, as updated
\* and as ready, are both.
LEMMA CountsTell ==
    ASSUME NoSurplus, Cardinality(Updated) = Replicas, Cardinality(Ready) = Replicas
    PROVE  RolledOut
<1>1. Updated \subseteq Live /\ Ready \subseteq Live
  BY DEF Updated, Ready
<1>2. Cardinality(Updated) <= Cardinality(Live)
  BY <1>1, LiveFinite, FS_Subset
<1>3. Cardinality(Live) = Replicas
  BY <1>2, LiveFinite DEF NoSurplus
<1>4. Updated = Live /\ Ready = Live
  BY <1>1, <1>3, LiveFinite, FS_Subset
<1>5. Updated \cap Ready = Live
  BY <1>4
<1>6. Cardinality(Updated \cap Ready) = Replicas
  BY <1>3, <1>5, Zenon
<1>7. Replicas >= Replicas
  OBVIOUS
<1> QED
  BY <1>6, <1>7, Zenon DEF RolledOut

-----------------------------------------------------------------------------
(* The status.                                                             *)

\* The history variable forgets a rollout only at the worker's own write.
LEMMA GoodKept ==
    ASSUME TypeOK, [Next]_vars, NEW w \in Worker, good[w]
    PROVE  good'[w] \/ Wrote(w)
<1>1. CASE UNCHANGED vars
  BY <1>1 DEF vars
<1>2. CASE Next
  BY <1>2 DEF Next, History
<1> QED
  BY <1>1, <1>2

\* Any write of a spec makes the status one of the generation before.
LEMMA StatusKept ==
    ASSUME TypeOK, [Next]_vars
    PROVE  \/ obj' = obj
           \/ ~ obj'.observed
           \/ PublishStatus
<1>1. obj \in Object
  BY DEF TypeOK, ClusterTypeOK
<1>2. ASSUME NEW s, StoreSpec(s) PROVE ~ obj'.observed
  BY <1>1, <1>2 DEF StoreSpec, Store, Object
<1>3. CASE ClusterNext
  BY <1>2, <1>3 DEF ClusterNext, UserEdit, CreatePod, DeletePod, PodChanges, BudgetChanges
<1>4. ASSUME NEW w \in Worker, StartJob(w) \/ Job(w) \/ Expire(w)
      PROVE  obj' = obj \/ ~ obj'.observed
  <2>1. CASE ApplyResize(w)
    BY <1>2, <2>1 DEF ApplyResize, LostUpdate, Update
  <2>2. CASE UndoUpdate(w)
    BY <1>2, <2>2 DEF UndoUpdate, LostUpdate, Update
  <2> QED
    BY <1>4, <2>1, <2>2
    DEF StartJob, Expire, Job, FindWorkload, IsWorkloadInPausedState,
        IsPDBTooRestrictive, GetStatus, CheckPodCriticalErrors, NodeCheck, Check,
        PollStatus, PollPods, PollTimeout, Soak, UndoFind, UndoVerify, clusterVars
<1> QED
  BY <1>3, <1>4 DEF Next, Crash, vars, clusterVars

\* The status that PublishStatus writes is complete only after a rollout, and
\* no write of a spec leaves it observed.
LEMMA StatusStep ==
    ASSUME TypeOK, NoSurplus, StatusTells, [Next]_vars
    PROVE  StatusTells'
<1> SUFFICES ASSUME StatusComplete', NEW w \in Worker
             PROVE  good'[w]
  BY DEF StatusTells
<1>1. CASE obj' = obj
  <2>1. StatusComplete
    BY <1>1 DEF StatusComplete
  <2>2. ~ Wrote(w)
    <3>1. ASSUME NEW res, Writes(w, res) PROVE ~ obj'.observed
      BY <3>1 DEF Writes, TypeOK, ClusterTypeOK, Object
    <3> QED
      BY <3>1, WriteIsUpdate DEF StatusComplete
  <2> QED
    BY <2>1, <2>2, GoodKept DEF StatusTells
<1>2. CASE obj' # obj /\ PublishStatus
  <2>1. obj' = [obj EXCEPT !.observed  = TRUE,
                           !.updated   = Cardinality(Updated),
                           !.available = Cardinality(Ready)]
    BY <1>2 DEF PublishStatus, Store
  <2>2. /\ obj'.updated = Cardinality(Updated)
        /\ obj'.available = Cardinality(Ready)
        /\ obj'.spec = obj.spec
    BY <2>1 DEF TypeOK, ClusterTypeOK, Object
  <2>3. RolledOut
    BY <2>2, CountsTell DEF StatusComplete
  <2>4. pods' = pods
    BY <1>2 DEF PublishStatus
  <2>5. RolledOut'
    BY <2>2, <2>3, <2>4 DEF RolledOut, Updated, Ready, Live
  <2>6. History
    BY <1>2 DEF Next, vars, clusterVars
  <2> QED
    BY <2>5, <2>6 DEF History
<1>3. obj' # obj => PublishStatus
  BY StatusKept DEF StatusComplete
<1> QED
  BY <1>1, <1>2, <1>3

-----------------------------------------------------------------------------
(* The report.                                                             *)

\* A worker's own step reports success only of what a complete status told.
LEMMA SuccessOwn ==
    ASSUME TypeOK, StatusTells, NEW w \in Worker, SuccessInv(w),
           StartJob(w) \/ Job(w) \/ Expire(w), good[w] => good'[w] \/ Wrote(w)
    PROVE  SuccessInv(w)'
<1> USE DEF TypeOK, SuccessInv, Goto, Finish, Skip, Precheck, Polling, Wrote
<1>1. CASE StartJob(w)
  BY <1>1 DEF StartJob
<1>2. CASE Expire(w)
  BY <1>2 DEF Expire
<1>3. CASE FindWorkload(w)
  BY <1>3 DEF FindWorkload
<1>4. CASE \/ IsWorkloadInPausedState(w) \/ IsPDBTooRestrictive(w)
           \/ GetStatus(w) \/ CheckPodCriticalErrors(w) \/ NodeCheck(w)
  BY <1>4 DEF IsWorkloadInPausedState, IsPDBTooRestrictive, GetStatus,
              CheckPodCriticalErrors, NodeCheck, Check
<1>5. CASE ApplyResize(w)
  BY <1>5 DEF ApplyResize, StartPoll
<1>6. CASE PollStatus(w)
  BY <1>6 DEF PollStatus, PollFailed, StartUndo, StatusTells
<1>7. CASE PollPods(w)
  BY <1>7 DEF PollPods, PollFailed, PollSucceeded, StartUndo
<1>8. CASE PollTimeout(w) \/ Soak(w)
  BY <1>8 DEF PollTimeout, Soak, PollFailed, StartUndo
<1>9. CASE UndoFind(w) \/ UndoUpdate(w) \/ UndoVerify(w)
  BY <1>9 DEF UndoFind, UndoUpdate, UndoVerify, UndoFailed, StartPoll
<1> QED
  BY <1>1, <1>2, <1>3, <1>4, <1>5, <1>6, <1>7, <1>8, <1>9 DEF Job

\* Another worker's step leaves this one's findings and report alone.
LEMMA SuccessStep ==
    ASSUME TypeOK, StatusTells, [Next]_vars, NEW v \in Worker, SuccessInv(v)
    PROVE  SuccessInv(v)'
<1>1. good[v] => good'[v] \/ Wrote(v)
  BY GoodKept
<1>2. CASE UNCHANGED <<pc, seenDone, report, rollback>>
  BY <1>1, <1>2 DEF SuccessInv, Wrote
<1>3. ASSUME NEW w \in Worker, StartJob(w) \/ Job(w) \/ Expire(w)
      PROVE  SuccessInv(v)'
  <2>1. CASE v = w
    BY <1>1, <1>3, <2>1, SuccessOwn
  <2>2. CASE v # w
    BY <1>1, <1>3, <2>2, OthersHold DEF SuccessInv, Wrote
  <2> QED
    BY <2>1, <2>2
<1>4. CASE Crash
  BY <1>4 DEF Crash, SuccessInv
<1> QED
  BY <1>2, <1>3, <1>4 DEF Next, vars, jobVars

\* A reported success, of the resize or of the rollback, means that all
\* replicas ran the written template and were ready after the write.
THEOREM SuccessIsReal == ASSUME NoExtraPods PROVE Spec => []SuccessMeansRolledOut
<1> DEFINE Inv == NoSurplus /\ StatusTells /\ \A w \in Worker : SuccessInv(w)
<1>1. Init => Inv
  <2>1. Init => NoSurplus
    BY NoSurplusInit
  <2>2. Init => StatusTells /\ \A w \in Worker : SuccessInv(w)
    BY DEF Init, StatusTells, SuccessInv
  <2> QED
    BY <2>1, <2>2
<1>2. TypeOK /\ Inv /\ [Next]_vars => Inv'
  BY NoSurplusStep, StatusStep, SuccessStep
<1>3. Inv => SuccessMeansRolledOut
  BY DEF SuccessInv, SuccessMeansRolledOut
<1> QED
  BY <1>1, <1>2, <1>3, TypeCorrect, PTL DEF Spec

-----------------------------------------------------------------------------
(* What the soak test looks at: under both assumptions, the pods of its    *)
(* own resize and no others.                                               *)

\* Every pod has the resources of the stored spec.
AllNew == \A p \in Live : pods[p].tmpl.res = obj.spec.res

\* A complete status tells that, too, and it stays so as long as the
\* resources do; a monitored resize is the stored one until it is undone.
StatusNew == StatusComplete => AllNew

SoakInv(w) ==
    /\ pc[w] \in Polling /\ ~ undoing[w] => obj.spec.res = rec[w]
    /\ pc[w] = "pollPods" /\ seenDone[w] => AllNew
    /\ pc[w] = "soak" => AllNew

\* A new pod is made from the stored spec, and no pod changes its template.
LEMMA AllNewKept ==
    ASSUME TypeOK, AllNew, [Next]_vars, obj'.spec.res = obj.spec.res
    PROVE  AllNew'
<1>1. CASE pods' = pods
  BY <1>1 DEF AllNew, Live
<1>2. CASE CreatePod
  BY <1>2 DEF CreatePod, AllNew, Live, TemplateOf, TypeOK, ClusterTypeOK
<1>3. CASE DeletePod
  BY <1>3 DEF DeletePod, AllNew, Live, TypeOK, ClusterTypeOK
<1>4. CASE PodChanges
  <2>1. PICK p \in Live, s \in PodStates : pods' = [pods EXCEPT ![p].state = s]
    BY <1>4 DEF PodChanges
  <2>2. pods[p] \in PodRecord
    BY <2>1 DEF Live, TypeOK, ClusterTypeOK
  <2>3. pods'[p].tmpl = pods[p].tmpl
    BY <2>1, <2>2 DEF PodRecord, Live, TypeOK, ClusterTypeOK
  <2>4. \A q \in Pod \ {p} : pods'[q] = pods[q]
    BY <2>1 DEF TypeOK, ClusterTypeOK
  <2> QED
    BY <2>1, <2>3, <2>4, obj'.spec.res = obj.spec.res DEF AllNew, Live
<1> QED
  BY <1>1, <1>2, <1>3, <1>4, PodsMove

\* With as many updated pods as replicas no other pod is left.
LEMMA UpdatedTell ==
    ASSUME NoSurplus, Cardinality(Updated) = Replicas
    PROVE  AllNew
<1>1. Updated \subseteq Live
  BY DEF Updated
<1>2. Cardinality(Updated) <= Cardinality(Live)
  BY <1>1, LiveFinite, FS_Subset
<1>3. Cardinality(Live) = Replicas
  BY <1>2, LiveFinite DEF NoSurplus
<1>4. Updated = Live
  BY <1>1, <1>3, LiveFinite, FS_Subset
<1> QED
  BY <1>4 DEF AllNew, Updated, TemplateOf

\* Nobody but the worker sets the resources, and it does by an Update only.
LEMMA ResourcesHeld ==
    ASSUME SoleOwner, TypeOK, [Next]_vars, NEW w \in Worker,
           pc[w] \notin {"update", "undoUpdate"}
    PROVE  obj'.spec.res = obj.spec.res
<1>1. ASSUME NEW v \in Worker, StartJob(v) \/ Job(v) \/ Expire(v)
      PROVE  obj' = obj
  <2>1. v = w
    BY DEF SoleOwner
  <2> QED
    BY <1>1, <2>1
    DEF StartJob, Expire, Job, FindWorkload, IsWorkloadInPausedState,
        IsPDBTooRestrictive, GetStatus, CheckPodCriticalErrors, NodeCheck, Check,
        ApplyResize, PollStatus, PollPods, PollTimeout, Soak, UndoFind,
        UndoUpdate, UndoVerify, clusterVars
<1> QED
  BY <1>1, ClusterKeepsResources DEF Next, Crash, vars, clusterVars

\* A resize that is polled is the stored one, and a soak test is begun by a
\* complete status of it.
LEMMA SoakOwn ==
    ASSUME SoleOwner, TypeOK, StatusNew, NEW w \in Worker, OwnedInv(w),
           SoakInv(w), StartJob(w) \/ Job(w) \/ Expire(w), AllNew => AllNew' \/ Wrote(w),
           pc[w] \notin {"update", "undoUpdate"} => obj'.spec.res = obj.spec.res
    PROVE  SoakInv(w)'
<1> USE DEF TypeOK, SoakInv, Goto, Finish, Skip, Precheck, Polling, Wrote
<1>1. CASE StartJob(w)
  BY <1>1 DEF StartJob
<1>2. CASE Expire(w)
  BY <1>2 DEF Expire
<1>3. CASE FindWorkload(w)
  BY <1>3 DEF FindWorkload
<1>4. CASE \/ IsWorkloadInPausedState(w) \/ IsPDBTooRestrictive(w)
           \/ GetStatus(w) \/ CheckPodCriticalErrors(w) \/ NodeCheck(w)
  BY <1>4 DEF IsWorkloadInPausedState, IsPDBTooRestrictive, GetStatus,
              CheckPodCriticalErrors, NodeCheck, Check
<1>5. CASE ApplyResize(w)
  <2>1. CASE pc'[w] = "idle"
    BY <2>1
  <2>2. CASE pc'[w] # "idle"
    <3>1. Update(w, rec[w]) /\ StartPoll(w) /\ rec' = rec
      BY <1>5, <2>2 DEF ApplyResize
    <3>2. obj' = [obj EXCEPT !.spec = [snap[w] EXCEPT !.res = rec[w]],
                             !.observed = FALSE]
      BY <3>1 DEF SoleOwner, Update, StoreSpec, Store
    <3>3. obj'.spec.res = rec'[w]
      BY <3>1, <3>2 DEF ClusterTypeOK, Object, WorkloadSpec
    <3> QED
      BY <3>1, <3>3 DEF StartPoll
  <2> QED
    BY <2>1, <2>2
<1>6. CASE PollStatus(w)
  BY <1>6 DEF PollStatus, PollFailed, StartUndo, StatusNew
<1>7. CASE PollPods(w)
  BY <1>7 DEF PollPods, PollFailed, PollSucceeded, StartUndo
<1>8. CASE PollTimeout(w) \/ Soak(w)
  BY <1>8 DEF PollTimeout, Soak, PollFailed, StartUndo
<1>9. CASE UndoFind(w) \/ UndoUpdate(w) \/ UndoVerify(w)
  BY <1>9 DEF UndoFind, UndoUpdate, UndoVerify, UndoFailed, StartPoll, OwnedInv, Undo
<1> QED
  BY <1>1, <1>2, <1>3, <1>4, <1>5, <1>6, <1>7, <1>8, <1>9 DEF Job

\* Without a write of the worker the resources, and so the pods', stay.
LEMMA AllNewOrWrote ==
    ASSUME SoleOwner, TypeOK, [Next]_vars, NEW w \in Worker, AllNew
    PROVE  AllNew' \/ Wrote(w)
<1>1. CASE pc[w] \notin {"update", "undoUpdate"}
  BY <1>1, ResourcesHeld, AllNewKept
<1>2. CASE pc[w] \in {"update", "undoUpdate"} /\ ~ Wrote(w)
  <2>1. CASE ClusterNext
    BY <2>1, ClusterKeepsResources, AllNewKept
  <2>2. CASE pc'[w] # pc[w]
    <3>1. obj' = obj
      BY <1>2, <2>2 DEF Wrote
    <3> QED
      BY <3>1, AllNewKept
  <2>3. CASE ~ ClusterNext /\ pc'[w] = pc[w]
    <3>1. ASSUME NEW v \in Worker, StartJob(v) \/ Job(v) \/ Expire(v)
          PROVE  obj' = obj
      <4>1. v = w
        BY DEF SoleOwner
      <4>2. ~ ApplyResize(w) /\ ~ UndoUpdate(w)
        BY <2>3 DEF ApplyResize, UndoUpdate, UndoFailed, StartPoll, Finish, Goto, TypeOK
      <4> QED
        BY <3>1, <4>1, <4>2
        DEF StartJob, Expire, Job, FindWorkload, IsWorkloadInPausedState,
            IsPDBTooRestrictive, GetStatus, CheckPodCriticalErrors, NodeCheck,
            Check, PollStatus, PollPods, PollTimeout, Soak, UndoFind,
            UndoVerify, clusterVars
    <3>2. obj' = obj
      BY <2>3, <3>1 DEF Next, Crash, vars, clusterVars
    <3> QED
      BY <3>2, AllNewKept
  <2> QED
    BY <2>1, <2>2, <2>3
<1> QED
  BY <1>1, <1>2

\* The worker's findings survive every step.
LEMMA SoakStep ==
    ASSUME SoleOwner, TypeOK, StatusNew, [Next]_vars,
           NEW w \in Worker, OwnedInv(w), SoakInv(w)
    PROVE  SoakInv(w)'
<1>1. AllNew => AllNew' \/ Wrote(w)
  BY AllNewOrWrote
<1>2. pc[w] \notin {"update", "undoUpdate"} => obj'.spec.res = obj.spec.res
  BY ResourcesHeld
<1>3. CASE UNCHANGED <<pc, rec, undoing, seenDone>>
  BY <1>1, <1>2, <1>3 DEF SoakInv, Wrote, Polling
<1>4. ASSUME NEW v \in Worker, StartJob(v) \/ Job(v) \/ Expire(v)
      PROVE  SoakInv(w)'
  <2>1. v = w
    BY DEF SoleOwner
  <2> QED
    BY <1>1, <1>2, <1>4, <2>1, SoakOwn
<1>5. ~ Crash
  BY DEF Crash, SoleOwner
<1> QED
  BY <1>3, <1>4, <1>5 DEF Next, vars, jobVars

\* A status that the controller publishes counts the pods there are.
LEMMA StatusNewStep ==
    ASSUME SoleOwner, TypeOK, NoSurplus, StatusNew, [Next]_vars
    PROVE  StatusNew'
<1> SUFFICES ASSUME StatusComplete' PROVE AllNew'
  BY DEF StatusNew
<1>1. CASE obj' = obj
  BY <1>1, AllNewKept DEF StatusNew, StatusComplete
<1>2. CASE obj' # obj /\ PublishStatus
  <2>1. obj'.updated = Cardinality(Updated) /\ obj'.spec = obj.spec
    BY <1>2 DEF PublishStatus, Store, TypeOK, ClusterTypeOK, Object
  <2>2. AllNew
    BY <2>1, UpdatedTell DEF StatusComplete
  <2> QED
    BY <2>1, <2>2, AllNewKept
<1> QED
  BY <1>1, <1>2, StatusKept DEF StatusComplete

\* While a resize soaks, every pod is of that resize, for any replicas, pods,
\* strategies and edits of the rest of the template: the pods it replaced are
\* gone and cannot take it back.
THEOREM SoakIsOwn ==
    ASSUME SoleOwner, NoExtraPods PROVE Spec => []SoakSeesOwnPods
<1> DEFINE Inv == NoSurplus /\ StatusNew /\ \A w \in Worker : SoakInv(w)
<1>1. Init => Inv
  <2>1. Init => AllNew
    BY DEF Init, ClusterInit, AllNew, Live
  <2>2. Init => \A w \in Worker : SoakInv(w)
    BY DEF Init, SoakInv, Polling
  <2> QED
    BY <2>1, <2>2, NoSurplusInit DEF StatusNew
<1>2. TypeOK /\ Owned /\ Inv /\ [Next]_vars => Inv'
  BY NoSurplusStep, StatusNewStep, SoakStep DEF Owned
<1>3. Owned /\ Inv => SoakSeesOwnPods
  BY DEF Owned, OwnedInv, Checking, Polling, SoakInv, AllNew, SoakSeesOwnPods
<1> QED
  BY <1>1, <1>2, <1>3, TypeCorrect, OwnedCorrect, PTL DEF Spec
=============================================================================
