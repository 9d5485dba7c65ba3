------------------------------- MODULE Cluster -------------------------------
(***************************************************************************)
(* The cluster as the resize engine sees it through client-go: the one     *)
(* workload object (Deployment or StatefulSet) the engine reads, patches   *)
(* and watches, the controller that rolls its pods out and publishes its   *)
(* status, the pods, a PodDisruptionBudget, and users who edit the object  *)
(* meanwhile.  Nothing here is code of the repository: it is modelled from *)
(* how resizeengine/internal/k8s uses the API.                             *)
(*                                                                         *)
(* resourceVersion and generation are unbounded counters that the engine   *)
(* only ever compares, so each is kept as the outcome of its comparison:   *)
(*   - "fresh" holds the clients whose last Get is still current, those    *)
(*     whose resourceVersion an Update would find unchanged;               *)
(*   - "observed" is status.observedGeneration >= metadata.generation.     *)
(***************************************************************************)
EXTENDS Naturals, FiniteSets

CONSTANTS
    Resources,   \* the cpu/memory settings of the containers of a template
    Images,      \* everything else in a template, which the engine must keep
    Pod,         \* identities of pods
    NoPod,       \* the value of an identity no pod uses
    Replicas,    \* spec.replicas
    Surge,       \* maxSurge: 0 stands for a StatefulSet, which replaces in place
    Strategies,  \* update strategies the workload may have
    UserMay,     \* what users edit: a subset of {"image", "pause", "resources"}
    Client       \* API clients that hold an object between a Get and an Update

PodStates == {"starting", "ready", "critical"}
Template  == [res : Resources, img : Images]
PodRecord == [tmpl : Template, state : PodStates]
WorkloadSpec == [res : Resources, img : Images, paused : BOOLEAN]

ASSUME ClusterAssumption ==
    /\ Replicas \in Nat \ {0} /\ Surge \in Nat
    /\ IsFiniteSet(Pod)
    /\ NoPod \notin PodRecord
    /\ Strategies \subseteq {"RollingUpdate", "Recreate", "OnDelete"}

VARIABLES
    obj,         \* the workload object as the API server stores it
    fresh,       \* clients whose resourceVersion is the object's
    pods,        \* the pods its selector matches
    pdbBlocks,   \* a matching PDB has status.disruptionsAllowed = 0
    strategy     \* the workload's update strategy, never edited

clusterVars == <<obj, fresh, pods, pdbBlocks, strategy>>

Object == [spec : WorkloadSpec, observed : BOOLEAN, updated : Nat, available : Nat]

ClusterTypeOK ==
    /\ obj \in Object
    /\ fresh \subseteq Client
    /\ pods \in [Pod -> PodRecord \cup {NoPod}]
    /\ pdbBlocks \in BOOLEAN
    /\ strategy \in Strategies

TemplateOf(spec) == [res |-> spec.res, img |-> spec.img]

Live    == {p \in Pod : pods[p] # NoPod}
Updated == {p \in Live : pods[p].tmpl = TemplateOf(obj.spec)}
Ready   == {p \in Live : pods[p].state = "ready"}
AnyPodCritical == \E p \in Live : pods[p].state = "critical"

\* Every replica runs the object's current template and serves.
RolledOut == Cardinality(Updated \cap Ready) >= Replicas

-----------------------------------------------------------------------------
(* The object.                                                             *)

\* Any stored write gives the object a new resourceVersion.
Store(o) == obj' = o /\ fresh' = {}

\* A change of the spec gives it a new generation, not observed yet.
StoreSpec(s) == Store([obj EXCEPT !.spec = s, !.observed = FALSE])

\* The effect of client c's successful Get on what c may later Update.
Fetch(c) == fresh' = fresh \cup {c}

UserEdit ==
    /\ \/ /\ "image" \in UserMay
          /\ \E i \in Images \ {obj.spec.img} :
                StoreSpec([obj.spec EXCEPT !.img = i])
       \/ /\ "pause" \in UserMay
          /\ StoreSpec([obj.spec EXCEPT !.paused = ~ @])
       \/ /\ "resources" \in UserMay
          /\ \E r \in Resources \ {obj.spec.res} :
                StoreSpec([obj.spec EXCEPT !.res = r])
    /\ UNCHANGED <<pods, pdbBlocks, strategy>>

-----------------------------------------------------------------------------
(* The controller.  It works on the stored object only: a status write     *)
(* computed from an older one is refused with a conflict.                  *)

MaxUnavailable == IF Surge = 0 THEN 1 ELSE 0

Rolling == ~ obj.spec.paused /\ strategy # "OnDelete"

CreatePod ==
    /\ Rolling
    /\ Cardinality(Live) < Replicas + Surge
    /\ Cardinality(Updated) < Replicas
    /\ strategy = "Recreate" => Live = Updated
    /\ \E p \in Pod \ Live :
          pods' = [pods EXCEPT ![p] = [tmpl  |-> TemplateOf(obj.spec),
                                       state |-> "starting"]]
    /\ UNCHANGED <<obj, fresh, pdbBlocks, strategy>>

DeletePod ==
    /\ Rolling
    /\ \E p \in Live \ Updated :
          /\ strategy = "RollingUpdate" =>
                \/ p \notin Ready
                \/ Cardinality(Ready) > Replicas - MaxUnavailable
          /\ pods' = [pods EXCEPT ![p] = NoPod]
    /\ UNCHANGED <<obj, fresh, pdbBlocks, strategy>>

PublishStatus ==
    /\ LET o == [obj EXCEPT !.observed  = TRUE,
                            !.updated   = Cardinality(Updated),
                            !.available = Cardinality(Ready)]
       IN o # obj /\ Store(o)
    /\ UNCHANGED <<pods, pdbBlocks, strategy>>

-----------------------------------------------------------------------------
(* The pods: any may start, fail (OOMKilled, CrashLoopBackOff, a hard      *)
(* Unschedulable, ...) or be restarted.                                    *)

PodChanges ==
    /\ \E p \in Live : \E s \in PodStates \ {pods[p].state} :
          /\ s = "ready"    => pods[p].state = "starting"
          /\ s = "starting" => pods[p].state = "critical"
          /\ pods' = [pods EXCEPT ![p].state = s]
    /\ UNCHANGED <<obj, fresh, pdbBlocks, strategy>>

BudgetChanges ==
    /\ pdbBlocks' = ~ pdbBlocks
    /\ UNCHANGED <<obj, fresh, pods, strategy>>

-----------------------------------------------------------------------------

\* A workload at rest: fully rolled out, observed, not paused.
ClusterInit ==
    /\ \E t \in Template :
          /\ obj = [spec      |-> [res |-> t.res, img |-> t.img, paused |-> FALSE],
                    observed  |-> TRUE,
                    updated   |-> Replicas,
                    available |-> Replicas]
          /\ \E P \in {Q \in SUBSET Pod : Cardinality(Q) = Replicas} :
                pods = [p \in Pod |-> IF p \in P
                                      THEN [tmpl |-> t, state |-> "ready"]
                                      ELSE NoPod]
    /\ fresh = {}
    /\ pdbBlocks = FALSE
    /\ strategy \in Strategies

ClusterNext ==
    \/ UserEdit
    \/ CreatePod
    \/ DeletePod
    \/ PublishStatus
    \/ PodChanges
    \/ BudgetChanges
=============================================================================
