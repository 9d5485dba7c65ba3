------------------------------ MODULE Workload ------------------------------
(***************************************************************************)
(* What a resize and its rollback do to the resources in a pod template:   *)
(* validation, ResizeContainer and ResizeWorkload, and the rollback        *)
(* recommendations made from the backup.  One group of recommendations is  *)
(* taken from FindWorkload to the end; that nobody else writes meanwhile   *)
(* is ResizeJob's concern.                                                 *)
(*                                                                         *)
(* Quantities are numbers.  A corev1.ResourceList is a function from the   *)
(* resource names it has: an absent one reads as zero, which is not the    *)
(* same as zero to Kubernetes.                                             *)
(***************************************************************************)
EXTENDS Naturals, FiniteSets, SequencesExt

CONSTANTS
    Resource,    \* names of resources
    Container,   \* names of the containers in the template
    Templates,   \* Templates[b]: templates workloads may have in runs that
                 \* manage limits (b) or that do not (~ b)
    RecLists     \* groups of recommendations a file may have for one

Managed == {"cpu", "memory"}

Quantities == [Managed -> Nat]

IsResourceList(l) == DOMAIN l \subseteq Resource /\ l \in [DOMAIN l -> Nat]

IsPodTemplate(t) ==
    /\ t = [c \in Container |-> [requests |-> t[c].requests, limits |-> t[c].limits]]
    /\ \A c \in Container : IsResourceList(t[c].requests) /\ IsResourceList(t[c].limits)

\* A recommendation: the quantities of a row that parses, or one that does not.
Recommendations ==
    [container : STRING, parses : BOOLEAN, request : Quantities, limit : Quantities]

ASSUME WorkloadAssumption ==
    /\ Managed \subseteq Resource
    /\ IsFiniteSet(Container) /\ Container \subseteq STRING
    /\ DOMAIN Templates \subseteq BOOLEAN
    /\ \A b \in DOMAIN Templates : \A t \in Templates[b] : IsPodTemplate(t)
    /\ RecLists \subseteq Seq(Recommendations)

VARIABLES
    useLimits, \* ctxkeys.UseLimitsFromContext, fixed for a run
    template,  \* the template as the API server stores it
    original,  \* originalTemplate, the backup
    recs,      \* the group's recommendations, later the valid ones
    stage

vars == <<useLimits, template, original, recs, stage>>

\* Requests.Cpu() and its like: an absent quantity is zero.
Quantity(list, name) == IF name \in DOMAIN list THEN list[name] ELSE 0

-----------------------------------------------------------------------------
(* Validation.                                                             *)

\* Mutant: the recommended requests are not compared with the limits.
QuantitiesParse(rec) == rec.parses

validateRecommendationQuantities(rec) ==
    /\ rec.parses
    /\ useLimits => \A n \in Managed : rec.limit[n] = 0 \/ rec.limit[n] >= rec.request[n]

\* Mutant: a match is never noticed.
NeverMatches(list, wanted) == DOMAIN list = {} /\ DOMAIN wanted = {}

AlreadyMatches(list, wanted) ==
    \A n \in Managed : Quantity(list, n) # 0 /\ wanted[n] = Quantity(list, n)

\* Mutant: the requests are not compared with the current limits.
ValidateMatchOnly(t, rec) ==
    /\ validateRecommendationQuantities(rec)
    /\ rec.container \in Container
    /\ ~ AlreadyMatches(t[rec.container].requests, rec.request)

ValidateRecommendations(t, rec) ==
    /\ validateRecommendationQuantities(rec)
    /\ rec.container \in Container
    /\ LET r == t[rec.container] IN
       IF useLimits
       THEN ~ (AlreadyMatches(r.requests, rec.request) /\ AlreadyMatches(r.limits, rec.limit))
       ELSE /\ \A n \in Managed :
                  Quantity(r.limits, n) = 0 \/ rec.request[n] <= Quantity(r.limits, n)
            /\ ~ AlreadyMatches(r.requests, rec.request)

-----------------------------------------------------------------------------
(* Resizing.                                                               *)

Equals(list, wanted) == \A n \in Managed : Quantity(list, n) = wanted[n]

\* Mutant: a container is rewritten even if nothing changes.
UpdatesAny(t, rec) ==
    rec.container \in Container /\ validateRecommendationQuantities(rec)

\* ResizeContainer finds the container and something to change in it.
Updates(t, rec) ==
    /\ rec.container \in Container
    /\ validateRecommendationQuantities(rec)
    /\ LET r == t[rec.container] IN
          ~ (Equals(r.requests, rec.request) /\ (useLimits => Equals(r.limits, rec.limit)))

\* Mutant: limits are written although limits are not managed.
ResizeLimitsAlways(t, rec) ==
    IF ~ Updates(t, rec) THEN t
    ELSE [t EXCEPT ![rec.container] = [requests |-> rec.request, limits |-> rec.limit]]

\* Mutant: limits are never written.
ResizeRequestsOnly(t, rec) ==
    IF ~ Updates(t, rec) THEN t
    ELSE [t EXCEPT ![rec.container].requests = rec.request]

\* Both lists are replaced whole, with cpu and memory only.
ResizeContainer(t, rec) ==
    IF ~ Updates(t, rec) THEN t
    ELSE [t EXCEPT ![rec.container] =
             [requests |-> rec.request,
              limits   |-> IF useLimits THEN rec.limit ELSE @.limits]]

\* The template after all of them; it is an error if none updates it.
ResizeWorkload(t, list) == FoldLeft(ResizeContainer, t, list)
NothingUpdated(t, list) == \A i \in DOMAIN list : ~ Updates(t, list[i])

\* Mutant: requests and limits are swapped.
RollbackSwapped(t) ==
    LET of(c) == [container |-> c,
                  parses    |-> TRUE,
                  request   |-> [n \in Managed |-> Quantity(t[c].limits, n)],
                  limit     |-> [n \in Managed |-> Quantity(t[c].requests, n)]]
    IN SetToSeq({of(c) : c \in Container})

CreateRollbackRecommendation(t) ==
    LET of(c) == [container |-> c,
                  parses    |-> TRUE,
                  request   |-> [n \in Managed |-> Quantity(t[c].requests, n)],
                  limit     |-> [n \in Managed |-> Quantity(t[c].limits, n)]]
    IN SetToSeq({of(c) : c \in Container})

-----------------------------------------------------------------------------
(* Kubernetes: external.                                                   *)

\* The API server refuses a request above its limit, a limit of zero too.
Accepts(t) ==
    \A c \in Container :
        \A n \in DOMAIN t[c].requests \cap DOMAIN t[c].limits :
            t[c].requests[n] <= t[c].limits[n]

-----------------------------------------------------------------------------

Stages == {"found", "valid", "skipped", "unchanged", "rejected", "resized",
           "nothingToUndo", "undoRejected", "undone"}

TypeOK ==
    /\ useLimits \in DOMAIN Templates
    /\ IsPodTemplate(template) /\ IsPodTemplate(original)
    /\ recs \in Seq(Recommendations)
    /\ stage \in Stages

Init ==
    /\ useLimits \in DOMAIN Templates
    /\ template \in {t \in Templates[useLimits] : Accepts(t)}
    /\ original = template
    /\ recs \in RecLists
    /\ stage = "found"

KeepValid(valid, rec) ==
    IF ValidateRecommendations(template, rec) THEN Append(valid, rec) ELSE valid

\* Mutant: the slice is made with a length, and the valid ones follow blanks.
WithBlanks(list) ==
    LET blank == [container |-> "", parses |-> FALSE, request |-> <<>>, limit |-> <<>>]
    IN FoldLeft(KeepValid, [i \in DOMAIN list |-> blank], list)

\* validateRecommendation keeps the valid ones.
validateRecommendation(list) == FoldLeft(KeepValid, <<>>, list)

Validate ==
    /\ stage = "found"
    /\ recs' = validateRecommendation(recs)
    /\ stage' = IF recs' = <<>> THEN "skipped" ELSE "valid"
    /\ UNCHANGED <<useLimits, template, original>>

\* ApplyResize up to the Update.
Resize ==
    /\ stage = "valid"
    /\ original' = template
    /\ IF NothingUpdated(template, recs)
       THEN stage' = "unchanged" /\ UNCHANGED template
       ELSE LET new == ResizeWorkload(template, recs) IN
            IF Accepts(new) THEN stage' = "resized" /\ template' = new
                            ELSE stage' = "rejected" /\ UNCHANGED template
    /\ UNCHANGED <<useLimits, recs>>

\* The rollback after the rollout failed.
Rollback ==
    /\ stage = "resized"
    /\ LET undo == CreateRollbackRecommendation(original)
           new  == ResizeWorkload(template, undo)
       IN IF NothingUpdated(template, undo)
          THEN stage' = "nothingToUndo" /\ UNCHANGED template
          ELSE IF Accepts(new) THEN stage' = "undone" /\ template' = new
                               ELSE stage' = "undoRejected" /\ UNCHANGED template
    /\ UNCHANGED <<useLimits, original, recs>>

Next == Validate \/ Resize \/ Rollback

Spec == Init /\ [][Next]_vars

-----------------------------------------------------------------------------
(* Properties.                                                             *)

\* After a rollback every container has the cpu and memory it had before,
\* as far as the code's own accessors can tell.
RollbackRestoresQuantities ==
    stage = "undone" =>
        \A c \in Container, n \in Managed :
            /\ Quantity(template[c].requests, n) = Quantity(original[c].requests, n)
            /\ Quantity(template[c].limits, n) = Quantity(original[c].limits, n)

\* The rollback covers every container of the template, but one that no
\* recommendation resized keeps its resources exactly, whatever they are.
OthersUntouched ==
    stage \in {"resized", "undone"} =>
        \A c \in Container :
            (\A i \in DOMAIN recs : recs[i].container # c) => template[c] = original[c]

\* A resize that is done is not done again: the next run of the same
\* recommendations would skip the last one of each container.
IsLastOf(i, list) ==
    \A k \in DOMAIN list : list[k].container = list[i].container => k <= i

RerunIsSkipped ==
    stage = "resized" =>
        \A i \in DOMAIN recs :
            IsLastOf(i, recs) => ~ ValidateRecommendations(template, recs[i])

\* Recommendations that passed the validation do not "cause errors if
\* applied": the API server takes them.
ValidIsAccepted == stage # "rejected"

\* Nor do they turn out to change nothing, which is an error as well.
ValidChangesSomething == stage # "unchanged"

\* The API server takes every rollback: it held the same values before.
RollbackIsAccepted == stage \notin {"undoRejected", "nothingToUndo"}

=============================================================================
