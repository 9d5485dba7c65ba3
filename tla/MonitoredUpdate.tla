--------------------------- MODULE MonitoredUpdate ---------------------------
(***************************************************************************)
(* What a resize promises: it is a monitored transaction on the resources  *)
(* of one workload.  An update that is made is watched until it is         *)
(* committed or taken back; the verdict tells which, and only "Stuck",     *)
(* a failed rollback, leaves the outcome open.                             *)
(***************************************************************************)
CONSTANTS
    Value,    \* resource settings
    Targets   \* the ones that may be asked for

VARIABLES
    live,     \* the resources in the workload's spec
    phase,
    target,   \* what the current transaction asks for
    backup,   \* what its update replaced
    verdict   \* how the last transaction ended

vars == <<live, phase, target, backup, verdict>>

Phases   == {"idle", "checking", "monitoring", "recovering"}
Verdicts == {"none", "Skipped", "Failed", "Stuck", "Succeeded"}

TypeOK ==
    /\ live \in Value /\ target \in Value /\ backup \in Value
    /\ phase \in Phases
    /\ verdict \in Verdicts

Init ==
    /\ live \in Value
    /\ phase = "idle"
    /\ target = live
    /\ backup = live
    /\ verdict = "none"

Move(from, to) == phase = from /\ phase' = to

Begin ==
    /\ Move("idle", "checking")
    /\ target' \in Targets
    /\ verdict' = "none"
    /\ UNCHANGED <<live, backup>>

\* A request for something that cannot be resized at all.
Reject ==
    /\ Move("idle", "idle")
    /\ target' \in Targets
    /\ verdict' = "Skipped"
    /\ UNCHANGED <<live, backup>>

Decline ==
    /\ Move("checking", "idle")
    /\ verdict' = "Skipped"
    /\ UNCHANGED <<live, target, backup>>

Apply ==
    /\ Move("checking", "monitoring")
    /\ live # target
    /\ live' = target
    /\ backup' = live
    /\ UNCHANGED <<target, verdict>>

\* The update is refused: nothing was changed.
Refuse ==
    /\ Move("checking", "idle")
    /\ backup' = live
    /\ verdict' = "Failed"
    /\ UNCHANGED <<live, target>>

Commit ==
    /\ Move("monitoring", "idle")
    /\ verdict' = "Succeeded"
    /\ UNCHANGED <<live, target, backup>>

Abort ==
    /\ Move("monitoring", "recovering")
    /\ UNCHANGED <<live, target, backup, verdict>>

Restore ==
    /\ Move("recovering", "recovering")
    /\ live # backup
    /\ live' = backup
    /\ UNCHANGED <<target, backup, verdict>>

Close ==
    /\ Move("recovering", "idle")
    /\ \/ live = backup /\ verdict' = "Failed"
       \/ verdict' = "Stuck"
    /\ UNCHANGED <<live, target, backup>>

Next ==
    \/ Begin \/ Reject \/ Decline
    \/ Apply \/ Refuse
    \/ Commit \/ Abort \/ Restore \/ Close

Spec == Init /\ [][Next]_vars
=============================================================================
