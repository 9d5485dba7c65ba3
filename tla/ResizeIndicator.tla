--------------------------- MODULE ResizeIndicator ---------------------------
(***************************************************************************)
(* The listener that counts recommendations.  Its lock makes every event   *)
(* one step; ResizeWatcher.Notify calls it in the notifying goroutine.     *)
(***************************************************************************)
EXTENDS Integers

VARIABLES
    processed,  \* RecommendationProcessed
    statusMap   \* recommendations per event status

indicatorVars == <<processed, statusMap>>

RollbackStatus == {"RollbackSucceeded", "RollbackFailed"}
ResizeStatus   == {"Succeeded", "Failed", "Skipped"} \cup RollbackStatus

IndicatorTypeOK ==
    /\ processed \in Nat
    /\ statusMap \in [ResizeStatus -> Nat]

IndicatorInit ==
    /\ processed = 0
    /\ statusMap = [s \in ResizeStatus |-> 0]

\* Mutant: a rollback takes its recommendations back out of the progress.
HandleTakingBack(status, n) ==
    /\ processed' = IF status \in RollbackStatus THEN processed - n ELSE processed + n
    /\ statusMap' = [statusMap EXCEPT ![status] = @ + n]

\* Mutant: a rollback counts as progress as well.
HandleCountingAll(status, n) ==
    /\ processed' = processed + n
    /\ statusMap' = [statusMap EXCEPT ![status] = @ + n]

\* An event about n recommendations.
HandleResizeEvent(status, n) ==
    /\ processed' = IF status \in RollbackStatus THEN processed ELSE processed + n
    /\ statusMap' = [statusMap EXCEPT ![status] = @ + n]
=============================================================================
