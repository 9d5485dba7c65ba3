CONSTANTS
    Resource <- Resources
    Container <- Containers
    Templates <- AnyLimited
    RecLists <- PositiveRecs
SPECIFICATION Spec
CHECK_DEADLOCK FALSE
INVARIANT RollbackIsAccepted
