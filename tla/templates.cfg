CONSTANTS
    Resource <- Resources
    Container <- Containers
    Templates <- ByLimits
    RecLists <- PositiveRecs
SPECIFICATION Spec
CHECK_DEADLOCK FALSE
INVARIANTS TypeOK RollbackRestoresQuantities OthersUntouched RerunIsSkipped ValidIsAccepted ValidChangesSomething RollbackIsAccepted
