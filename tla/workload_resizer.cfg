CONSTANTS
    w1 = w1  w2 = w2
    NoJob = NoJob
    Sheet <- FourRows
    Job <- WorkloadIDs
    Worker <- TwoWorkers
    Recs <- RowsPer
    Containers <- TwoEach
    Channel <- OneChannel
    Capacity = 2
    Inbox <- SharedInbox
    Route <- SharedRoute
    Orders <- AnyOrder
    Cancelable = TRUE
SPECIFICATION FairSpec
INVARIANTS TypeOK JobsConserved SendIsSafe ProgressIsExact ReturnMeansAll GroupIsObject
PROPERTY ReturnsUncanceled
CHECK_DEADLOCK FALSE
