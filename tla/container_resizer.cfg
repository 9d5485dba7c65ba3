CONSTANTS
    w1 = w1  w2 = w2
    NoJob = NoJob
    Sheet <- FourRows
    Shard <- AllShards
    Job <- Rows
    Worker <- TwoWorkers
    Recs <- OneEach
    Containers <- TwoEach
    Channel <- TwoWorkers
    Capacity = 4
    Inbox <- OwnInbox
    Route <- ByShard
    Orders <- FileOnly
    Cancelable = TRUE
SPECIFICATION FairSpec
INVARIANTS ReturnMeansAll OneAtATime
PROPERTIES FileOrder Returns
