CONSTANTS
    r1 = r1  r2 = r2  r3 = r3
    i1 = i1  i2 = i2
    p1 = p1  p2 = p2
    w1 = w1  w2 = w2
    NoPod = NoPod
    Resources <- TwoResources
    Images <- OneImage
    Pod <- TwoPods
    Replicas = 1
    Surge = 1
    Strategies = {"RollingUpdate"}
    UserMay = {}
    Client <- OneWorker
    Worker <- OneWorker
    Recommended <- AllWantR2
    DryRun = FALSE
    ResizeOnRecreate = FALSE
    PostRolloutCheck = FALSE
    MaxTries = 1
    Faults = {}
SPECIFICATION Spec
INVARIANT SuccessMeansRolledOut
