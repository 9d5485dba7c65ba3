CONSTANTS
    r1 = r1  r2 = r2  r3 = r3
    i1 = i1  i2 = i2
    p1 = p1  p2 = p2
    w1 = w1  w2 = w2
    NoPod = NoPod
    Resources <- ThreeResources
    Images <- OneImage
    Pod <- OnePod
    Replicas = 1
    Surge = 0
    Strategies = {"RollingUpdate"}
    UserMay = {}
    Client <- TwoWorkers
    Worker <- TwoWorkers
    Recommended <- WantThirdAndSecond
    DryRun = FALSE
    ResizeOnRecreate = FALSE
    PostRolloutCheck = FALSE
    MaxTries = 1
    Faults = {}
SPECIFICATION Spec
PROPERTY RollbackUndoesOwn
