CONSTANTS
    w1 = w1  w2 = w2
    n1 = n1  n2 = n2  n3 = n3
    Worker <- TwoWorkers
    Node <- ThreeNodes
    Arch <- TwoAndOne
    Wanted <- AnyOrArm
    Window = 3
    Interval = 2
    Cooldown = 3
    Cancelable = TRUE
SPECIFICATION FairSpec
INVARIANT TypeOK
PROPERTIES SkipIsEarned GiveUpSawNone ChecksEnd LooksAgain
