CONSTANTS
    Slots = 2
    Recent = 6
    Interval = 2
    Duration = 7
    ListFails = TRUE
SPECIFICATION FairSpec
INVARIANT TypeOK
PROPERTIES StableMeansQuiet WatchEnds
