CONSTANTS
    Slots = 2
    Recent = 6
    Interval = 2
    Duration = 7
    ListFails = FALSE
SPECIFICATION Spec
PROPERTY CrashIsSeen
