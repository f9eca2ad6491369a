SPECIFICATION CutoverFairSpec
CONSTANTS
    Logins = {a, b}
    Original = Original
    NoCred = NoCred
    MaxDisconnects = 2
INVARIANTS DiskFollows OneConnection OnlyCircleBlocks
PROPERTIES OnlyLivePromotes EveryoneFinishes
CHECK_DEADLOCK FALSE
