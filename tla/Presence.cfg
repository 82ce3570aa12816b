SPECIFICATION FairSpec
CONSTANTS
    c1 = c1
    c2 = c2
    Conns <- MCConns
    MaxAttempts = 2
    MaxActivations = 2
    Breaks <- AnyBreaks
    MaxBreaks = 2
    OldGrains = TRUE
INVARIANTS TypeOK NoSilentGap NoGhost OneRepairChain
PROPERTIES Heals GhostsEvicted
CHECK_DEADLOCK FALSE
