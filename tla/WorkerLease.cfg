\* Two processes, one worker id to fight over, wall clocks that may lag by
\* less than a statement takes.
CONSTANTS
    p1 = p1
    p2 = p2
    Procs <- MCProcs
    NumWorkers = 1
    MaxSequence = 0
    MaxTimestamp = 6
    TTL = 4
    Margin = 1
    RenewInterval = 1
    AcquireAttempts = 2
    Skew = 1
    MinLatency = 2
    MaxTime = 6
    MaxTokens = 3
    MaxMints = 2
    MaxStray = 1
SYMMETRY Perms
SPECIFICATION Spec
INVARIANTS TypeOK Fenced NoDuplicateId WorkerMonotone
