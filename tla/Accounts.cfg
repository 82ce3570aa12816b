SPECIFICATION Spec
CONSTANTS
    g1 = g1
    g2 = g2
    w1 = w1
    w2 = w2
    NoTx = NoTx
    Mails <- MCMails
    Gateways <- MCGateways
    Workers <- MCWorkers
    PinTTL = 1
    ResendMinInterval = 1
    MaxResendCount = 1
    MaxVerifyAttempts = 1
    CollisionRetries = 1
    Grace = 0
    MaxAccounts = 2
    MaxRequests = 4
    MaxFailures = 1
    LastSend = 2
    MaxTime = 3
INVARIANTS TypeOK ChallengeIffPending OneAccount AttemptsBounded
PROPERTIES VerifiedStays ResendBudget
CHECK_DEADLOCK FALSE
SYMMETRY MCSymmetry
