SPECIFICATION FairSpec
CONSTANTS
    g1 = g1
    g2 = g2
    w1 = w1
    w2 = w2
    NoTx = NoTx
    Mails <- MCMails
    Gateways <- MCGateways
    Workers <- MCWorkers
    PinTTL = 1
    ResendMinInterval = 1
    MaxResendCount = 1
    MaxVerifyAttempts = 1
    CollisionRetries = 0
    Grace = 0
    MaxAccounts = 2
    MaxRequests = 2
    MaxFailures = 1
    LastSend = 2
    MaxTime = 3
PROPERTY ResendProtects
CHECK_DEADLOCK FALSE
