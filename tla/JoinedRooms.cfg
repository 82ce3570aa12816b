SPECIFICATION FairSpec
CONSTANTS
    Rooms = {"r1"}
    Devices = {"d1", "d2"}
    MaxRequests = 3
    MaxFaults = 1
INVARIANT CacheAgrees
PROPERTY SuccessHeals
PROPERTY RequestAnswered
CHECK_DEADLOCK FALSE
