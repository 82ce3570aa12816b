SPECIFICATION Spec
CONSTANTS
    PageSize = 2
    BucketCap = 4
    Rows = 2
    Day <- MCDay
    MaxEvent = 5
    MaxOdd = 1
INVARIANTS NoHole NewestRetained LatchInFlight
PROPERTY ViewStays
CHECK_DEADLOCK FALSE
