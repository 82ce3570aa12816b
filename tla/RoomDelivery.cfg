SPECIFICATION Spec
CONSTANTS
    Users <- MCAlone
    Founder = 1
    MaxRecent = 1
    MaxTries = 2
    MaxEvents = 4
    MaxDoubt = 0
    MaxLate = 2
INVARIANTS
    DeliveredInOrder
