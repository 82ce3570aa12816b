SPECIFICATION Spec
CONSTANTS
    Users <- MCUsers
    Founder = 1
    MaxRecent = 1
    MaxTries = 1
    MaxEvents = 3
    MaxDoubt = 1
    MaxLate = 0
INVARIANTS
    OneOwner
