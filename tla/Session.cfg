SPECIFICATION FairSpec
CONSTANT MaxKeys = 4
INVARIANTS OwnSession SocketOwned
 
CHECK_DEADLOCK FALSE
