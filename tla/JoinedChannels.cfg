SPECIFICATION JoinedSpec
CONSTANTS
  c1 = c1
  c2 = c2
  c3 = c3
  Channel <- MCChannel
  JoinList <- MCJoinList
  MaxListed = 5
INVARIANTS
  JoinedTypeOK
  ListedIsJoined
  JoinedIsListed
CHECK_DEADLOCK FALSE
