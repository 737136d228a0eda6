CONSTANTS
  a1 = a1
  a2 = a2
  a3 = a3
  p = p
  q = q
  r = r
  NoAvatar = NoAvatar
  Avatar <- MCAvatar
  Unreadable <- MCUnreadable
  Name <- MCName
  OutputOnly <- MCOutputOnly
  Parameters <- MCParameters
  MaxChanges = 4
SPECIFICATION FairSpec
INVARIANTS
  TypeOK
  ThreadHasItsData
  SteadyLookUpIsRight
  OneAvatarsParameters
PROPERTIES
  DestructorReturns
CHECK_DEADLOCK FALSE
