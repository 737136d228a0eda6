CONSTANTS
  a3 = a3
  a4 = a4
  a8 = a8
  t1 = t1
  t3 = t3
  t4 = t4
  v = v
  Address <- MCAddress
  Text <- MCText
  Value <- MCValue
  StringLength <- MCStringLength
  Foreign <- MCForeign
  Garbage <- MCGarbage
  Nothing = Nothing
  Capacity = 16
  BufferSize = 16
SPECIFICATION Spec
INVARIANTS
  TypeOK
  HeardIsSaid
PROPERTIES
  SendsOscFromTmp
