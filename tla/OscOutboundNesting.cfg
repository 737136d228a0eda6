CONSTANTS
  Capacity = 86
  AddressLengths <- MCAddressLengths
  StringLengths <- MCStringLengths
  BlobSizes <- MCBlobSizes
SPECIFICATION Spec
INVARIANTS
  TypeOK
  MessageCanBeClosed
  ElementsNest
PROPERTIES
  BuildsPacket
