SPECIFICATION Spec
CONSTANTS
  Name <- MCName
  Lower <- MCLower
  FixedName = "Fixed"
  Spoiled = "spoiled"
  Address <- MCAddresses
  Invalid = "INVALID"
  NoAddress = ""
  ChatboxInput = "/chatbox/input"
  Word <- MCWord
  NoWord = "no word"
  ValidBool <- MCValidBool
  Off <- MCOff
  HasDigit <- MCHasDigit
  AllDots <- MCAllDots
  AsInt <- MCAsInt
  AsFloat <- MCAsFloat
  Unparsable = Unparsable
  Lists <- MCLists
  Messages <- MCMessages
  IntBound = 32
  SizeModulus = 128
INVARIANTS
  TypeOK
  PageShowsFiveInARow
  SentAsAsked
PROPERTY MessageEnds
CHECK_DEADLOCK FALSE
