CONSTANTS
  Command = {"vrchat", "look", "lookRight", "jump"}
  Arguments = {NoArgument, 3, Unparsable}
  BrokenRegex = {"lookRight"}
  CooldownTimes = {0, 2}
  MaxElapsed = 2
  StallAt = 2
  MaxFrame = 1
  Edited = {"look", "jump"}
  Root = "vrchat"
  SubCommands <- MCSubCommands
  Line <- MCLine
  Holds <- MCHolds
  Address <- MCAddress
  Messages <- MCMessages
  FromArgument = FromArgument
  NoArgument = NoArgument
  Unparsable = Unparsable
  DefaultHold = 1
  JumpHold = 1
SPECIFICATION Spec
CHECK_DEADLOCK FALSE
INVARIANTS
  TypeOK
  CooldownHasItsTimer
  CooldownCoversPromise
PROPERTIES
  OnlyBadHoldsStick
