CONSTANTS
  Command = {"vrchat", "move", "moveLeft"}
  Arguments = {1, 4, Unparsable}
  BrokenRegex = {}
  CooldownTimes = {0, 1, 3, 4}
  MaxElapsed = 3
  StallAt = 1
  MaxFrame = 1
  Edited = {"moveLeft"}
  Root = "vrchat"
  SubCommands <- MCSubCommands
  Line <- MCLine
  Holds <- MCHolds
  Address <- MCAddress
  Messages <- MCMessages
  FromArgument = FromArgument
  NoArgument = NoArgument
  Unparsable = Unparsable
  DefaultHold = 2
  JumpHold = 1
SPECIFICATION FairSpec
CHECK_DEADLOCK FALSE
PROPERTIES
  CooldownEnds
  HeldIsReleased
  DeletedIsLeftAlone
