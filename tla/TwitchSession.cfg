CONSTANTS
  Line <- MCLine
  ChatLine <- MCChatLine
  Channel <- MCChannel
  Tags <- MCTags
  Stream <- MCStream
  NoText = NoText
  MaxChunks = 2
SPECIFICATION FairSessionSpec
\* The program may end.
CHECK_DEADLOCK FALSE
INVARIANTS
  SessionTypeOK
  FifoUnlessRaced
  OnlyEarlyExitTerminates
  FlagsAreTheAuthors
PROPERTIES
  DisconnectReturns
  ImplementsFeed
  ChunksAreHeard
