CONSTANTS
  Size = {small, large}
  NoSize = NoSize
SPECIFICATION FairSpec
\* The program ends when Run returns.
CHECK_DEADLOCK FALSE
INVARIANTS
  TypeOK
  FrameFitsWindow
  DrawsToLiveViews
PROPERTIES
  QuitReturns
