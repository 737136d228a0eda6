CONSTANTS
  Size = {small, large}
  NoSize = NoSize
SPECIFICATION Spec
\* The program ends when Run returns.
CHECK_DEADLOCK FALSE
INVARIANT AdminsCanQuit
