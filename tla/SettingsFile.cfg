CONSTANT NotABool = NotABool
SPECIFICATION Spec
INVARIANTS
  TypeOK
  RunsOnItsFile
  ValuesSurvive
