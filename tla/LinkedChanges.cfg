SPECIFICATION Spec
CONSTANTS
  Kinds = {"linked"}
  Rows <- MCRows
  MaxRows = 4
  MaxCalls <- MCMaxCalls
  Beyond = 8
CHECK_DEADLOCK FALSE
INVARIANT LinkedModifications
