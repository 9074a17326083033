SPECIFICATION Spec
CONSTANTS
  Kinds = {"list", "table", "swapped", "linked", "sorted"}
  Rows <- MCRows
  MaxRows = 4
  MaxCalls <- MCMaxCalls
  Beyond = 8
CHECK_DEADLOCK FALSE
INVARIANTS ChangesApply MovesAreTrue ModificationsAreExact FinalizedAgree QueryChangesApply
