SPECIFICATION Spec
CONSTANTS
  MaxSize = 4
  MaxIndex = 9
  Args <- MCArgs
  ByArgs <- MCByArgs
VIEW Set
INVARIANTS VerifiedUntilOutgrown QueriesAreExact
PROPERTY Implements
