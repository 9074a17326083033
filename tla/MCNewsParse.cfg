SPECIFICATION Spec
CONSTANTS
    a = a b = b Blank = Blank
    Words <- MCWords
    Pieces <- MCPieces
    MaxItems = 2
    MaxLeaves = 3
    MaxPieces = 3
CHECK_DEADLOCK FALSE
INVARIANTS ItemsFollowDocument WholeTextIsExact DeliversWholeDocument
