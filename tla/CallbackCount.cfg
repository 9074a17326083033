SPECIFICATION Spec
CONSTANTS
    MaxTokens = 3
    MaxVersion = 2
CHECK_DEADLOCK FALSE
INVARIANT CountIsPackagedStillPresent
