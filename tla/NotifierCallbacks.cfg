SPECIFICATION Spec
CONSTANTS
    MaxTokens = 3
    MaxVersion = 2
CHECK_DEADLOCK FALSE
INVARIANTS HaveIsExact CountLacksUncounted LoopStaysInside CalledOnce NoChangeIsLost
PROPERTY MissedForRemoved
