SPECIFICATION Spec
CONSTANTS
    None = None
    t1 = t1
    t2 = t2
    loop = loop
    w1 = w1
    Threads = {t1, t2}
    Loop = loop
    Waits = {w1}
    Policies = {"Immediately", "LiveIndefinitely", "AfterChangesUploaded"}
    MaxSessions = 2
    MaxCalls = 6
    MaxVersion = 1
SYMMETRY Symmetry
INVARIANTS AnsweredOnce WaitIsRegistered RunningHasClient ReferencedIsRegistered
PROPERTY DyingUploadsAll
CHECK_DEADLOCK FALSE
