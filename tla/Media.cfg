SPECIFICATION MCSpec
CONSTANTS
    a = a
    b = b
    None = None
    Parts = {"calls", "locks", "queue", "frames", "audio"}
    MayDisconnect = FALSE
    MaxOps = 5
    CallBounds <- MCCallBounds
CHECK_DEADLOCK FALSE
INVARIANTS
    CallsAgree
    ThreadsSafe
    FramesWhole
    AudioPlayed
PROPERTIES
    QueuesSound
