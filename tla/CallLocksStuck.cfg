SPECIFICATION MCSpec
CONSTANTS
    a = a
    b = b
    None = None
    Parts = {"locks"}
    MayDisconnect = TRUE
    MaxOps = 5
    CallBounds <- MCCallBounds
INVARIANT NeverStuck
CHECK_DEADLOCK FALSE
