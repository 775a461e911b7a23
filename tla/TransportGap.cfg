CONSTANTS
    a = a
    b = b
    Parts = {"wrap"}
    WrapPackets <- JustEnoughPackets
    Peer = {a, b}
    None = None
    FREE = FREE
    Empty = Empty
    MaxSessions <- Sessions
    MaxRestarts <- Restarts
SPECIFICATION MCSpec
VIEW View
INVARIANT DeliversEveryMessage
CHECK_DEADLOCK FALSE
