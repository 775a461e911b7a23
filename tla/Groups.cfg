SPECIFICATION MCSpec
CONSTANTS
    Parts = {"lossless", "handshake", "moderation"}
    Cases = {"crossing", "checksums", "loss", "join", "full", "topics", "locks", "pings"}
    GCC_BUFFER_SIZE = 4
    U16 = 8
    FirstId = 3
    ChunkCounts = {1, 2}
    MaxWritten = 4
    MaxRefused = 1
    a = a
    b = b
    Peer = {a, b}
    Closer = a
    None = None
    Members = {1, 2, 3}
    MOD_MAX_NUM_MODERATORS = 2
    MOD_MAX_NUM_SANCTIONS = 2
VIEW StateView
CHECK_DEADLOCK FALSE
INVARIANTS
    NothingLost
    PacketsWhole
    
    RolesAgree
PROPERTIES
    FifoOfAccepted
    CredsForward
