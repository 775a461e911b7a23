CONSTANTS
    a = a
    b = b
    Parts = {"handshake", "wrap", "codec"}
    WrapPackets <- ManyPackets
    Peer = {a, b}
    None = None
    FREE = FREE
    Empty = Empty
    MaxSessions <- Sessions
    MaxRestarts <- Restarts
SPECIFICATION MCSpec
VIEW View
CHECK_DEADLOCK FALSE
INVARIANTS
    OwnersAgree
    KeysAgree
    SafeAroundWrap
    BytesMeanReport
PROPERTIES
    EstablishedKeysFixed
