CONSTANTS
    a = a
    b = b
    Parts = {"relay", "handshake", "transport", "files", "framing"}
    None = None
    FREE = FREE
    Empty = Empty
    Friends <- PairFriends
    PeerNumber <- PairNumber
    Key = {a, b}
    Hasty <- NotHasty
    NUM_CLIENT_CONNECTIONS = 1
    GROW = 2
    MaxConns = 3
    MaxUp = 1
    MaxDown = 1
SPECIFICATION LiveSpec
PROPERTY EventuallySettled
CHECK_DEADLOCK FALSE
