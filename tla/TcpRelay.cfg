CONSTANTS
    a = a
    b = b
    None = None
    Friends <- PairFriends
    PeerNumber <- PairNumber
    Key = {a, b}
    Hasty <- PairHasty
    NUM_CLIENT_CONNECTIONS = 2
    GROW = 2
    MaxConns = 2
    MaxUp = 1
    MaxDown = 1
SPECIFICATION Spec
CHECK_DEADLOCK FALSE
INVARIANTS
    KeysListed
    Coupled
    NeverRefused
    Synchronised
