SPECIFICATION Spec
CONSTANTS
    k1 = k1
    k2 = k2
    NoKey = NoKey
    Key <- TwoKeys
    MaxRelays = 3
    NUM_CLIENT_CONNECTIONS = 2
    MAX_FRIEND_TCP_CONNECTIONS = 2
    RECOMMENDED_FRIEND_TCP_CONNECTIONS = 1
    NUM_ONION_TCP_CONNECTIONS = 1
    U32 = 100
    Bounds <- PoolBounds
SYMMETRY KeySymmetry
INVARIANTS
    CountersExact
    LinksOwned
    TablesAgree
