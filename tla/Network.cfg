SPECIFICATION MCSpec
CONSTANTS
    a = a
    b = b
    c = c
    d = d
    Users = {a, b, c}
    Parts = {"pings", "dht", "wraps", "presence"}
    DhtBounds <- MCDhtBounds
    PresenceBounds <- MCPresenceBounds
    total_size = 2
    timeout = 2
    U32 = 8
    Data = {1}
    None = None
    Starts = {0, 7}
    MaxAdds = 5
    MaxTime = 6
CHECK_DEADLOCK FALSE
INVARIANTS
    Answerable
    AnsweredOnce
    KillFreesAll
    FriendsInTouch
PROPERTIES
    NodesSound
