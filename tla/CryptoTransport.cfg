CONSTANTS
    a = a
    b = b
    Peer = {a, b}
    NOT_CONFIRMED = NOT_CONFIRMED
    ESTABLISHED = ESTABLISHED
    FREE = FREE
    Empty = Empty
    CRYPTO_PACKET_BUFFER_SIZE = 2
    U32 = 6
    RunMax = 2
    RequestRoom = 1
    NONCES = 10
    MaxPackets <- FewPackets
    DATA_NUM_THRESHOLD = 1
    MaxWritten <- OneWriter
SPECIFICATION Spec
VIEW StateView
CHECK_DEADLOCK FALSE
INVARIANTS
    ArraysSound
    NothingLost
    ReceiptsTruthful
    NonceWindowTolerant
PROPERTIES
    ImplementsFifo
