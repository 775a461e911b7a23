SPECIFICATION MCSpec
CONSTANTS
    c1 = c1
    c2 = c2
    c3 = c3
    Parts = {"files", "conference", "lossy", "framing", "relay", "hasty"}
    FileBounds <- MCFileBounds
    None = None
CHECK_DEADLOCK FALSE
INVARIANTS
    FilesWhole
    MembersAgree
    LossySound
    DataFromPeer
PROPERTIES
    MessagesOnce
    FramesFifo
