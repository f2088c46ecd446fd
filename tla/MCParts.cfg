SPECIFICATION FairSpec
CONSTANTS
    T0Lc = 2
    T0Le = 2
    T0Calls = 2
    MaxNulls = 1
    MaxLate = 1
    GbpRetries = 2
    GbpResyncs = 2
    GbpRetryMod = 4
    GbpFaults = 3
    SyncPage = 2
    SyncSize = 4
    SyncLen = 3
    PsNotes = 3
    PsCards = 3
    CcSeqMod = 4
    CcFails = 2
    CcNotes = 2
    CcCards = 2
    KnCards = 2
    KnChunk = 2
    KnSize = 5
    KnLens = {1, 3}
    TlvByte = 32
    CallBuf = 12
    SockBuf = 40
    MsgBuf = 6
    CallLens = {0, 1, 3, 5, 7, 35, 45}
    CallSlots = 1
    AtrLater = {0, 1, 7}
    CaSlots = 2
    CaInits = 2
INVARIANTS
    AnswerIsOwn
    EndsAgree
    MemoryKept
    CardChangeKept
    CallIntact
    AtrFollowed
    TerminalSound
PROPERTIES
    TransceiveEnds
CHECK_DEADLOCK FALSE
