CONSTANTS
    Mod16 = 16
    Mod32 = 16
    Mod64 = 256
    Int32Max = 100
    MAX_PAYLOAD_SIZE = 1
    MAX_RETX_ATTEMPTS = 1
    RtTimeout = 1
    RecvCapacity = 2
    SendCapacity = 2
    LingerFactor = 2
    Client = client
    Server = server
    Isn <- MCIsn
    Quitters = {}
    Reorder = FALSE
    NetBound = 4
    Plans <- TroubledPlans
SPECIFICATION FairSpec
INVARIANTS
    AckedIsReceived
    InOfficialState
PROPERTIES
    FollowsDiagram
    ClosesCleanly
    Terminates
CHECK_DEADLOCK FALSE
