SPECIFICATION Spec
CONSTANTS
    SockCap = 1
    SendCapacity = 1
    RecvCapacity = 2
    CopyCapacity = 1
    InputBytes = 1
    PeerBytes = 3
    MaxFaults = 1
INVARIANTS
    InTransit
    DiesOnlyByFault
    PeerStreamCopied
PROPERTIES
    Terminates
CHECK_DEADLOCK FALSE
