CONSTANTS
    Mod32 = 16
    Mod64 = 256
    MAX_PAYLOAD_SIZE = 2
    Isn = 13
    Capacity = 3
    RtTimeout = 1
    MAX_RETX_ATTEMPTS = 1
    MaxBytes = 3
    MaxWin = 2
    Late = 2
SPECIFICATION Spec
INVARIANTS
    TimerIffOutstanding
    FlightIsUnacked
    DataMatchesSeqno
    BackoffMatchesCount
    FinEndsStream
    NeverStalls
    PayloadInWindow
CHECK_DEADLOCK FALSE
