SPECIFICATION Spec
CONSTANTS
    CacheTtl = 2
    RequestWait = 1
    Mod32 = 4
    Mod64 = 64
    Isns = {3}
    MaxAbs = 6
INVARIANTS
    EndToEnd
    PeerIsHeard
    Closest
PROPERTIES
    LockedOn
