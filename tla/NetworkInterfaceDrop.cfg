CONSTANTS
    CacheTtl = 3
    RequestWait = 2
    Broadcast = everyone
    OurMac = us
    OurIp = gateway
    Host = {h1, h2}
    Mac = {m1, m2}
    MaxSent = 2
SPECIFICATION Spec
INVARIANTS
    NoneDropped
