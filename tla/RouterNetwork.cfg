CONSTANTS
    CacheTtl = 3
    RequestWait = 2
    Broadcast = everyone
    AddrBits = 4
    a = a
    b = b
    c = c
    r1 = r1
    r2 = r2
    Host = {a, b, c}
    Routers = {r1, r2}
    HostIp <- MCHostIp
    Gateway <- MCGateway
    RouterIps <- MCRouterIps
    Link <- MCLink
    Routes <- MCRoutes
    Traffic <- MCTraffic
    MaxSent = 2
SPECIFICATION FairSpec
INVARIANTS
    NeverSpent
    LongestPrefix
    OneCopy
    RightHost
PROPERTIES
    Settles
    SomeArrive
CHECK_DEADLOCK FALSE
