-------------------------- MODULE MCRouterNetwork --------------------------
(***************************************************************************)
(* Two routers between two networks, on addresses of four bits:            *)
(*   01xx  host a (4), router r1 (5)                                       *)
(*   00xx  routers r1 (0) and r2 (1)                                       *)
(*   11xx  router r2 (12), hosts b (13) and c (14)                         *)
(* Each router's default route is the other one, so that a datagram for    *)
(* 101x goes in circles; host c is the next hop for 100x; 15 is an address *)
(* of the last network that nobody has.  One datagram is sent with a ttl   *)
(* of zero, as the last one of network_simulator.cc is.                    *)
(***************************************************************************)
EXTENDS RouterNetwork

CONSTANTS a, b, c, r1, r2

MCHostIp == a :> 4 @@ b :> 13 @@ c :> 14
MCGateway == a :> 5 @@ b :> 12 @@ c :> 12
MCRouterIps == r1 :> <<5, 0>> @@ r2 :> <<1, 12>>
MCLink == {<<Port(r1, 1), Port(a, 1)>>,
           <<Port(r1, 2), Port(r2, 1)>>,
           <<Port(r2, 2), Port(b, 1), Port(c, 1)>>}
MCRoutes ==
    r1 :> {R!RouteEntry(0, 0, 1, 2), R!RouteEntry(4, 2, R!Direct, 1),
           R!RouteEntry(12, 2, 1, 2)}
    @@ r2 :> {R!RouteEntry(0, 0, 0, 1), R!RouteEntry(12, 2, R!Direct, 2),
              R!RouteEntry(8, 3, 14, 2)}
MCTraffic ==
    {[src |-> a, dst |-> 13, ttl |-> 3], [src |-> a, dst |-> 10, ttl |-> 4],
     [src |-> a, dst |-> 8, ttl |-> 3],
     [src |-> c, dst |-> 13, ttl |-> 3], [src |-> c, dst |-> 4, ttl |-> 3],
     [src |-> c, dst |-> 13, ttl |-> 0],
     [src |-> b, dst |-> 15, ttl |-> 2]}
=============================================================================
