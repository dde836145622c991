--------------------------- MODULE RouterNetwork ---------------------------
(***************************************************************************)
(* Routers and hosts joined by links, as apps/network_simulator.cc builds  *)
(* and drives them (there with one router): a host sends datagrams to its  *)
(* next hop and takes what it is handed; a router is given its routes, by  *)
(* the constructor of Network, and then told to route; the frames queued   *)
(* at the ports of a link are exchanged.  The simulator takes these steps  *)
(* in a fixed order, this specification in any.  No time passes: nothing   *)
(* there calls tick.                                                       *)
(***************************************************************************)
EXTENDS Integers, Sequences, FiniteSets, SequencesExt

CONSTANTS
    CacheTtl, RequestWait, Broadcast, AddrBits,
    Host, Routers,     \* names
    HostIp,            \* the address of each host ...
    Gateway,           \* ... and its next hop
    RouterIps,         \* the addresses of the interfaces of each router, in order
    Link,              \* the links: sequences of ports [node, num]
    Routes,            \* the routes each router is given, in any order
    Traffic,           \* the datagrams a host may send: [src, dst, ttl]
    MaxSent            \* bound: datagrams sent

R == INSTANCE Router

Addr == 0..R!Block[AddrBits] - 1

\* The Ethernet address of an interface is its port: they are all different.
Port(node, num) == [node |-> node, num |-> num]
Mac ==
    {Port(h, 1) : h \in Host}
    \union UNION {{Port(r, i) : i \in DOMAIN RouterIps[r]} : r \in Routers}

ASSUME NetworkAssumption ==
    /\ AddrBits \in Nat /\ MaxSent \in Nat /\ Host \intersect Routers = {}
    /\ HostIp \in [Host -> Addr] /\ Gateway \in [Host -> Addr]
    /\ RouterIps \in [Routers -> Seq(Addr)]
    /\ \A r \in Routers : \A e \in Routes[r] :
           e \in [route_prefix : Addr, prefix_length : 0..AddrBits,
                 next_hop : Addr \union {R!Direct}, interface_num : DOMAIN RouterIps[r]]
    /\ \A t \in Traffic : t \in [src : Host, dst : Addr, ttl : 0..255]
    /\ \A link \in Link : link \in Seq(Mac) /\ IsInjective(link)   \* of different ports
    /\ Broadcast \notin Mac

VARIABLES
    host,     \* the AsyncNetworkInterface of each host
    router,   \* the Router of each router
    sent,     \* the datagrams sent, in order
    got       \* the datagrams hosts have taken, in order, with the host
vars == <<host, router, sent, got>>

Init ==
    /\ host = [h \in Host |-> R!NewInterface(Port(h, 1), HostIp[h])]
    /\ router = [r \in Routers |->
                    R!New([i \in DOMAIN RouterIps[r] |->
                              R!NewInterface(Port(r, i), RouterIps[r][i])])]
    /\ sent = <<>> /\ got = <<>>

Known(r) == ToSet(router[r].routing_table)
Ready == \A r \in Routers : Known(r) = Routes[r]

\* Router::add_route
AddRoute(r) ==
    /\ \E e \in Routes[r] \ Known(r) :
           router' = [router EXCEPT ![r] = R!add_route(@, e)]
    /\ UNCHANGED <<host, sent, got>>

\* Host::send_to
SendTo(t) ==
    /\ Ready /\ Len(sent) < MaxSent
    /\ host' = [host EXCEPT ![t.src] =
                    R!send_datagram(@, R!Datagram(Len(sent) + 1, t.dst, t.ttl), Gateway[t.src])]
    /\ sent' = Append(sent, [dst |-> t.dst, ttl |-> t.ttl])
    /\ UNCHANGED <<router, got>>

\* Host::check takes the datagrams the host has received.
CanCheck(h) == host[h].datagrams_out # <<>>
Check(h) ==
    /\ CanCheck(h)
    /\ got' = got \o [i \in DOMAIN host[h].datagrams_out |->
                         [dgram |-> host[h].datagrams_out[i], by |-> h]]
    /\ host' = [host EXCEPT ![h].datagrams_out = <<>>]
    /\ UNCHANGED <<router, sent>>

\* Router::route
CanRoute(r) ==
    \E i \in DOMAIN router[r].interfaces : router[r].interfaces[i].datagrams_out # <<>>
Route(r) ==
    /\ CanRoute(r)
    /\ router' = [router EXCEPT ![r] = R!route(@)]
    /\ UNCHANGED <<host, sent, got>>

Interface(p) == IF p.node \in Host THEN host[p.node] ELSE router[p.node].interfaces[p.num]
Frames(p) == Interface(p).ni.frames_out

\* deliver: an interface is given the frames of another one, in order.
deliver(frames, i) ==
    LET after[n \in 0..Len(frames)] ==
            IF n = 0 THEN i ELSE R!recv_frame(after[n - 1], frames[n])
    IN  after[Len(frames)]

\* exchange_frames: every port is given the frames the others had queued, and keeps
\* the ones it queues in answer.
Exchanged(p, link) ==
    LET after[n \in 0..Len(link)] ==
            IF n = 0 THEN Interface(p)
            ELSE IF link[n] = p THEN after[n - 1] ELSE deliver(Frames(link[n]), after[n - 1])
    IN  [after[Len(link)] EXCEPT !.ni.frames_out = SubSeq(@, Len(Frames(p)) + 1, Len(@))]

CanExchange(link) == \E p \in ToSet(link) : Frames(p) # <<>>
Exchange(link) ==
    LET On(p) == p \in ToSet(link)
    IN  /\ CanExchange(link)
        /\ host' = [h \in Host |->
                       IF On(Port(h, 1)) THEN Exchanged(Port(h, 1), link) ELSE host[h]]
        /\ router' = [r \in Routers |-> [router[r] EXCEPT !.interfaces =
                         [i \in DOMAIN @ |->
                             IF On(Port(r, i)) THEN Exchanged(Port(r, i), link) ELSE @[i]]]]
        /\ UNCHANGED <<sent, got>>

Next ==
    \/ \E r \in Routers : AddRoute(r) \/ Route(r)
    \/ \E t \in Traffic : SendTo(t)
    \/ \E h \in Host : Check(h)
    \/ \E link \in Link : Exchange(link)

Spec == Init /\ [][Next]_vars

\* simulate() routes, exchanges and checks again and again.  Each conjunct is the
\* weak fairness of an action, with the action's guard in place of ENABLED.
Fairness ==
    /\ \A r \in Routers : <>[]CanRoute(r) => []<><<Route(r)>>_vars
    /\ \A h \in Host : <>[]CanCheck(h) => []<><<Check(h)>>_vars
    /\ \A link \in Link : <>[]CanExchange(link) => []<><<Exchange(link)>>_vars

FairSpec == Spec /\ Fairness

-----------------------------------------------------------------------------

\* The frames with datagrams queued at an interface, the datagrams under way there, and
\* the ones it holds.
Framing(i) == {f \in ToSet(i.ni.frames_out) : f.type = "IPv4"}
Moving(i) == ToSet(i.datagrams_out) \union {f.dgram : f \in Framing(i)}
Holding(i) ==
    LET map == i.ni.Queuing_List_Map
    IN  UNION {ToSet(map[ip].queuing_datagrams) : ip \in DOMAIN map}

\* A ttl as it may be before the first router, and after one.
Living(d) == d.ttl <= sent[d.id].ttl /\ (d.ttl = 0 => sent[d.id].ttl = 0)
Aging(d) == d.ttl \in 1..sent[d.id].ttl - 1
LivesIn(p) ==
    LET i == Interface(p)
    IN  /\ \A d \in Moving(i) \union Holding(i) : Living(d)
        /\ \A f \in Framing(i) : f.src.node \in Routers => Aging(f.dgram)
        /\ \A d \in Holding(i) : p.node \in Routers => Aging(d)

\* Whatever ttl a datagram was sent with, zero included (the simulator does): it never
\* has more, it is never down to zero, and what has passed a router has lost some: the
\* test of the ttl in route_one_datagram comes before it is decremented, a byte.
NeverSpent == \A p \in Mac : LivesIn(p)

\* add_route: "how many high-order (most-significant) bits of the route_prefix will need
\* to match the corresponding bits of the datagram's destination address".
IsFor(entry, dst) ==
    LET block == R!Block[AddrBits - entry.prefix_length]
    IN  dst \div block = entry.route_prefix \div block

\* The prefix has no bit set beyond its length.  The code compares the whole prefix, so
\* an entry that is not proper never matches.
Proper(entry) == entry.route_prefix % R!Block[AddrBits - entry.prefix_length] = 0
ProperRoutes == \A r \in Routers : \A e \in Routes[r] : Proper(e)

FindsLongest(table, dst) ==
    LET fitting == {i \in DOMAIN table : IsFor(table[i], dst)}
        m == R!match_num(table, dst)
    IN  IF fitting = {} THEN m = 0
        ELSE /\ m \in fitting
             /\ \A i \in fitting : table[i].prefix_length <= table[m].prefix_length

\* The loop of route_one_datagram finds a longest entry for the destination, in
\* whatever order the routes were added, and nothing only if there is none.  True if
\* the routes are proper.
LongestPrefix ==
    \A r \in Routers, dst \in Addr : FindsLongest(router[r].routing_table, dst)

\* The places where the datagram d is: the queues of the ports, the lists of those held
\* and what the hosts have taken.
Places(d) ==
    LET In(p) == Interface(p).datagrams_out
        Held(p) == Interface(p).ni.Queuing_List_Map
        List(p, ip) == Held(p)[ip].queuing_datagrams
        queued == UNION {{<<p, "queue", k>> : k \in {k \in DOMAIN In(p) : In(p)[k].id = d}} :
                            p \in Mac}
        frames == UNION {{<<p, "frame", k>> : k \in {k \in DOMAIN Frames(p) :
                                Frames(p)[k].type = "IPv4" /\ Frames(p)[k].dgram.id = d}} :
                            p \in Mac}
        held == UNION {UNION {{<<p, "held", <<ip, k>>>> : k \in {k \in DOMAIN List(p, ip) :
                                List(p, ip)[k].id = d}} : ip \in DOMAIN Held(p)} :
                            p \in Mac}
        taken == {<<Port(got[i].by, 1), "taken", i>> : i \in {i \in DOMAIN got : got[i].dgram.id = d}}
    IN  queued \union frames \union held \union taken

\* Forwarding never makes two datagrams of one, though every frame is shown to all
\* ports of a link.
OneCopy == \A d \in DOMAIN sent : \A x, y \in Places(d) : x = y

\* A host is only ever handed datagrams for its own address, or, if its address is
\* somebody's next hop, those that were sent there.
NextHops ==
    {Gateway[h] : h \in Host} \union UNION {{e.next_hop : e \in Routes[r]} : r \in Routers}
RightHost ==
    \A i \in DOMAIN got : HostIp[got[i].by] \in {got[i].dgram.dst} \union NextHops

\* A datagram does not travel for ever, whatever loops the routes make: from some
\* time on each one has been taken, dropped, or is held for a next hop that does
\* not answer.
Settles == <>[](\A p \in Mac : Moving(Interface(p)) = {})

\* Datagrams with a ttl above the number of routers get through: as long as all
\* traffic is for one host, at least one datagram reaches it (one that finds
\* another held for the same next hop is dropped by NetworkInterface).
OnlyFor(h) ==
    /\ sent # <<>>
    /\ \A d \in DOMAIN sent : sent[d].dst = HostIp[h] /\ sent[d].ttl > Cardinality(Routers)
SomeArrive ==
    \A h \in Host : OnlyFor(h) ~> (\/ ~OnlyFor(h)
                                   \/ \E i \in DOMAIN got : got[i].by = h)
=============================================================================
