-------------------------- MODULE NetworkInterface --------------------------
(***************************************************************************)
(* The class NetworkInterface (libsponge/network_interface.hh, .cc): it    *)
(* sends IP datagrams in Ethernet frames, learns with ARP the Ethernet     *)
(* address of the next hop, keeps what it has learned for CacheTtl and     *)
(* holds datagrams for a next hop it has asked about.  A std::map is a     *)
(* function on the keys it holds.                                          *)
(***************************************************************************)
EXTENDS Integers, Sequences

CONSTANTS
    CacheTtl,       \* 30000 ms: how long a mapping is kept
    RequestWait,    \* 5000 ms: no second request for an address before that
    Broadcast       \* ETHERNET_BROADCAST

EmptyMap == [k \in {} |-> k]
Put(map, key, value) ==
    [k \in DOMAIN map \union {key} |-> IF k = key THEN value ELSE map[k]]
Erase(map, keys) == [k \in DOMAIN map \ keys |-> map[k]]

New(mac, ip) ==
    [ethernet_address |-> mac, ip_address |-> ip, frames_out |-> <<>>,
     cache |-> EmptyMap, Queuing_List_Map |-> EmptyMap]

\* Frames: an IPv4 datagram, or an ARP message.
Ipv4Frame(src, dst, dgram) ==
    [type |-> "IPv4", src |-> src, dst |-> dst, dgram |-> dgram]
ArpFrame(src, dst, opcode, sender_ip, target_ip) ==
    [type |-> "ARP", src |-> src, dst |-> dst, opcode |-> opcode,
     sender_ip |-> sender_ip, sender_mac |-> src, target_ip |-> target_ip]

send_datagram_handler(n, dgram, mac) ==
    [n EXCEPT !.frames_out = Append(@, Ipv4Frame(n.ethernet_address, mac, dgram))]

send_ARP(n, opcode, mac, ip) ==
    [n EXCEPT !.frames_out =
        Append(@, ArpFrame(n.ethernet_address, mac, opcode, n.ip_address, ip))]

\* Mutant: the request is forgotten.
RequestForgotten(n, ip) == n
RequestFor(n, ip) == send_ARP(n, "REQUEST", Broadcast, ip)

\* No second request within RequestWait of the first.
MayAskAgain(list) == list.time_since_last_ARP_req >= RequestWait

\* A second datagram for an address is pushed on a copy of the address's list,
\* which is dropped; and asking again does not restart the list's clock.
send_datagram(n, dgram, next_hop) ==
    IF next_hop \in DOMAIN n.cache
    THEN send_datagram_handler(n, dgram, n.cache[next_hop].MAC_address)
    ELSE IF next_hop \in DOMAIN n.Queuing_List_Map
    THEN IF MayAskAgain(n.Queuing_List_Map[next_hop]) THEN RequestFor(n, next_hop) ELSE n
    ELSE RequestFor([n EXCEPT !.Queuing_List_Map =
            Put(@, next_hop, [time_since_last_ARP_req |-> 0,
                              queuing_datagrams |-> <<dgram>>])], next_hop)

\* Mutant: a mapping that is already cached is not updated.
LearnOnce(n, ip, mac) ==
    IF ip \in DOMAIN n.cache THEN n
    ELSE [n EXCEPT !.cache = Put(@, ip, [time_caching |-> 0, MAC_address |-> mac])]
Learn(n, ip, mac) ==
    [n EXCEPT !.cache = Put(@, ip, [time_caching |-> 0, MAC_address |-> mac])]

\* Mutants: the list is erased with the datagrams in it; the list stays in the map
\* after its datagrams were sent.
FlushDropsList(n, ip, mac) ==
    [n EXCEPT !.Queuing_List_Map = Erase(@, {ip})]
FlushKeepsList(n, ip, mac) ==
    IF ip \notin DOMAIN n.Queuing_List_Map THEN n
    ELSE LET held == n.Queuing_List_Map[ip].queuing_datagrams
         IN  [n EXCEPT !.frames_out = @ \o
                  [i \in DOMAIN held |-> Ipv4Frame(n.ethernet_address, mac, held[i])]]
Flush(n, ip, mac) ==
    IF ip \notin DOMAIN n.Queuing_List_Map THEN n
    ELSE LET held == n.Queuing_List_Map[ip].queuing_datagrams
         IN  [n EXCEPT !.frames_out = @ \o
                  [i \in DOMAIN held |-> Ipv4Frame(n.ethernet_address, mac, held[i])],
                       !.Queuing_List_Map = Erase(@, {ip})]

Reply(n, frame) ==
    IF frame.opcode = "REQUEST" /\ frame.target_ip = n.ip_address
    THEN send_ARP(n, "REPLY", frame.sender_mac, frame.sender_ip)
    ELSE n

\* Mutant: frames for other hosts of the link are taken too.
ForAnyone(n, frame) == TRUE
ForUs(n, frame) == frame.dst \in {n.ethernet_address, Broadcast}

\* An IPv4 frame is handed up and changes nothing here.
recv_frame(n, frame) ==
    IF ~ForUs(n, frame) \/ frame.type # "ARP" THEN n
    ELSE Reply(Flush(Learn(n, frame.sender_ip, frame.sender_mac),
                     frame.sender_ip, frame.sender_mac), frame)

Expired(entry, ms) == entry.time_caching + ms >= CacheTtl

Older(entry, ms) == [entry EXCEPT !.time_caching = @ + ms]

\* A list's clock is compared with RequestWait and nothing else: it stops there.
Later(list, ms) ==
    [list EXCEPT !.time_since_last_ARP_req =
        IF @ + ms <= RequestWait THEN @ + ms ELSE RequestWait]

tick(n, ms) ==
    LET old == {ip \in DOMAIN n.cache : Expired(n.cache[ip], ms)}
    IN  [n EXCEPT
            !.cache = [ip \in DOMAIN @ \ old |-> Older(@[ip], ms)],
            !.Queuing_List_Map = [ip \in DOMAIN @ |-> Later(@[ip], ms)]]
=============================================================================
