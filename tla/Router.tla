------------------------------- MODULE Router -------------------------------
(***************************************************************************)
(* The classes Router and AsyncNetworkInterface (libsponge/router.hh,      *)
(* router.cc).  A router moves the datagrams its interfaces have received  *)
(* to the interface of the route with the longest prefix that matches.     *)
(***************************************************************************)
EXTENDS Integers, Sequences

CONSTANTS
    CacheTtl, RequestWait, Broadcast,
    AddrBits    \* 32: the bits of an IPv4 address

NI == INSTANCE NetworkInterface

\* The next_hop of a route to a network the router is attached to: std::nullopt.
Direct == -1

Datagram(id, dst, ttl) == [id |-> id, dst |-> dst, ttl |-> ttl]

\* AsyncNetworkInterface: a NetworkInterface and the datagrams it has handed up.
NewInterface(mac, ip) == [ni |-> NI!New(mac, ip), datagrams_out |-> <<>>]

recv_frame(i, frame) ==
    [ni |-> NI!recv_frame(i.ni, frame),
     datagrams_out |-> IF NI!ForUs(i.ni, frame) /\ frame.type = "IPv4"
                       THEN Append(i.datagrams_out, frame.dgram) ELSE i.datagrams_out]

send_datagram(i, dgram, next_hop) ==
    [i EXCEPT !.ni = NI!send_datagram(@, dgram, next_hop)]

RouteEntry(route_prefix, prefix_length, next_hop, interface_num) ==
    [route_prefix |-> route_prefix, prefix_length |-> prefix_length,
     next_hop |-> next_hop, interface_num |-> interface_num]

\* A router with the given interfaces, numbered from 1, and no route.
New(interfaces) == [interfaces |-> interfaces, routing_table |-> <<>>]

add_route(r, entry) == [r EXCEPT !.routing_table = Append(@, entry)]

\* The number of addresses that differ in their last n bits only.
Block[n \in 0..AddrBits] == IF n = 0 THEN 1 ELSE 2 * Block[n - 1]

\* dst & mask == _route_prefix, the mask having prefix_length leading ones.
Matches(entry, dst) ==
    LET block == Block[AddrBits - entry.prefix_length]
    IN  (dst \div block) * block = entry.route_prefix

\* A matching entry replaces the one found before it only if it is longer.
\* Mutant: always.
Replaces(entry, found) == TRUE
Longer(entry, found) == found.prefix_length < entry.prefix_length

\* The index of the entry to use for dst, 0 if there is none.
match_num(table, dst) ==
    LET best[i \in 0..Len(table)] ==
            IF i = 0 THEN 0
            ELSE IF /\ Matches(table[i], dst)
                    /\ best[i - 1] = 0 \/ Longer(table[i], table[best[i - 1]])
            THEN i ELSE best[i - 1]
    IN  best[Len(table)]

\* Mutants: a datagram is dropped one hop early, or one late; it does not age.
ExpiresLate(dgram) == dgram.ttl < 1
ExpiresEarly(dgram) == dgram.ttl <= 2
Expires(dgram) == dgram.ttl <= 1
NotAged(dgram) == dgram
Aged(dgram) == [dgram EXCEPT !.ttl = (@ - 1) % 256]   \* uint8_t

route_one_datagram(r, dgram) ==
    LET m == match_num(r.routing_table, dgram.dst)
        entry == r.routing_table[m]
        next_hop == IF entry.next_hop = Direct THEN dgram.dst ELSE entry.next_hop
    IN  IF Expires(dgram) \/ m = 0 THEN r
        ELSE [r EXCEPT !.interfaces[entry.interface_num] =
                            send_datagram(@, Aged(dgram), next_hop)]

\* Routing a datagram queues frames and no datagrams, so that the loop over a queue
\* sees exactly what is queued at its start.
route_queue(r, num) ==
    LET queue == r.interfaces[num].datagrams_out
        routed[n \in 0..Len(queue)] ==
            IF n = 0 THEN [r EXCEPT !.interfaces[num].datagrams_out = <<>>]
            ELSE route_one_datagram(routed[n - 1], queue[n])
    IN  routed[Len(queue)]

route(r) ==
    LET routed[num \in 0..Len(r.interfaces)] ==
            IF num = 0 THEN r ELSE route_queue(routed[num - 1], num)
    IN  routed[Len(r.interfaces)]
=============================================================================
