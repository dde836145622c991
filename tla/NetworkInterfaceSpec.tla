------------------------ MODULE NetworkInterfaceSpec ------------------------
(***************************************************************************)
(* One NetworkInterface on a link with some hosts.  Its owner sends        *)
(* datagrams, numbered in the order of the calls, and takes every frame of *)
(* frames_out() before the next call.  The hosts announce their Ethernet   *)
(* addresses, which may change, with ARP requests and replies, and answer  *)
(* the requests of the interface.                                          *)
(***************************************************************************)
EXTENDS Integers, Sequences, FiniteSets

CONSTANTS
    CacheTtl, RequestWait, Broadcast,
    OurMac, OurIp,
    Host,        \* the IP addresses of the other hosts
    Mac,         \* the Ethernet addresses they may have
    MaxSent      \* bound: datagrams handed to the interface

ASSUME LinkAssumption ==
    /\ CacheTtl \in Nat \ {0} /\ RequestWait \in Nat \ {0} /\ MaxSent \in Nat
    /\ OurIp \notin Host /\ OurMac \notin Mac
    /\ Broadcast \notin Mac \union {OurMac}

NI == INSTANCE NetworkInterface

VARIABLES
    n,          \* the interface
    hop,        \* the next hop of each datagram handed to it so far
    left,       \* the number of times each of them has left in a frame
    heard,      \* the last Ethernet address announced by each host that has
    age,        \* the time since that announcement
    asked       \* the hosts with a request of ours that is not answered
vars == <<n, hop, left, heard, age, asked>>

AtMost(x, limit) == IF x <= limit THEN x ELSE limit

Init ==
    /\ n = NI!New(OurMac, OurIp)
    /\ hop = <<>> /\ left = <<>>
    /\ heard = NI!EmptyMap /\ age = NI!EmptyMap
    /\ asked = {}

Drained == [n EXCEPT !.frames_out = <<>>]

\* The hosts some frames ask about.
Requested(frames) ==
    {frames[i].target_ip : i \in {j \in DOMAIN frames :
                                    frames[j].type = "ARP" /\ frames[j].opcode = "REQUEST"}}

\* What the owner sees of a step: the frames that came out of it.
Observe(sofar) ==
    left' = [d \in DOMAIN sofar |->
                sofar[d] + Cardinality({i \in DOMAIN n'.frames_out :
                    n'.frames_out[i].type = "IPv4" /\ n'.frames_out[i].dgram = d})]

SendDatagram(h) ==
    /\ Len(hop) < MaxSent
    /\ n' = NI!send_datagram(Drained, Len(hop) + 1, h)
    /\ hop' = Append(hop, h)
    /\ Observe(Append(left, 0))
    /\ asked' = asked \union Requested(n'.frames_out)
    /\ UNCHANGED <<heard, age>>

\* Host h, now at mac, sends an ARP message to dst: a request for some address, or
\* a reply.
ArpArrives(h, mac, dst, opcode, target) ==
    /\ n' = NI!recv_frame(Drained, NI!ArpFrame(mac, dst, opcode, h, target))
    /\ Observe(left)
    /\ heard' = IF dst = mac THEN heard ELSE NI!Put(heard, h, mac)
    /\ age' = IF dst = mac THEN age ELSE NI!Put(age, h, 0)
    /\ asked' = IF dst = OurMac THEN asked \ {h} ELSE asked
    /\ UNCHANGED hop

\* Host h answers our request.
Answer(h, mac) == h \in asked /\ ArpArrives(h, mac, OurMac, "REPLY", OurIp)

\* It sends a request to everyone, or a message to another host.
Ask(h, mac) == \E target \in {OurIp, h} : ArpArrives(h, mac, Broadcast, "REQUEST", target)
Overhear(h, mac) == ArpArrives(h, mac, mac, "REPLY", h)

Tick ==
    /\ n' = NI!tick(Drained, 1)
    /\ age' = [h \in DOMAIN age |-> AtMost(age[h] + 1, CacheTtl)]
    /\ UNCHANGED <<hop, left, heard, asked>>

Next ==
    \/ \E h \in Host : SendDatagram(h)
    \/ \E h \in Host, mac \in Mac : Answer(h, mac) \/ Ask(h, mac) \/ Overhear(h, mac)
    \/ Tick

Spec == Init /\ [][Next]_vars

\* Hosts answer the requests that reach them.
FairSpec == Spec /\ \A h \in Host : WF_vars(\E mac \in Mac : Answer(h, mac))

-----------------------------------------------------------------------------

Held == n.Queuing_List_Map
HeldFor(h) == Held[h].queuing_datagrams

\* No datagram is held for a next hop whose address is known: learning a mapping
\* releases what waits for it, and a mapping that expires starts from nothing.
HeldOnlyIfUnknown == DOMAIN n.cache \intersect DOMAIN Held = {}

\* The cache holds exactly what was announced to this interface less than CacheTtl
\* ago, with the newest address of each host: a frame never leaves for an address
\* its host has given up, as far as announcements tell.
CacheIsNews ==
    /\ DOMAIN n.cache = {h \in DOMAIN heard : age[h] < CacheTtl}
    /\ \A h \in DOMAIN n.cache : n.cache[h].MAC_address = heard[h]

\* A datagram leaves at most once, and not while it is still held.
LeavesOnce ==
    /\ \A d \in DOMAIN left : left[d] <= 1
    /\ \A h \in DOMAIN Held : \A i \in DOMAIN HeldFor(h) :
           left[HeldFor(h)[i]] = 0 /\ hop[HeldFor(h)[i]] = h

\* A datagram is held only for a host that has been asked, so that an answer will
\* release it.
HeldWasAsked == DOMAIN Held \subseteq asked

\* A datagram that is held leaves in the end if hosts answer.
HeldLeaves ==
    \A d \in 1..MaxSent :
        (\E h \in DOMAIN Held : \E i \in DOMAIN HeldFor(h) : HeldFor(h)[i] = d)
            ~> (d \in DOMAIN left /\ left[d] = 1)

\* lab6.md: "Again, queue the datagram until you learn the destination Ethernet
\* address": a datagram handed over has left or is held.
NoneDropped ==
    \A d \in DOMAIN hop :
        left[d] = 1 \/ \E h \in DOMAIN Held : \E i \in DOMAIN HeldFor(h) : HeldFor(h)[i] = d
=============================================================================
