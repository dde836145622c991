----------------------------- MODULE FdAdapters -----------------------------
(***************************************************************************)
(* The adapters between a TCPConnection and a device: segments in UDP      *)
(* payloads (tcp_helpers/fd_adapter.hh, .cc), in IPv4 datagrams on a TUN   *)
(* device and in Ethernet frames on a TAP device (tcp_over_ip.cc,          *)
(* tuntap_adapter.hh, .cc), and the lossy one around the first two.        *)
(*                                                                         *)
(* An adapter is a record: its kind, the two addresses of its config, the  *)
(* _listen flag and, for a TAP device, a NetworkInterface and the next     *)
(* hop.  An address is [ip, port].  A packet is what the device reads or   *)
(* writes: bytes, and for UDP the address they come from.                  *)
(***************************************************************************)
EXTENDS Integers, Sequences, NetParser, IPv4Datagram, TCPWire, EthernetFrame

CONSTANTS CacheTtl, RequestWait

Broadcast == <<255, 255, 255, 255, 255, 255>>
NI == INSTANCE NetworkInterface

NewAdapter(kind, source, destination, listen, mac, ip, next_hop) ==
    [kind |-> kind, source |-> source, destination |-> destination, listen |-> listen,
     interface |-> NI!New(mac, ip), next_hop |-> next_hop]

\* An optional segment.
NoSegment == <<>>

\* Mutant: the adapter listens for ever.
ListensOn(a) == TRUE
listening(a) == a.listen

\* The first SYN decides whom a listening adapter talks to from now on.
LockOn(a, ours, theirs) ==
    [a EXCEPT !.source = ours, !.destination = theirs, !.listen = FALSE]
Opens(seg) == syn(seg.header) /\ ~rst(seg.header)

\* The result of a read: the adapter and the segment, if it is one for this connection.
Got(a, seg) == [adapter |-> a, seg |-> seg]
Segment(parsed) == <<[header |-> parsed.header, payload |-> parsed.payload]>>

\* TCPOverUDPSocketAdapter::read, of a payload that is parsed.
ReadUdp(a, from, seg) ==
    IF \/ ~listening(a) /\ from # a.destination
       \/ seg.result # "NoError"
       \/ listening(a) /\ ~Opens(seg)
    THEN Got(a, NoSegment)
    ELSE Got(IF listening(a) THEN LockOn(a, a.source, from) ELSE a, Segment(seg))

\* TCPOverIPv4Adapter::unwrap_tcp_in_ip, of a payload that is parsed.
Filtered(a, ip, seg) ==
    LET ours == [ip |-> ip.dst, port |-> a.source.port]
        theirs == [ip |-> ip.src, port |-> seg.header.sport]
    IN  IF \/ ~listening(a) /\ (ip.dst # a.source.ip \/ theirs # a.destination)
           \/ ip.proto # <<6>> \/ seg.result # "NoError"
           \/ seg.header.dport # a.source.port
           \/ listening(a) /\ ~Opens(seg)
        THEN Got(a, NoSegment)
        ELSE Got(IF listening(a) THEN LockOn(a, ours, theirs) ELSE a, Segment(seg))
unwrap_tcp_in_ip(a, d) ==
    Filtered(a, d.header, TCPParse(d.payload, pseudo_cksum(d.header)))

\* Mutant: the length of the datagram forgets its own header.
PayloadOnly(seg) == 4 * doff(seg.header) + Len(seg.payload)
DatagramLength(seg) == 4 * hlen(NewIPv4Header) + 4 * doff(seg.header) + Len(seg.payload)

Addressed(a, seg) ==
    [seg EXCEPT !.header.sport = a.source.port, !.header.dport = a.destination.port]
wrap_tcp_in_ip(a, seg) ==
    LET h == [NewIPv4Header EXCEPT !.src = a.source.ip, !.dst = a.destination.ip,
                                   !.len = Bytes16(DatagramLength(seg))]
    IN  [header |-> h, payload |-> TCPSerialize(Addressed(a, seg), pseudo_cksum(h))]

\* send_pending: the adapter with nothing left to send, and the packets.
Packet(a, bytes) == [from |-> a.source, bytes |-> bytes]
Sent(a) == [a EXCEPT !.interface.frames_out = <<>>]
Pending(a) == [i \in DOMAIN a.interface.frames_out |->
                   Packet(a, FrameSerialize(a.interface.frames_out[i]))]

\* TCPOverIPv4OverEthernetAdapter::read.  The frame may be one the NetworkInterface
\* answers; a datagram is handed up if the frame was addressed to it.
ReadTap(a, understood) ==
    LET told == [a EXCEPT !.interface = NI!recv_frame(@, understood)]
    IN  IF understood.type = "IPv4" /\ NI!ForUs(a.interface, understood)
        THEN unwrap_tcp_in_ip(told, understood.dgram)
        ELSE Got(told, NoSegment)

ReadTun(a, dgram) ==
    IF dgram.result = "NoError" THEN unwrap_tcp_in_ip(a, dgram) ELSE Got(a, NoSegment)

\* read of every kind.
Read(a, packet) ==
    CASE a.kind = "udp" -> ReadUdp(a, packet.from, TCPParse(packet.bytes, 0))
      [] a.kind = "tun" -> ReadTun(a, IPv4Parse(packet.bytes))
      [] a.kind = "tap" -> ReadTap(a, Understood(FrameParse(packet.bytes)))

\* LossyFdAdapter::read drops what the adapter inside it has read: the adapter has
\* locked on to a peer all the same.  There is none around a TAP device.
MayDrop(a) == a.kind # "tap"
Dropped(got) == Got(got.adapter, NoSegment)

\* write of every kind: the adapter, with its frames pending for a TAP device, and the
\* packets of the others.
Wrote(a, packets) == [adapter |-> a, packets |-> packets]
SendsPending(a) == Wrote(Sent(a), Pending(a))
Write(a, seg) ==
    CASE a.kind = "udp" -> Wrote(a, <<Packet(a, TCPSerialize(Addressed(a, seg), 0))>>)
      [] a.kind = "tun" -> Wrote(a, <<Packet(a, IPv4Serialize(wrap_tcp_in_ip(a, seg)))>>)
      [] a.kind = "tap" ->
           SendsPending([a EXCEPT !.interface =
                             NI!send_datagram(@, wrap_tcp_in_ip(a, seg), a.next_hop)])

tick(a, ms) == [a EXCEPT !.interface = NI!tick(@, ms)]
=============================================================================
