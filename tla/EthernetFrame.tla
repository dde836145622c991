---------------------------- MODULE EthernetFrame ----------------------------
(***************************************************************************)
(* EthernetHeader, EthernetFrame and ARPMessage (tcp_helpers/              *)
(* ethernet_header.cc, ethernet_frame.cc, arp_message.cc), and the way     *)
(* between the frames of module NetworkInterface and bytes on the wire.    *)
(***************************************************************************)
EXTENDS Integers, Sequences, NetParser, IPv4Datagram

EthernetLayout == <<Field("dst", 6), Field("src", 6), Field("type", 2)>>
TYPE_IPv4 == <<8, 0>>
TYPE_ARP == <<8, 6>>

ARPLayout ==
    <<Field("hardware_type", 2), Field("protocol_type", 2), Field("hardware_address_size", 1),
      Field("protocol_address_size", 1), Field("opcode", 2), Field("sender_mac", 6),
      Field("sender_ip", 4), Field("target_mac", 6), Field("target_ip", 4)>>

NoMac == <<0, 0, 0, 0, 0, 0>>
NewARP ==
    [hardware_type |-> <<0, 1>>, protocol_type |-> TYPE_IPv4, hardware_address_size |-> <<6>>,
     protocol_address_size |-> <<4>>, opcode |-> <<0, 0>>, sender_mac |-> NoMac,
     sender_ip |-> <<0, 0, 0, 0>>, target_mac |-> NoMac, target_ip |-> <<0, 0, 0, 0>>]

Opcode == [REQUEST |-> <<0, 1>>, REPLY |-> <<0, 2>>]
supported(arp) ==
    /\ arp.hardware_type = <<0, 1>> /\ arp.protocol_type = TYPE_IPv4
    /\ arp.hardware_address_size = <<6>> /\ arp.protocol_address_size = <<4>>
    /\ arp.opcode \in {Opcode.REQUEST, Opcode.REPLY}

\* ARPMessage::parse.
CheckedARP(size, read) ==
    [arp |-> read.header,
     result |-> CASE size < 28 -> "PacketTooShort"
                  [] size >= 28 /\ ~supported(read.header) -> "Unsupported"
                  [] OTHER -> read.p.error]
ARPParse(buffer) == CheckedARP(Len(buffer), ParseFields(Parser(buffer), NewARP, ARPLayout))

\* EthernetFrame::parse does not look at what EthernetHeader::parse returns: a frame
\* too short for a header keeps the one it was made with, and is taken for good.
NewEthernetHeader == [dst |-> NoMac, src |-> NoMac, type |-> <<0, 0>>]
FrameParse(buffer) ==
    LET read == ParseFields(Parser(buffer), NewEthernetHeader, EthernetLayout)
    IN  IF Len(buffer) < 14 THEN [header |-> NewEthernetHeader, payload |-> buffer]
        ELSE [header |-> read.header, payload |-> read.p.buffer]

\* What NetworkInterface::recv_frame takes a frame for (module NetworkInterface
\* has what it does with it).
Carries(header, arp, dgram) ==
    CASE header.type = TYPE_ARP /\ arp.result = "NoError" ->
           [type |-> "ARP", src |-> header.src, dst |-> header.dst,
            opcode |-> IF arp.arp.opcode = Opcode.REQUEST THEN "REQUEST" ELSE "REPLY",
            sender_ip |-> arp.arp.sender_ip, sender_mac |-> arp.arp.sender_mac,
            target_ip |-> arp.arp.target_ip]
      [] header.type = TYPE_IPv4 /\ dgram.result = "NoError" ->
           [type |-> "IPv4", src |-> header.src, dst |-> header.dst,
            dgram |-> [header |-> dgram.header, payload |-> dgram.payload]]
      [] OTHER -> [type |-> "none", src |-> header.src, dst |-> header.dst]
Understood(frame) == Carries(frame.header, ARPParse(frame.payload), IPv4Parse(frame.payload))

\* The payload of the frames NetworkInterface queues, and EthernetFrame::serialize.
ARPSerialize(frame) ==
    UnparseFields([NewARP EXCEPT
        !.opcode = Opcode[frame.opcode], !.sender_mac = frame.sender_mac,
        !.sender_ip = frame.sender_ip, !.target_ip = frame.target_ip,
        !.target_mac = IF frame.opcode = "REPLY" THEN frame.dst ELSE @], ARPLayout)
FrameSerialize(frame) ==
    LET type == IF frame.type = "ARP" THEN TYPE_ARP ELSE TYPE_IPv4
    IN  UnparseFields([dst |-> frame.dst, src |-> frame.src, type |-> type], EthernetLayout)
            \o (IF frame.type = "ARP" THEN ARPSerialize(frame) ELSE IPv4Serialize(frame.dgram))
=============================================================================
