---------------------------- MODULE IPv4Datagram ----------------------------
(***************************************************************************)
(* IPv4Header and IPv4Datagram (tcp_helpers/ipv4_header.hh, .cc,           *)
(* ipv4_datagram.hh, .cc).  A datagram is [header, payload].               *)
(***************************************************************************)
EXTENDS Integers, Sequences, NetParser

IPv4Layout ==
    <<Field("verhlen", 1), Field("tos", 1), Field("len", 2), Field("id", 2), Field("fo", 2),
      Field("ttl", 1), Field("proto", 1), Field("cksum", 2), Field("src", 4), Field("dst", 4)>>

\* The members' initializers: version 4, no options, "don't fragment".
NewIPv4Header ==
    [verhlen |-> <<4 * 16 + 5>>, tos |-> <<0>>, len |-> <<0, 0>>, id |-> <<0, 0>>,
     fo |-> <<64, 0>>, ttl |-> <<128>>, proto |-> <<6>>, cksum |-> <<0, 0>>,
     src |-> <<0, 0, 0, 0>>, dst |-> <<0, 0, 0, 0>>]

ver(h) == h.verhlen[1] \div 16
hlen(h) == h.verhlen[1] % 16
payload_length(h) == (Number(h.len) - 4 * hlen(h)) % 65536

pseudo_cksum(h) == Sum(h.src) + Sum(h.dst) + h.proto[1] + payload_length(h)

\* IPv4Header::parse: where it leaves the parser, the header, and what it returns.
\* The options are skipped only when the checks before have passed.
CheckedHeader(p, read) ==
    LET size == Len(p.buffer)
        h == [read.header EXCEPT !.fo = <<@[1] % 128, @[2]>>]
        rest == remove_prefix(read.p, 4 * hlen(h) - 20)
        Result(parser, result) == [p |-> parser, header |-> h, result |-> result]
    IN  IF size < 20
        THEN [p |-> p, header |-> NewIPv4Header, result |-> "PacketTooShort"]
        ELSE IF size < 4 * hlen(h) THEN Result(read.p, "PacketTooShort")
        ELSE IF ver(h) # 4 THEN Result(read.p, "WrongIPVersion")
        ELSE IF hlen(h) < 5 THEN Result(read.p, "HeaderTooShort")
        ELSE IF size # Number(h.len) THEN Result(read.p, "TruncatedPacket")
        ELSE Result(rest, IF Checksum(0, SubSeq(p.buffer, 1, 4 * hlen(h))) # 0
                          THEN "BadChecksum" ELSE "NoError")
IPv4HeaderParse(p) == CheckedHeader(p, ParseFields(p, NewIPv4Header, IPv4Layout))

\* IPv4Datagram::parse: what IPv4Header::parse returns is not looked at.
CheckedDatagram(read) ==
    [header |-> read.header, payload |-> read.p.buffer,
     result |-> IF Len(read.p.buffer) # payload_length(read.header)
                THEN "PacketTooShort" ELSE read.p.error]
IPv4Parse(buffer) == CheckedDatagram(IPv4HeaderParse(Parser(buffer)))

\* A datagram whose header does not fit it is an exception; nothing is written.
IPv4Serialize(d) ==
    LET zero == [d.header EXCEPT !.cksum = <<0, 0>>]
        options == [i \in 1..4 * hlen(zero) - 20 |-> 0]
        sum == Checksum(0, UnparseFields(zero, IPv4Layout) \o options)
        fits == Len(d.payload) = payload_length(zero) /\ ver(zero) = 4 /\ hlen(zero) >= 5
    IN  IF ~fits THEN <<>>
        ELSE UnparseFields([zero EXCEPT !.cksum = Bytes16(sum)], IPv4Layout)
                 \o options \o d.payload
=============================================================================
