------------------------------- MODULE TCPWire -------------------------------
(***************************************************************************)
(* TCPHeader and TCPSegment on the wire (tcp_helpers/tcp_header.hh, .cc,   *)
(* tcp_segment.hh, .cc).  A segment is [header, payload].                  *)
(***************************************************************************)
EXTENDS Integers, Sequences, NetParser

TCPLayout ==
    <<Field("sport", 2), Field("dport", 2), Field("seqno", 4), Field("ackno", 4),
      Field("doff", 1), Field("flags", 1), Field("win", 2), Field("cksum", 2), Field("uptr", 2)>>

NewTCPHeader ==
    [sport |-> <<0, 0>>, dport |-> <<0, 0>>, seqno |-> <<0, 0, 0, 0>>, ackno |-> <<0, 0, 0, 0>>,
     doff |-> <<5 * 16>>, flags |-> <<0>>, win |-> <<0, 0>>, cksum |-> <<0, 0>>, uptr |-> <<0, 0>>]

doff(h) == h.doff[1] \div 16
Flag(h, bit) == (h.flags[1] \div bit) % 2 = 1
syn(h) == Flag(h, 2)
rst(h) == Flag(h, 4)

\* TCPHeader::parse.  Of the bytes of the data offset and of the flags it keeps the
\* bits that mean something.
CheckedTCPHeader(read) ==
    LET h == [read.header EXCEPT !.doff = <<16 * (@[1] \div 16)>>, !.flags = <<@[1] % 64>>]
    IN  IF doff(h) < 5 THEN [p |-> read.p, header |-> h, result |-> "HeaderTooShort"]
        ELSE LET rest == remove_prefix(read.p, 4 * doff(h) - 20)
             IN  [p |-> rest, header |-> h, result |-> rest.error]
TCPHeaderParse(p) == CheckedTCPHeader(ParseFields(p, NewTCPHeader, TCPLayout))

\* Mutant: the checksum is not looked at.
Trusting(buffer, datagram_layer_checksum) == TRUE
ChecksumHolds(buffer, datagram_layer_checksum) == Checksum(datagram_layer_checksum, buffer) = 0

\* TCPSegment::parse: what TCPHeader::parse returns is not looked at.
ParsedSegment(read) ==
    [header |-> read.header, payload |-> read.p.buffer, result |-> read.p.error]
TCPParse(buffer, datagram_layer_checksum) ==
    IF ChecksumHolds(buffer, datagram_layer_checksum)
    THEN ParsedSegment(TCPHeaderParse(Parser(buffer)))
    ELSE [header |-> NewTCPHeader, payload |-> <<>>, result |-> "BadChecksum"]

TCPSerialize(seg, datagram_layer_checksum) ==
    LET options == [i \in 1..4 * doff(seg.header) - 20 |-> 0]
        Whole(cksum) == UnparseFields([seg.header EXCEPT !.cksum = cksum], TCPLayout)
                            \o options \o seg.payload
    IN  Whole(Bytes16(Checksum(datagram_layer_checksum, Whole(<<0, 0>>))))
=============================================================================
