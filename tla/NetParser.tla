------------------------------ MODULE NetParser ------------------------------
(***************************************************************************)
(* NetParser, NetUnparser and InternetChecksum (libsponge/util/parser.hh,  *)
(* .cc, util.cc).  A header is a record of fields, a field the sequence of *)
(* its bytes in network order; a layout lists the fields of a header with  *)
(* their widths, in the order in which the code reads and writes them.     *)
(***************************************************************************)
EXTENDS Integers, Sequences, SequencesExt

\* _parse_int and _unparse_int.
Number(bytes) == FoldLeft(LAMBDA value, byte : 256 * value + byte, 0, bytes)
Bytes16(value) == <<value \div 256, value % 256>>
Bytes32(value) == Bytes16(value \div 65536) \o Bytes16(value % 65536)

Parser(buffer) == [buffer |-> buffer, error |-> "NoError"]

\* The first error stays, and a parser with an error stands still.
check_size(p, size) == IF size > Len(p.buffer) THEN [p EXCEPT !.error = "PacketTooShort"] ELSE p
remove_prefix(p, n) ==
    LET q == check_size(p, n)
    IN  IF q.error # "NoError" THEN q
        ELSE [q EXCEPT !.buffer = SubSeq(@, n + 1, Len(@))]

\* The value of the next integer of a width, zero after an error.
Peek(p, width) ==
    IF check_size(p, width).error = "NoError" THEN SubSeq(p.buffer, 1, width)
    ELSE [i \in 1..width |-> 0]

\* Reads the fields of a layout into the header that is given.
ParseFields(p, header, layout) ==
    FoldLeft(LAMBDA sofar, f :
                 [p |-> remove_prefix(sofar.p, f.width),
                  header |-> [sofar.header EXCEPT ![f.name] = Peek(sofar.p, f.width)]],
             [p |-> p, header |-> header], layout)

UnparseFields(header, layout) ==
    FlattenSeq([i \in DOMAIN layout |-> header[layout[i].name]])

Field(name, width) == [name |-> name, width |-> width]

\* InternetChecksum: bytes are added as the high and the low half of 16-bit words in
\* turn, and the carries are added until there is none.
Sum(bytes) ==
    FoldLeft(LAMBDA acc, byte :
                 [sum |-> acc.sum + (IF acc.parity THEN byte ELSE 256 * byte),
                  parity |-> ~acc.parity],
             [sum |-> 0, parity |-> FALSE], bytes).sum
Checksum(initial_sum, bytes) ==
    LET sum == initial_sum + Sum(bytes)
    IN  65535 - (IF sum = 0 THEN 0 ELSE ((sum - 1) % 65535) + 1)
=============================================================================
