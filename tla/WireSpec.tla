------------------------------ MODULE WireSpec ------------------------------
(***************************************************************************)
(* A segment's way from one program to another: the number of its first    *)
(* byte is wrapped into 32 bits, an adapter wraps the segment into what    *)
(* its device takes, the wire loses it or damages one byte or cuts it      *)
(* short, other hosts and other programs of the same host send segments of *)
(* their own, an adapter reads what arrives and the receiver unwraps the   *)
(* number around its checkpoint.  The server listens or is connected to    *)
(* the client.  A client on a TAP device asks for the server's Ethernet    *)
(* address first.                                                          *)
(*                                                                         *)
(* Bytes are bytes.  The number space, 2^32 numbers in the program, is the *)
(* first Mod32 numbers of the field, fewer in a run so that it wraps       *)
(* around.                                                                 *)
(***************************************************************************)
EXTENDS Integers, Sequences, FdAdapters

CONSTANTS
    Mod32, Mod64,
    Isns,     \* the initial sequence numbers to try
    MaxAbs    \* bounds the absolute numbers reached

ASSUME WireAssumption ==
    /\ Mod32 \in Nat \ {0} /\ Mod32 % 2 = 0 /\ Mod64 \in Nat
    /\ (Mod32 - 1) \div 16777216 < 256   \* a number fits in the field: Mod32 <= 2^32
    /\ MaxAbs \in Nat /\ MaxAbs + Mod32 < Mod64 \div 2
    /\ Isns \subseteq 0..Mod32 - 1

W == INSTANCE WrappingIntegers

VARIABLES
    isn,
    server, client,   \* their adapters
    up, down,         \* the packets on the way to the server and to the client
    said,             \* the segment sent last: by whom, to whom, and its absolute number
    heard,            \* what the server made of it, and whether it arrived unharmed
    checkpoint        \* cur_idx of the server's reassembler

vars == <<isn, server, client, up, down, said, heard, checkpoint>>

Address(ip, port) == [ip |-> ip, port |-> port]
ServerAddress == Address(<<10, 0, 0, 1>>, <<0, 80>>)
ClientAddress == Address(<<10, 0, 0, 2>>, <<4, 1>>)
AnyAddress == Address(<<0, 0, 0, 0>>, <<0, 0>>)
From == {ClientAddress, Address(<<10, 0, 0, 3>>, <<4, 1>>), Address(<<10, 0, 0, 2>>, <<4, 2>>)}
To == {ServerAddress, Address(<<10, 0, 0, 1>>, <<0, 81>>), Address(<<10, 0, 0, 9>>, <<0, 80>>)}
ServerMac == <<2, 0, 0, 0, 0, 1>>
ClientMac == <<2, 0, 0, 0, 0, 2>>

Connected(kind, source, destination) ==
    NewAdapter(kind, source, destination, FALSE, ClientMac, source.ip, ServerAddress.ip)
Listening(kind) ==
    NewAdapter(kind, [ServerAddress EXCEPT !.ip = <<0, 0, 0, 0>>], AnyAddress, TRUE,
               ServerMac, ServerAddress.ip, ClientAddress.ip)
Serving(kind) ==
    NewAdapter(kind, ServerAddress, ClientAddress, FALSE,
               ServerMac, ServerAddress.ip, ClientAddress.ip)
Knows(a) == [a EXCEPT !.interface = NI!Learn(@, ServerAddress.ip, ServerMac)]

\* A SYN, one with a reset, and bytes; sent with the number of their first byte.
Flags == [syn |-> 2, reset |-> 6, data |-> 24]
Content(kind, n) ==
    [header |-> [NewTCPHeader EXCEPT !.seqno = Bytes32(W!wrap(n, isn)),
                                     !.flags = <<Flags[kind]>>, !.win = <<3, 232>>],
     payload |-> IF kind = "data" THEN <<104, 0, 105>> ELSE <<>>]

Nothing == [seg |-> NoSegment, intact |-> FALSE]
NobodySaid == [from |-> AnyAddress, to |-> AnyAddress, kind |-> "data", n |-> 0]

Init ==
    \E kind \in {"udp", "tun", "tap"} :
        /\ isn \in Isns
        /\ server \in {Listening(kind), Serving(kind)}
        /\ client = Connected(kind, ClientAddress, ServerAddress)
        /\ up = <<>> /\ down = <<>>
        /\ said = NobodySaid /\ heard = Nothing /\ checkpoint = 0

-----------------------------------------------------------------------------
Quiet == up = <<>> /\ down = <<>> /\ heard = Nothing
Saying(from, to, kind, n) == [from |-> from, to |-> to, kind |-> kind, n |-> n]

\* The client writes a segment; one that waits for an ARP reply it can only repeat.
ClientWrites(kind, n) ==
    LET saying == Saying(ClientAddress, ServerAddress, kind, n)
    IN  /\ Quiet /\ (n = 0 <=> kind # "data")
        /\ client.interface.Queuing_List_Map = NI!EmptyMap \/ said = saying
        /\ said' = saying
        /\ \E wrote \in {Write(client, Content(kind, n))} :
               client' = wrote.adapter /\ up' = wrote.packets
        /\ UNCHANGED <<isn, server, down, heard, checkpoint>>

\* Another program, on the client's host or another one, writes to the server or to
\* an address that is not its.
StrangerWrites(from, to, kind) ==
    /\ Quiet /\ <<from, to>> # <<ClientAddress, ServerAddress>>
    /\ client.interface.Queuing_List_Map = NI!EmptyMap
    /\ said' = Saying(from, to, kind, 1)
    /\ up' = Write(Knows(Connected(client.kind, from, to)), Content(kind, 1)).packets
    /\ UNCHANGED <<isn, server, client, down, heard, checkpoint>>

Carrier(packet) == server.kind # "tap" \/ SubSeq(packet.bytes, 13, 14) = TYPE_IPv4

\* One byte altered, or the end missing.  (UDP has a checksum of its own.)
Altered(packet) ==
    {[packet EXCEPT !.bytes[i] = b] : i \in DOMAIN packet.bytes, b \in {0, 255}}
        \union {[packet EXCEPT !.bytes[i] = (@ + 1) % 256] : i \in DOMAIN packet.bytes}
Cut(packet) ==
    {[packet EXCEPT !.bytes = SubSeq(@, 1, k)] : k \in 0..Len(packet.bytes) - 1}
Damaged(packet) ==
    IF server.kind = "udp" \/ ~Carrier(packet) THEN {}
    ELSE (Altered(packet) \union Cut(packet)) \ {packet}

Takes(got, intact) ==
    /\ server' = Sent(got.adapter)
    /\ up' = Tail(up)
    /\ down' = down \o Pending(got.adapter)
    /\ heard' = IF Carrier(Head(up)) THEN [seg |-> got.seg, intact |-> intact] ELSE heard
    /\ UNCHANGED <<isn, client, said, checkpoint>>

ServerReads == up # <<>> /\ Takes(Read(server, Head(up)), TRUE)
ServerReadsDamaged ==
    up # <<>> /\ \E packet \in Damaged(Head(up)) : Takes(Read(server, packet), FALSE)
ServerDrops ==
    up # <<>> /\ MayDrop(server) /\ Takes(Dropped(Read(server, Head(up))), FALSE)

ClientReads ==
    /\ down # <<>>
    /\ \E told \in {Read(client, Head(down)).adapter} :
           client' = Sent(told) /\ up' = up \o Pending(told)
    /\ down' = Tail(down)
    /\ UNCHANGED <<isn, server, said, heard, checkpoint>>

WireLoses ==
    /\ \/ up # <<>> /\ up' = Tail(up) /\ UNCHANGED down
       \/ down # <<>> /\ down' = Tail(down) /\ UNCHANGED up
    /\ UNCHANGED <<isn, server, client, said, heard, checkpoint>>

\* TCPReceiver::segment_received.  The reassembler's index, one less than the absolute
\* number, moves behind the bytes of the segment unless some before them are missing.
Received ==
    W!unwrap(Number(heard.seg[1].header.seqno), isn, checkpoint)
abs_seqno == IF syn(heard.seg[1].header) THEN 1 ELSE Received
stream_index == abs_seqno - 1
Assembled ==
    IF heard.seg = NoSegment THEN {} ELSE {stream_index + Len(heard.seg[1].payload)}
Advance ==
    /\ heard # Nothing
    /\ heard' = Nothing
    /\ checkpoint' \in {checkpoint} \union (Assembled \intersect checkpoint..MaxAbs)
    /\ UNCHANGED <<isn, server, client, up, down, said>>

\* What the client has learned is forgotten.
TimePasses ==
    /\ Quiet
    /\ client' = tick(client, CacheTtl) /\ server' = tick(server, CacheTtl)
    /\ UNCHANGED <<isn, up, down, said, heard, checkpoint>>

Next ==
    \/ \E kind \in DOMAIN Flags, n \in 0..MaxAbs : ClientWrites(kind, n)
    \/ \E from \in From, to \in To, kind \in DOMAIN Flags : StrangerWrites(from, to, kind)
    \/ ServerReads \/ ServerReadsDamaged \/ ServerDrops \/ ClientReads
    \/ WireLoses \/ Advance \/ TimePasses

Spec == Init /\ [][Next]_vars

-----------------------------------------------------------------------------
Distance(a, b) == IF a <= b THEN b - a ELSE a - b

\* What TCPSegment's operator== and the ports tell apart.
Same(a, b) == [a EXCEPT !.header.cksum = <<0, 0>>] = [b EXCEPT !.header.cksum = <<0, 0>>]

\* A segment that gets through is one its peer has sent, whatever was damaged on the
\* way, and its number is the one that was meant, as long as that is less than half
\* the number space from the checkpoint (tcp_segment.cc:15, tcp_over_ip.cc:26,
\* wrapping_integers.cc:34).  The checks of the IPv4 header are not needed for it.
EndToEnd ==
    heard.seg # NoSegment =>
        /\ said.from = server.destination
        /\ Same(heard.seg[1], Addressed(Connected(server.kind, said.from, said.to),
                                     Content(said.kind, said.n)))
        /\ Distance(said.n, checkpoint) < Mod32 \div 2 => Received = said.n

\* What the peer sent to us and nothing harmed gets through, in every format.
PeerIsHeard ==
    (/\ heard.intact /\ said.from = server.destination /\ said.to.port = server.source.port
     /\ server.kind = "udp" \/ said.to.ip = server.source.ip)
        => heard.seg # NoSegment

\* A listening adapter becomes the adapter of the first one that says SYN, and stays
\* that, whoever says SYN later (fd_adapter.cc:37, tcp_over_ip.cc:56).
LockedOn ==
    [][~server.listen => /\ ~server'.listen
                         /\ server'.destination = server.destination
                         /\ server'.source = server.source]_vars

\* wrapping_integers.cc promises "the 64-bit sequence number that wraps to `n` and is
\* closest to `checkpoint`": also where the closest would be negative.
Closest ==
    heard.seg # NoSegment =>
        \A x \in 0..MaxAbs + Mod32 :
            W!wrap(x, isn) = Number(heard.seg[1].header.seqno)
                => Distance(Received, checkpoint) <= Distance(x, checkpoint)
=============================================================================
