--------------------------- MODULE TCPSpongeSocket ---------------------------
(***************************************************************************)
(* The TCP thread of a TCPSpongeSocket (tcp_helpers/tcp_sponge_socket.hh,  *)
(* .cc): the four rules of its event loop, between the network and the     *)
(* socket pair it shares with the owner.                                   *)
(*                                                                         *)
(* The TCPConnection is what the thread sees of it: how far the handshake  *)
(* is, the outbound and the inbound ByteStream, whether something is in    *)
(* flight, whether it is active and whether segments wait to be sent (the  *)
(* modules TCPConnection and TCPPair have the rest).  A segment is the     *)
(* kind of news it brings; bytes come in order and once, as the            *)
(* reassembler hands them on, but the FIN may overtake them.  Crossing     *)
(* SYNs and retransmissions are left to TCPPair.  The peer's bytes are     *)
(* numbered from 1.                                                        *)
(***************************************************************************)
EXTENDS Integers, Sequences

CONSTANTS
    SockCap, SendCapacity, RecvCapacity,
    PeerBytes   \* how many bytes the peer has to say

BS == INSTANCE ByteStream
SP == INSTANCE SocketPair

\* _initialize_TCP
FromNet == [fd |-> "adapter", direction |-> "In"]
FromOwner == [fd |-> "thread", direction |-> "In"]
ToOwner == [fd |-> "thread", direction |-> "Out"]
ToNet == [fd |-> "adapter", direction |-> "Out"]
Rules == <<FromNet, FromOwner, ToOwner, ToNet>>

\* The connection once connect() has queued its SYN, or while it listens.
Opening(role) ==
    [state |-> IF role = "connect" THEN "SYN_SENT" ELSE "LISTEN",
     out |-> BS!New(SendCapacity), in |-> BS!New(RecvCapacity),
     in_flight |-> role = "connect", fin_sent |-> FALSE, fin_heard |-> FALSE,
     linger |-> TRUE, active |-> TRUE, segments |-> role = "connect"]

New(role) == [conn |-> Opening(role), eof |-> FALSE,
              outbound_shutdown |-> FALSE, inbound_shutdown |-> FALSE]

\* The condition of _tcp_loop in connect() and in listen_and_accept().
Handshaking(c) == c.active /\ c.state # "OPEN"

Reset(c) ==
    [c EXCEPT !.out = BS!set_error(@), !.in = BS!set_error(@), !.active = FALSE]

\* Mutant: the peer's stream is not looked at.
FinishedAlone(c) == c.fin_sent /\ ~c.in_flight

\* Both streams are done; the end that closes last does not linger.
Finished(c) == c.fin_sent /\ ~c.in_flight /\ BS!input_ended(c.in)
clean_shutdown(c) ==
    LET linger == c.linger /\ ~(~BS!eof(c.out) /\ BS!input_ended(c.in))
    IN  [c EXCEPT !.linger = linger, !.active = @ /\ ~(Finished(c) /\ ~linger)]

\* fill_window of a window of which one flight is known: what the outbound stream
\* holds, and its end, leave together when all that left before is acknowledged.
fill_window(c) ==
    IF /\ c.state = "OPEN" /\ ~c.in_flight
       /\ ~BS!buffer_empty(c.out) \/ (BS!input_ended(c.out) /\ ~c.fin_sent)
    THEN [c EXCEPT !.out = BS!pop_output(@, BS!buffer_size(@)), !.in_flight = TRUE,
                   !.fin_sent = BS!input_ended(c.out), !.segments = TRUE]
    ELSE c
Send(c) == clean_shutdown(fill_window(c))

\* The news a segment may bring: a SYN, as many of the peer's bytes as fit the
\* window, its first FIN, the acknowledgment of our flight, a reset, or nothing, if
\* the adapter takes it for somebody else's.  A listening adapter takes nothing but a
\* SYN.  The FIN has no payload and may overtake bytes, which then come late or never.
Missing(c) == PeerBytes - c.in.write_bytes
Window(c) == BS!AtMost(BS!remaining_capacity(c.in), Missing(c))
NextBytes(c) == [i \in 1..Window(c) |-> c.in.write_bytes + i]
Possible(c, news) ==
    CASE news = "syn" -> c.state \in {"LISTEN", "SYN_SENT"} /\ ~c.segments
      [] news = "data" -> c.state = "OPEN" /\ Window(c) > 0
      [] news = "fin" -> c.state = "OPEN" /\ ~c.fin_heard
      [] news = "ack" -> c.state \in {"SYN_RCVD", "OPEN"} /\ c.in_flight /\ ~c.segments
      [] news = "rst" -> c.state # "LISTEN"
      [] OTHER -> TRUE

\* What TCPReceiver and StreamReassembler make of the peer's bytes and of its FIN.  A
\* FIN beyond the window is remembered until the bytes have come up to it; any other
\* ends the stream at once, although bytes before it may be missing, and bytes that
\* come later are written all the same.
Hears(c, bytes) ==
    LET in == BS!write(c.in, bytes)
    IN  [c EXCEPT !.in = IF c.fin_heard /\ in.write_bytes = PeerBytes
                         THEN BS!end_input(in) ELSE in]
HearsFin(c) ==
    [c EXCEPT !.fin_heard = TRUE,
              !.in = IF Missing(c) <= BS!remaining_capacity(c.in) THEN BS!end_input(@) ELSE @]

segment_received(c, news) ==
    IF ~c.active THEN c
    ELSE CASE news = "syn" /\ c.state = "LISTEN" ->
                [c EXCEPT !.state = "SYN_RCVD", !.in_flight = TRUE, !.segments = TRUE]
           [] news = "syn" /\ c.state = "SYN_SENT" ->
                Send([c EXCEPT !.state = "OPEN", !.in_flight = FALSE, !.segments = TRUE])
           [] news = "data" -> Send([Hears(c, NextBytes(c)) EXCEPT !.segments = TRUE])
           [] news = "fin" -> Send([HearsFin(c) EXCEPT !.segments = TRUE])
           [] news = "ack" -> Send([c EXCEPT !.state = "OPEN", !.in_flight = FALSE])
           [] news = "rst" -> [Reset(c) EXCEPT !.segments = @ \/ c.state # "SYN_SENT"]
           [] OTHER -> c

\* The segment ends the peer's stream before all its bytes have come.
EndsShort(c, news) ==
    /\ c.active /\ news = "fin" /\ Missing(c) > 0
    /\ BS!input_ended(segment_received(c, news).in)

write(c, data) ==
    IF data = <<>> THEN c ELSE Send([c EXCEPT !.out = BS!write(@, data)])
end_input_stream(c) == Send([c EXCEPT !.out = BS!end_input(@)])

\* The linger time is over; the retransmissions are used up.
MayTick(c, event) ==
    CASE event = "over" -> c.active /\ Finished(c)
      [] event = "gives up" -> c.active /\ c.in_flight
      [] OTHER -> TRUE
tick(c, event) ==
    CASE event = "over" -> [c EXCEPT !.active = FALSE]
      [] event = "gives up" -> [Reset(c) EXCEPT !.segments = TRUE]
      [] OTHER -> c

Eof(t, fd) == fd = "thread" /\ t.eof
Closed(t, fd) == FALSE

Interest(t, r) ==
    CASE r = FromNet -> t.conn.active
      [] r = FromOwner -> /\ t.conn.active /\ ~t.outbound_shutdown
                          /\ BS!remaining_capacity(t.conn.out) > 0
      [] r = ToOwner -> \/ ~BS!buffer_empty(t.conn.in)
                        \/ (BS!eof(t.conn.in) \/ t.conn.in.error) /\ ~t.inbound_shutdown
      [] r = ToNet -> t.conn.segments

EndOutbound(t) ==
    [t EXCEPT !.conn = end_input_stream(@), !.outbound_shutdown = TRUE]
Cancel(t, r) == IF r = FromOwner THEN EndOutbound(t) ELSE t

\* The callbacks.  Each returns the thread's state, the socket pair, whether its
\* descriptor was served, and what becomes of the process.
Outcome(t, ends, served, fate) == [s |-> t, ends |-> ends, served |-> served, fate |-> fate]

OnFromNet(t, ends, news) ==
    Outcome([t EXCEPT !.conn = segment_received(@, news)], ends, TRUE, "runs")

OnFromOwner(t, ends) ==
    LET limit == BS!remaining_capacity(t.conn.out)
        eof == SP!ReadEof(ends, "thread", limit)
        given == [t EXCEPT !.conn = write(@, SP!ReadData(ends, "thread", limit)), !.eof = eof]
    IN  IF ~SP!Readable(ends, "thread") THEN Outcome(t, ends, TRUE, "throws")
        ELSE Outcome(IF eof THEN EndOutbound(given) ELSE given,
                     SP!read(ends, "thread", limit), TRUE, "runs")

\* Mutant: all that was offered is popped, not what was written.
PopsAll(t, ends) == BS!buffer_size(t.conn.in)
Pops(t, ends) == SP!Written(ends, "thread", t.conn.in.buffer)

\* Mutant: the pipe is shut down with the peer's stream, whatever is left of it.
OverEarly(in) == BS!input_ended(in) \/ in.error
Over(in) == BS!eof(in) \/ in.error

\* An inbound stream with an error is shut down although a partial write may have
\* left bytes in it.
OnToOwner(t, ends) ==
    LET in == t.conn.in
        popped == [t EXCEPT !.conn.in = BS!pop_output(@, Pops(t, ends))]
        over == Over(popped.conn.in)
        sent == SP!write(ends, "thread", in.buffer)
    IN  IF SP!BrokenPipe(ends, "thread", in.buffer) THEN Outcome(t, ends, FALSE, "sigpipe")
        ELSE IF in.buffer # <<>> /\ SP!Room(ends, "thread") = 0
        THEN Outcome(t, ends, FALSE, "throws")
        ELSE Outcome([popped EXCEPT !.inbound_shutdown = @ \/ over],
                     IF over THEN SP!shutdown(sent, "thread", "WR") ELSE sent, TRUE, "runs")

\* A lossy adapter, or one that waits for an ARP reply, may write nothing.
OnToNet(t, ends) ==
    Outcome([t EXCEPT !.conn.segments = FALSE], ends, FALSE, "runs")
=============================================================================
