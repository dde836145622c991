--------------------------- MODULE TCPConnection ---------------------------
(***************************************************************************)
(* The class TCPConnection (libsponge/tcp_connection.hh, .cc): one         *)
(* TCPSender and one TCPReceiver, the segments queued for the network, and *)
(* the rules by which a connection opens, acknowledges, aborts and closes. *)
(***************************************************************************)
EXTENDS Integers, Sequences

CONSTANTS
    Mod16, Mod32, Mod64, Int32Max,
    MAX_PAYLOAD_SIZE, MAX_RETX_ATTEMPTS,   \* TCPConfig
    RtTimeout, RecvCapacity, SendCapacity, \* _cfg
    LingerFactor    \* the 10 of "10 * _cfg.rt_timeout"

S == INSTANCE TCPSender
R == INSTANCE TCPReceiver
BS == INSTANCE ByteStream
T == INSTANCE TCPSegment

New(isn) ==
    [sender |-> S!New(SendCapacity, RtTimeout, isn), receiver |-> R!New(RecvCapacity),
     segments_out |-> <<>>, linger_after_streams_finish |-> TRUE,
     time_since_last_segment_received |-> 0, active |-> TRUE]

HasAckno(c) == R!ackno(c.receiver) # R!NoAckno
inbound_ended(c) == BS!input_ended(R!stream_out(c.receiver))

\* The receiver's ackno and window go out with every segment, the window in the 16
\* bits of the header field.
set_seg(c, seg) ==
    IF HasAckno(c)
    THEN [seg EXCEPT !.ack = TRUE, !.ackno = R!ackno(c.receiver),
                     !.win = R!window_size(c.receiver) % Mod16]
    ELSE seg

LingerTime == LingerFactor * RtTimeout

\* Both streams are done: the outbound one is sent and acknowledged, the inbound
\* one assembled.  Mutant: bytes in flight are not looked at.
StreamsEnded(c) == BS!eof(c.sender.stream) /\ inbound_ended(c)
StreamsFinished(c) ==
    BS!eof(c.sender.stream) /\ inbound_ended(c) /\ c.sender.bytes_in_flight = 0

\* Mutant: nobody lingers.
NeverLingers(c, linger) == TRUE
LingerOver(c, linger) == ~linger \/ c.time_since_last_segment_received >= LingerTime

\* A peer that hears the end of the inbound stream before its own outbound stream
\* has reached its end need not linger.
clean_shutdown(c) ==
    LET passive == ~BS!eof(c.sender.stream) /\ inbound_ended(c)
        linger == c.linger_after_streams_finish /\ ~passive
        done == StreamsFinished(c) /\ LingerOver(c, linger)
    IN  [c EXCEPT !.linger_after_streams_finish = linger, !.active = @ /\ ~done]

send_segs_from_sender(c) ==
    LET queued == c.sender.segments_out
    IN  clean_shutdown([c EXCEPT
            !.segments_out = @ \o [i \in DOMAIN queued |-> set_seg(c, queued[i])],
            !.sender.segments_out = <<>>])

SetError(c) ==
    [c EXCEPT !.sender.stream = BS!set_error(@),
              !.receiver.reassembler.output = BS!set_error(@),
              !.active = FALSE]

\* It takes the front of the sender's queue, which must not be empty, as the RST.
unclean_shutdown(c) ==
    LET front == Head(c.sender.segments_out)
    IN  [SetError(c) EXCEPT
            !.segments_out = Append(@, [set_seg(c, front) EXCEPT !.rst = TRUE]),
            !.sender.segments_out = Tail(@)]

send_empty_segment(c) == [c EXCEPT !.sender = S!send_empty_segment(@)]

connect(c) == send_segs_from_sender([c EXCEPT !.sender = S!fill_window(@)])

\* The application has changed the outbound stream.
fill_from(c, stream) ==
    LET told == [c.sender EXCEPT !.stream = stream]
    IN  send_segs_from_sender([c EXCEPT !.sender = S!fill_window(told)])

\* Of an empty string write() returns at once.
write(c, data) ==
    IF data = <<>> THEN c ELSE fill_from(c, BS!write(c.sender.stream, data))

end_input_stream(c) == fill_from(c, BS!end_input(c.sender.stream))

\* The clock is compared with LingerTime and nothing else: it stops there.
Older(c, ms) ==
    [c EXCEPT !.time_since_last_segment_received = BS!AtMost(@ + ms, LingerTime)]

tick(c, ms) ==
    LET later == [Older(c, ms) EXCEPT !.sender = S!tick(@, ms)]
    IN  IF ~c.active THEN c
        ELSE IF later.sender.consecutive_retransmission > MAX_RETX_ATTEMPTS
        THEN send_segs_from_sender(unclean_shutdown(later))
        ELSE send_segs_from_sender(later)

LISTEN(c) == ~HasAckno(c) /\ c.sender.next_seqno = 0
SYN_SENT(c) ==
    /\ c.sender.next_seqno > 0
    /\ c.sender.next_seqno = c.sender.bytes_in_flight
    /\ ~HasAckno(c)

\* A segment that occupies sequence numbers is answered, by an empty segment if
\* the sender has nothing to say.  Mutant: only when it carries data.
AnswerData(c, seg) ==
    IF c.sender.segments_out = <<>> /\ HasAckno(c) /\ seg.payload # <<>>
    THEN send_empty_segment(c) ELSE c
Answer(c, seg) ==
    IF /\ c.sender.segments_out = <<>> /\ HasAckno(c)
       /\ T!length_in_sequence_space(seg) > 0
    THEN send_empty_segment(c) ELSE c

\* ackno and win are used whether or not the ack flag is set.
Exchange(c, seg) ==
    LET heard == [c EXCEPT !.receiver = R!segment_received(@, seg),
                           !.sender = S!ack_received(@, seg.ackno, seg.win)]
    IN  IF seg.rst
        THEN unclean_shutdown(send_empty_segment(heard))
        ELSE send_segs_from_sender(Answer(heard, seg))

segment_received(c, seg) ==
    LET timed == [c EXCEPT !.time_since_last_segment_received = 0]
        opened == [timed EXCEPT !.receiver = R!segment_received(@, seg)]
    IN  CASE ~c.active -> c
          [] c.active /\ LISTEN(c) -> IF seg.syn THEN connect(opened) ELSE timed
          [] c.active /\ SYN_SENT(c) /\ (seg.payload # <<>> \/ ~seg.ack) ->
                \* a simultaneous open; the empty segment stays in the sender's queue
                IF ~seg.ack /\ seg.syn THEN send_empty_segment(opened) ELSE timed
          [] c.active /\ SYN_SENT(c) /\ seg.payload = <<>> /\ seg.ack /\ seg.rst ->
                SetError(timed)
          [] OTHER -> Exchange(timed, seg)

\* ~TCPConnection
destroy(c) ==
    IF c.active THEN unclean_shutdown(send_empty_segment(c)) ELSE c
=============================================================================
