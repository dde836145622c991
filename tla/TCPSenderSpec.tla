--------------------------- MODULE TCPSenderSpec ---------------------------
(***************************************************************************)
(* One TCPSender, its application and a peer.  The application and         *)
(* TCPConnection call it the way TCPConnection::write, end_input_stream,   *)
(* connect and tick do, and take every segment it queues before the next   *)
(* call.  The peer is any receiver that acknowledges a growing prefix of   *)
(* what was sent, never takes back window it has offered, and whose        *)
(* acknowledgments are lost, repeated or reordered by the network.         *)
(*                                                                         *)
(* The stream's bytes are numbered from 1, so that byte k travels with the *)
(* absolute sequence number k (the SYN has number 0).                      *)
(***************************************************************************)
EXTENDS Integers, Sequences, FiniteSetsExt

CONSTANTS
    Mod32, Mod64, MAX_PAYLOAD_SIZE,
    Isn, Capacity, RtTimeout,   \* fixed_isn, send_capacity, rt_timeout
    MAX_RETX_ATTEMPTS,
    MaxBytes,                   \* bound: bytes the application has to send
    MaxWin,                     \* bound: largest window the peer offers
    Late                        \* bound: acknowledgments that may still arrive; 1: only
                                \* the newest does

ASSUME SenderAssumption ==
    /\ Mod32 \in Nat \ {0} /\ Mod64 \in Nat \ {0} /\ MAX_PAYLOAD_SIZE \in Nat \ {0}
    /\ Isn \in 0..Mod32 - 1 /\ Capacity \in Nat /\ RtTimeout \in Nat \ {0}
    /\ MAX_RETX_ATTEMPTS \in Nat /\ MaxBytes \in Nat /\ MaxWin \in Nat
    /\ Late \in Nat \ {0}

\* Sequence numbers wrap around, but _rcv_base and the edges of the window are
\* unsigned ints that hold absolute numbers: the stream is shorter than half of them.
ASSUME ShortStream ==
    /\ 2 * (MaxBytes + MaxWin + 3) <= Mod32
    /\ MaxBytes + 2 + Mod32 <= Mod64 \div 2

S == INSTANCE TCPSender
BS == INSTANCE ByteStream
W == INSTANCE WrappingIntegers

VARIABLES
    s,      \* the TCPSender
    acks,   \* the last acknowledgments the peer has sent, oldest first
    seen    \* the furthest acknowledgment, and window edge, that have arrived, and
            \* whether one has arrived late
vars == <<s, acks, seen>>

Init ==
    /\ s = S!New(Capacity, RtTimeout, Isn)
    /\ acks = <<>>
    /\ seen = [ack |-> 0, edge |-> 1, late |-> FALSE]

\* The owner has taken the segments of the last call.
Drained == [s EXCEPT !.segments_out = <<>>]

Connect ==
    /\ s.next_seqno = 0
    /\ s' = S!fill_window(Drained)
    /\ UNCHANGED <<acks, seen>>

Write(n) ==
    /\ ~s.stream.input_end
    /\ s.stream.write_bytes + n <= MaxBytes
    /\ n <= BS!remaining_capacity(s.stream)
    /\ s' = S!fill_window([Drained EXCEPT !.stream =
                BS!write(@, [i \in 1..n |-> s.stream.write_bytes + i])])
    /\ UNCHANGED <<acks, seen>>

EndInput ==
    /\ ~s.stream.input_end
    /\ s' = S!fill_window([Drained EXCEPT !.stream = BS!end_input(@)])
    /\ UNCHANGED <<acks, seen>>

Tick(ms) ==
    /\ s.consecutive_retransmission <= MAX_RETX_ATTEMPTS
    /\ s' = S!tick(Drained, ms)
    /\ UNCHANGED <<acks, seen>>

\* The peer acknowledges everything before ack and offers the numbers before edge.
PeerAcks(ack, edge) ==
    /\ LET last == IF acks = <<>> THEN [ack |-> 0, edge |-> 0] ELSE acks[Len(acks)]
       IN  ack >= last.ack /\ edge >= last.edge /\ [ack |-> ack, edge |-> edge] # last
    /\ ack <= s.next_seqno
    /\ edge \in ack..ack + MaxWin
    /\ LET all == Append(acks, [ack |-> ack, edge |-> edge])
       IN  acks' = SubSeq(all, Max({1, Len(all) - Late + 1}), Len(all))
    /\ UNCHANGED <<s, seen>>

AckArrives(i) ==
    /\ s' = S!ack_received(Drained, W!wrap(acks[i].ack, Isn), acks[i].edge - acks[i].ack)
    /\ seen' = [ack |-> Max({seen.ack, acks[i].ack}),
                edge |-> Max({seen.edge, Max({acks[i].edge, acks[i].ack + 1})}),
                late |-> \/ seen.late \/ acks[i].ack < seen.ack
                         \/ Max({acks[i].edge, acks[i].ack + 1}) < seen.edge]
    /\ UNCHANGED acks

Next ==
    \/ Connect
    \/ \E n \in 1..MaxBytes : Write(n)
    \/ EndInput
    \/ Tick(1)
    \/ \E ack \in 1..MaxBytes + 2, edge \in 1..MaxBytes + MaxWin + 2 : PeerAcks(ack, edge)
    \/ \E i \in DOMAIN acks : AckArrives(i)

Spec == Init /\ [][Next]_vars

-----------------------------------------------------------------------------

\* The absolute number at which the i-th outstanding segment starts, counted back
\* from the next number to be sent.
Out == s.outstanding_segments
StartOf(i) == s.next_seqno - S!TotalLength(SubSeq(Out, i, Len(Out)))

\* The timer runs exactly while something is outstanding: tick() retransmits
\* _outstanding_segments.front(), which is undefined on an empty queue, and a
\* segment without a timer would never be retransmitted.
TimerIffOutstanding == s.timer_running <=> Out # <<>>

\* bytes_in_flight() is what tcp_sender.hh says, "sequence numbers ... occupied by
\* segments sent but not yet acknowledged": the outstanding segments follow each
\* other without a gap up to the next number, the count is their length, and the
\* oldest is exactly the first that is not acknowledged in full.
FlightIsUnacked ==
    /\ s.bytes_in_flight = S!TotalLength(Out)
    /\ \A i \in DOMAIN Out : Out[i].seqno = W!wrap(StartOf(i), Isn)
    /\ IF Out = <<>> THEN seen.ack = s.next_seqno
       ELSE /\ StartOf(1) <= seen.ack
            /\ seen.ack < StartOf(1) + S!length_in_sequence_space(Out[1])

\* Whatever was retransmitted, acknowledged or cut by the window, a segment carries
\* the bytes that belong to its sequence numbers, and what is left in the stream
\* starts at the next number.
DataMatchesSeqno ==
    /\ \A i \in DOMAIN Out, j \in 1..MAX_PAYLOAD_SIZE :
           j <= Len(Out[i].payload) => Out[i].payload[j] = StartOf(i) + j - 1
    /\ s.syn_sent /\ ~BS!buffer_empty(s.stream)
           => s.stream.buffer[1] = s.next_seqno

\* The timeout is doubled once for each counted retransmission and reset with the
\* count, and an expired timer never waits for another tick.
Doubled[k \in 0..MAX_RETX_ATTEMPTS + 1] ==
    IF k = 0 THEN RtTimeout ELSE 2 * Doubled[k - 1]
BackoffMatchesCount ==
    /\ s.consecutive_retransmission \in DOMAIN Doubled
    /\ s.RTO = Doubled[s.consecutive_retransmission]
    /\ s.time_elipsed < s.RTO

\* TCPState tells a sender that has sent its FIN by next_seqno == bytes_written + 2;
\* that is so exactly when the flag is set, the FIN ending the stream.
FinEndsStream ==
    /\ s.fin_sent <=> s.next_seqno = s.stream.write_bytes + 2
    /\ s.fin_sent => BS!eof(s.stream)

\* While there are bytes or a FIN to send something is in flight, so that the
\* timer or an acknowledgment will call the sender again, although a window update
\* that acknowledges nothing new does not call fill_window.
NeverStalls ==
    s.syn_sent /\ Out = <<>> => BS!buffer_empty(s.stream) /\ (s.stream.input_end => s.fin_sent)

\* send_extra.cc: "a full window of nonzero size should be respected".  As long as
\* acknowledgments come in order, no payload is sent beyond the furthest window
\* edge that the peer has offered (or the byte that probes a window of zero); only
\* a FIN may stick out, by one.
PayloadInWindow ==
    ~seen.late => \A i \in DOMAIN Out : StartOf(i) + Len(Out[i].payload) <= seen.edge
=============================================================================
