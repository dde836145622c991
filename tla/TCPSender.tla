----------------------------- MODULE TCPSender -----------------------------
(***************************************************************************)
(* The class TCPSender (libsponge/tcp_sender.hh, tcp_sender.cc): it cuts   *)
(* its ByteStream into segments that fit the window of the peer, keeps the *)
(* ones that are not acknowledged and retransmits the oldest when the      *)
(* timer expires.  _rcv_base and _receiver_window_size are unsigned int    *)
(* where the numbers they hold are 64 bits wide; _free_bytes, the scratch  *)
(* member of fill_window, is not kept.                                     *)
(***************************************************************************)
EXTENDS Integers, Sequences

CONSTANTS Mod32, Mod64,
    MAX_PAYLOAD_SIZE    \* TCPConfig::MAX_PAYLOAD_SIZE

W == INSTANCE WrappingIntegers
BS == INSTANCE ByteStream
INSTANCE TCPSegment

New(capacity, retx_timeout, isn) ==
    [isn |-> isn, segments_out |-> <<>>, initial_retransmission_timeout |-> retx_timeout,
     stream |-> BS!New(capacity), next_seqno |-> 0, outstanding_segments |-> <<>>,
     RTO |-> retx_timeout, bytes_in_flight |-> 0, consecutive_retransmission |-> 0,
     timer_running |-> FALSE, back_off |-> TRUE, time_elipsed |-> 0,
     receiver_window_size |-> 1, rcv_base |-> 0, syn_sent |-> FALSE, fin_sent |-> FALSE]

\* The sequence numbers some segments occupy together.
TotalLength(segs) ==
    LET sum[k \in 0..Len(segs)] ==
            IF k = 0 THEN 0 ELSE sum[k - 1] + length_in_sequence_space(segs[k])
    IN  sum[Len(segs)]

\* The timer starts with the first outstanding segment.  Mutant: it does not.
NoTimer(s, segs) == s
StartTimer(s, segs) ==
    IF s.timer_running \/ segs = <<>> THEN s
    ELSE [s EXCEPT !.timer_running = TRUE, !.time_elipsed = 0]

\* _segment_handler for the segments of one call of fill_window, in order, which
\* occupy n sequence numbers.
segment_handler(s, segs, n) ==
    [StartTimer(s, segs) EXCEPT !.bytes_in_flight = @ + n,
                                !.next_seqno = @ + n,
                                !.outstanding_segments = @ \o segs,
                                !.segments_out = @ \o segs]

\* The loop of fill_window reads from the stream while there is room and hands
\* over segments of at most MAX_PAYLOAD_SIZE bytes; the one that empties an ended
\* stream carries the FIN if it is shorter than the whole window.
Segments(s, win, free) ==
    LET n == BS!AtMost(free, BS!buffer_size(s.stream))
        count == (n + MAX_PAYLOAD_SIZE - 1) \div MAX_PAYLOAD_SIZE
        ended == BS!eof(BS!pop_output(s.stream, n))
        first(k) == (k - 1) * MAX_PAYLOAD_SIZE
        length(k) == BS!AtMost(n - first(k), MAX_PAYLOAD_SIZE)
    IN  [k \in 1..count |->
            Segment(W!wrap(s.next_seqno + first(k), s.isn), FALSE,
                    k = count /\ ended /\ length(k) < win,
                    SubSeq(s.stream.buffer, first(k) + 1, first(k) + length(k)))]

SendSyn(s) ==
    segment_handler([s EXCEPT !.syn_sent = TRUE],
                    <<Segment(W!wrap(s.next_seqno, s.isn), TRUE, FALSE, <<>>)>>, 1)

\* Mutant: _fin_sent is not set.
SendFinUnmarked(s) ==
    segment_handler(s, <<Segment(W!wrap(s.next_seqno, s.isn), FALSE, TRUE, <<>>)>>, 1)
SendFin(s) ==
    segment_handler([s EXCEPT !.fin_sent = TRUE],
                    <<Segment(W!wrap(s.next_seqno, s.isn), FALSE, TRUE, <<>>)>>, 1)

\* What the peer's window leaves for payload, as the unsigned int _free_bytes.
\* Mutant: one byte more.
FreePlusOne(s, right_edge) == (right_edge - s.next_seqno + 1) % Mod32
FreeBytes(s, right_edge) == (right_edge - s.next_seqno) % Mod32

SendData(s, free) ==
    LET segs == Segments(s, s.receiver_window_size, free)
        fin == \E k \in DOMAIN segs : segs[k].fin
        n == BS!AtMost(free, BS!buffer_size(s.stream))
    IN  segment_handler([s EXCEPT !.stream = BS!pop_output(@, n), !.fin_sent = fin],
                        segs, IF fin THEN n + 1 ELSE n)

AwaitingSynAck(s) ==
    s.outstanding_segments # <<>> /\ Head(s.outstanding_segments).syn

\* A window of zero is taken for one, to probe it.  Mutant: it is not.
NoProbe(win) == win
ProbeWindow(win) == IF win = 0 THEN 1 ELSE win

fill_window(s) ==
    LET w == [s EXCEPT !.receiver_window_size = ProbeWindow(@)]
        right_edge == (w.rcv_base + w.receiver_window_size) % Mod32
    IN  CASE ~s.syn_sent -> SendSyn(s)
          [] s.syn_sent /\ (AwaitingSynAck(s) \/ s.fin_sent) -> s
          [] OTHER ->
                IF BS!eof(w.stream)
                THEN IF right_edge > w.next_seqno THEN SendFin(w) ELSE w
                ELSE SendData(w, FreeBytes(w, right_edge))

\* The absolute number behind an outstanding segment, as the unsigned int
\* end_of_front.
EndOfSegment(s, seg) ==
    (W!unwrap(seg.seqno, s.isn, s.rcv_base) + length_in_sequence_space(seg)) % Mod32

\* How many outstanding segments, from the oldest, are acknowledged in full.
\* Mutant: the oldest one goes when any part of it is.
PoppedEarly(s, seqno_abs) == BS!AtMost(1, Len(s.outstanding_segments))
Popped(s, seqno_abs) ==
    CHOOSE k \in 0..Len(s.outstanding_segments) :
        /\ \A i \in 1..k : EndOfSegment(s, s.outstanding_segments[i]) <= seqno_abs
        /\ k < Len(s.outstanding_segments)
              => EndOfSegment(s, s.outstanding_segments[k + 1]) > seqno_abs

\* New data was acknowledged: the timeout and the count of retransmissions start
\* over.  Mutant: the timeout stays backed off.
ResetCountOnly(s) ==
    [s EXCEPT !.consecutive_retransmission = 0, !.time_elipsed = 0]
ResetRetransmission(s) ==
    [s EXCEPT !.RTO = s.initial_retransmission_timeout,
              !.consecutive_retransmission = 0, !.time_elipsed = 0]

\* Mutant: the timer runs on when nothing is outstanding.
TimerRunsOn(s) == s
StopTimer(s) ==
    IF s.outstanding_segments = <<>>
    THEN [s EXCEPT !.timer_running = FALSE, !.time_elipsed = 0]
    ELSE s

\* The oldest number not acknowledged, as the unsigned int _rcv_base.  Mutant: any
\* new acknowledgment counts for all that was sent.
BaseToNext(s, seqno_abs) == [s EXCEPT !.rcv_base = s.next_seqno % Mod32]
Base(s, seqno_abs) == [s EXCEPT !.rcv_base = seqno_abs % Mod32]

ack_received(s, ackno, window_size) ==
    LET seqno_abs == W!unwrap(ackno, s.isn, s.rcv_base)
        window == [s EXCEPT !.receiver_window_size = window_size,
                            !.back_off = window_size # 0]
        based == Base(window, seqno_abs)
        k == Popped(based, seqno_abs)
        acked == SubSeq(s.outstanding_segments, 1, k)
        rest == [based EXCEPT
                    !.bytes_in_flight = @ - TotalLength(acked),
                    !.outstanding_segments = SubSeq(@, k + 1, Len(@))]
        timed == StopTimer(IF k > 0 THEN ResetRetransmission(rest) ELSE rest)
    IN  IF seqno_abs > s.next_seqno THEN s
        ELSE IF seqno_abs <= s.rcv_base THEN window
        ELSE fill_window(timed)

BackOff(s) ==
    [s EXCEPT !.RTO = 2 * @, !.consecutive_retransmission = @ + 1]

tick(s, ms) ==
    LET later == [s EXCEPT !.time_elipsed = @ + ms]
        resent == [later EXCEPT !.segments_out = Append(@, Head(s.outstanding_segments)),
                                !.time_elipsed = 0]
    IN  IF ~s.timer_running THEN s
        ELSE IF later.time_elipsed < s.RTO THEN later
        ELSE IF s.back_off THEN BackOff(resent) ELSE resent

send_empty_segment(s) ==
    [s EXCEPT !.segments_out =
        Append(@, Segment(W!wrap(s.next_seqno, s.isn), FALSE, FALSE, <<>>))]
=============================================================================
