---------------------------- MODULE TCPReceiver ----------------------------
(***************************************************************************)
(* The class TCPReceiver (libsponge/tcp_receiver.hh, tcp_receiver.cc): it  *)
(* turns segments into substrings for its StreamReassembler and computes   *)
(* the ackno and the window size to advertise.                             *)
(***************************************************************************)
EXTENDS Integers, Sequences

CONSTANTS Mod32, Mod64, Int32Max

W == INSTANCE WrappingIntegers
SR == INSTANCE StreamReassembler
BS == INSTANCE ByteStream

\* The value ackno() returns before a SYN has come: std::nullopt.
NoAckno == -1

New(capacity) ==
    [reassembler |-> SR!New(capacity), capacity |-> capacity,
     syn |-> FALSE, fin |-> FALSE, isn |-> 0, rcv_base |-> 0]

stream_out(rcv) == rcv.reassembler.output
ackno(rcv) == IF rcv.syn THEN W!wrap(rcv.rcv_base, rcv.isn) ELSE NoAckno
window_size(rcv) == rcv.capacity - BS!buffer_size(stream_out(rcv))

\* The first sequence number not received follows the SYN, the bytes assembled
\* and, once the stream has ended, the FIN.
FirstUnreceived(assembled, fin) ==
    assembled.cur_idx + (IF SR!stream_input_ended(assembled) /\ fin THEN 2 ELSE 1)

Accept(rcv, seg) ==
    LET abs_seqno == IF seg.syn THEN 1
                     ELSE W!unwrap(seg.seqno, rcv.isn, rcv.reassembler.cur_idx)
        stream_index == (abs_seqno - 1) % Mod64
        assembled == SR!push_substring(rcv.reassembler, seg.payload, stream_index, seg.fin)
    IN  [rcv EXCEPT !.reassembler = assembled,
                    !.rcv_base = FirstUnreceived(assembled, rcv.fin)]

\* A segment before the SYN, a second SYN and a second FIN are refused.
segment_received(rcv, seg) ==
    LET refused == seg.syn = rcv.syn
        opened == IF seg.syn THEN [rcv EXCEPT !.syn = TRUE, !.isn = seg.seqno] ELSE rcv
        noted == [opened EXCEPT !.fin = @ \/ seg.fin]
    IN  IF refused THEN rcv
        ELSE IF seg.fin /\ opened.fin THEN opened
        ELSE Accept(noted, seg)

read(rcv, n) ==
    [rcv EXCEPT !.reassembler.output = BS!pop_output(@, n)]
=============================================================================
