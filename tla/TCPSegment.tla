----------------------------- MODULE TCPSegment -----------------------------
(***************************************************************************)
(* A TCP segment (libsponge/tcp_helpers/tcp_segment.hh, tcp_header.hh):    *)
(* the header fields the connection reads, with their default values, and  *)
(* the payload.  Ports, checksum and options are left out.                 *)
(***************************************************************************)
EXTENDS Integers, Sequences

\* A segment as TCPSender makes it: neither ack, rst nor a window yet.
Segment(seqno, syn, fin, payload) ==
    [seqno |-> seqno, syn |-> syn, fin |-> fin, payload |-> payload,
     ack |-> FALSE, rst |-> FALSE, ackno |-> 0, win |-> 0]

length_in_sequence_space(seg) ==
    Len(seg.payload) + (IF seg.syn THEN 1 ELSE 0) + (IF seg.fin THEN 1 ELSE 0)
=============================================================================
