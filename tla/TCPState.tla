------------------------------ MODULE TCPState ------------------------------
(***************************************************************************)
(* The class TCPState (libsponge/tcp_helpers/tcp_state.hh, tcp_state.cc):  *)
(* what the members of a TCPConnection look like in each state of RFC 793. *)
(* A connection keeps no such state: it is read off the sender, the        *)
(* receiver and the two flags.                                             *)
(***************************************************************************)
EXTENDS Integers, Sequences

CONSTANTS Mod32, Mod64, Int32Max

R == INSTANCE TCPReceiver
BS == INSTANCE ByteStream

Summary(receiver, sender, active, linger) ==
    [receiver |-> receiver, sender |-> sender, active |-> active, linger |-> linger]

\* The summary of each official state.
State ==
    [LISTEN      |-> Summary("LISTEN", "CLOSED", TRUE, TRUE),
     SYN_RCVD    |-> Summary("SYN_RECV", "SYN_SENT", TRUE, TRUE),
     SYN_SENT    |-> Summary("LISTEN", "SYN_SENT", TRUE, TRUE),
     ESTABLISHED |-> Summary("SYN_RECV", "SYN_ACKED", TRUE, TRUE),
     CLOSE_WAIT  |-> Summary("FIN_RECV", "SYN_ACKED", TRUE, FALSE),
     LAST_ACK    |-> Summary("FIN_RECV", "FIN_SENT", TRUE, FALSE),
     CLOSING     |-> Summary("FIN_RECV", "FIN_SENT", TRUE, TRUE),
     FIN_WAIT_1  |-> Summary("SYN_RECV", "FIN_SENT", TRUE, TRUE),
     FIN_WAIT_2  |-> Summary("SYN_RECV", "FIN_ACKED", TRUE, TRUE),
     TIME_WAIT   |-> Summary("FIN_RECV", "FIN_ACKED", TRUE, TRUE),
     RESET       |-> Summary("ERROR", "ERROR", FALSE, FALSE),
     CLOSED      |-> Summary("FIN_RECV", "FIN_ACKED", FALSE, FALSE)]

receiver_summary(rcv) ==
    CASE R!stream_out(rcv).error -> "ERROR"
      [] ~R!stream_out(rcv).error /\ R!ackno(rcv) = R!NoAckno -> "LISTEN"
      [] OTHER -> IF BS!input_ended(R!stream_out(rcv)) THEN "FIN_RECV" ELSE "SYN_RECV"

\* The tests come in this order: the FIN has been sent if the stream is at its end
\* and the next number is beyond SYN, bytes and FIN.
sender_summary(s) ==
    LET ended == BS!eof(s.stream) /\ s.next_seqno >= s.stream.write_bytes + 2
    IN  IF s.stream.error THEN "ERROR"
        ELSE IF s.next_seqno = 0 THEN "CLOSED"
        ELSE IF s.next_seqno = s.bytes_in_flight THEN "SYN_SENT"
        ELSE IF ~ended THEN "SYN_ACKED"
        ELSE IF s.bytes_in_flight > 0 THEN "FIN_SENT" ELSE "FIN_ACKED"

state(c) ==
    Summary(receiver_summary(c.receiver), sender_summary(c.sender), c.active,
            c.active /\ c.linger_after_streams_finish)
=============================================================================
