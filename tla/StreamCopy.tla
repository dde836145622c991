----------------------------- MODULE StreamCopy -----------------------------
(***************************************************************************)
(* bidirectional_stream_copy (apps/bidirectional_stream_copy.cc), which    *)
(* most of the applications spend their life in: an event loop of four     *)
(* rules between standard input, the owner's end of the socket pair and    *)
(* standard output, with a ByteStream for each direction.                  *)
(***************************************************************************)
EXTENDS Integers, Sequences

CONSTANTS SockCap, CopyCapacity   \* buffer_size

BS == INSTANCE ByteStream
SP == INSTANCE SocketPair

FromInput == [fd |-> "stdin", direction |-> "In"]
ToSocket == [fd |-> "owner", direction |-> "Out"]
FromSocket == [fd |-> "owner", direction |-> "In"]
ToOutput == [fd |-> "stdout", direction |-> "Out"]
Rules == <<FromInput, ToSocket, FromSocket, ToOutput>>

New == [outbound |-> BS!New(CopyCapacity), inbound |-> BS!New(CopyCapacity),
        outbound_shutdown |-> FALSE, inbound_shutdown |-> FALSE,
        input_eof |-> FALSE, socket_eof |-> FALSE, output_closed |-> FALSE]

Eof(a, fd) == (fd = "stdin" /\ a.input_eof) \/ (fd = "owner" /\ a.socket_eof)
Closed(a, fd) == fd = "stdout" /\ a.output_closed

\* Each side stops reading when the other has failed; that the output is closed
\* after the end of the inbound stream counts as a failure too (see Cancel).
Interest(a, r) ==
    LET well == ~a.outbound.error /\ ~a.inbound.error
    IN  CASE r = FromInput -> well /\ BS!remaining_capacity(a.outbound) > 0
          [] r = ToSocket -> \/ ~BS!buffer_empty(a.outbound)
                             \/ (BS!eof(a.outbound) /\ ~a.outbound_shutdown)
          [] r = FromSocket -> well /\ BS!remaining_capacity(a.inbound) > 0
          [] r = ToOutput -> \/ ~BS!buffer_empty(a.inbound)
                             \/ (BS!eof(a.inbound) /\ ~a.inbound_shutdown)

Cancel(a, r) ==
    CASE r = FromInput -> [a EXCEPT !.outbound = BS!end_input(@)]
      [] r = ToSocket -> [a EXCEPT !.outbound = BS!set_error(@)]
      [] r = FromSocket -> [a EXCEPT !.inbound = BS!end_input(@)]
      [] r = ToOutput -> [a EXCEPT !.inbound = BS!set_error(@)]

Outcome(a, ends, fate) == [s |-> a, ends |-> ends, served |-> TRUE, fate |-> fate]

\* The callbacks.  data is what read(2) gives of the input, nothing at its end.
OnFromInput(a, ends, data) ==
    LET got == [a EXCEPT !.outbound = BS!write(@, data), !.input_eof = data = <<>>]
    IN  Outcome(IF got.input_eof THEN [got EXCEPT !.outbound = BS!end_input(@)] ELSE got,
                ends, "runs")

OnToSocket(a, ends) ==
    LET data == a.outbound.buffer
        sent == SP!write(ends, "owner", data)
        popped == [a EXCEPT !.outbound = BS!pop_output(@, SP!Written(ends, "owner", data))]
        over == BS!eof(popped.outbound)
    IN  IF SP!BrokenPipe(ends, "owner", data) THEN Outcome(a, ends, "sigpipe")
        ELSE Outcome([popped EXCEPT !.outbound_shutdown = @ \/ over],
                     IF over THEN SP!shutdown(sent, "owner", "WR") ELSE sent, "runs")

OnFromSocket(a, ends) ==
    LET limit == BS!remaining_capacity(a.inbound)
        eof == SP!ReadEof(ends, "owner", limit)
        got == [a EXCEPT !.inbound = BS!write(@, SP!ReadData(ends, "owner", limit)),
                         !.socket_eof = eof]
    IN  Outcome(IF eof THEN [got EXCEPT !.inbound = BS!end_input(@)] ELSE got,
                SP!read(ends, "owner", limit), "runs")

\* count bytes go out; the descriptor is closed behind the last.
OnToOutput(a, ends, count) ==
    LET popped == [a EXCEPT !.inbound = BS!pop_output(@, count)]
        over == BS!eof(popped.inbound)
    IN  Outcome([popped EXCEPT !.output_closed = @ \/ over, !.inbound_shutdown = @ \/ over],
                ends, "runs")
=============================================================================
