----------------------------- MODULE ByteStream -----------------------------
(***************************************************************************)
(* The class ByteStream (libsponge/byte_stream.hh, byte_stream.cc): a      *)
(* flow-controlled, in-memory queue of bytes with one writer and one       *)
(* reader.  An object of the class is a record; every method that changes  *)
(* it is an operator from the old record to the new one, every accessor an *)
(* operator on the record.  The BufferList the class keeps its bytes in    *)
(* (util/buffer.cc) is the sequence its concatenate() returns.             *)
(*                                                                         *)
(* A byte is any value: the class never looks at one.                      *)
(***************************************************************************)
EXTENDS Integers, Sequences

AtMost(n, limit) == IF n <= limit THEN n ELSE limit

\* ByteStream::ByteStream and the members' initializers.
New(capacity) ==
    [capacity |-> capacity, buffer |-> <<>>, write_bytes |-> 0, read_bytes |-> 0,
     input_end |-> FALSE, error |-> FALSE]

buffer_size(s) == Len(s.buffer)
buffer_empty(s) == buffer_size(s) = 0
remaining_capacity(s) == s.capacity - buffer_size(s)
input_ended(s) == s.input_end

eof(s) == buffer_empty(s) /\ input_ended(s)

\* What write returns: as many bytes of data as there is room for.
Accepted(s, data) == AtMost(Len(data), remaining_capacity(s))

\* Mutant: write without the capacity check.
WriteUnclamped(s, data) ==
    [s EXCEPT !.buffer = @ \o data, !.write_bytes = @ + Len(data)]

\* ByteStream::write.  It does not look at input_end.
write(s, data) ==
    LET n == Accepted(s, data)
    IN  [s EXCEPT !.buffer = @ \o SubSeq(data, 1, n), !.write_bytes = @ + n]

peek_output(s, len) == SubSeq(s.buffer, 1, AtMost(len, buffer_size(s)))

\* Mutants: pop that takes the bytes back from the count of bytes written, and pop
\* that drops bytes from the writer's end of the buffer.
PopUncounts(s, len) ==
    [s EXCEPT !.buffer = SubSeq(@, len + 1, Len(@)), !.write_bytes = @ - len]
PopFromTail(s, len) ==
    LET n == AtMost(len, buffer_size(s))
    IN  [s EXCEPT !.buffer = SubSeq(@, 1, Len(@) - n), !.read_bytes = @ + n]

\* ByteStream::pop_output, with BufferList::remove_prefix.
pop_output(s, len) ==
    LET n == AtMost(len, buffer_size(s))
    IN  [s EXCEPT !.buffer = SubSeq(@, n + 1, Len(@)), !.read_bytes = @ + n]

end_input(s) == [s EXCEPT !.input_end = TRUE]
set_error(s) == [s EXCEPT !.error = TRUE]
=============================================================================
