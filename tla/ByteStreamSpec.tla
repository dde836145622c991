--------------------------- MODULE ByteStreamSpec ---------------------------
(***************************************************************************)
(* One ByteStream driven by its writer and its reader, in any order of     *)
(* calls.  The class is agnostic to what a byte is, so the writer offers   *)
(* the ordinals of the bytes of its stream: the k-th byte ever accepted    *)
(* has the value k.  A writer whose call was cut short offers the rest     *)
(* again, as TCPSpongeSocket and bidirectional_stream_copy do.             *)
(***************************************************************************)
EXTENDS Integers, Sequences

CONSTANTS
    Capacity,    \* capacity the stream is constructed with
    MaxWrite,    \* most bytes offered by one write
    MaxBytes     \* bound: bytes the writer has to offer in all

ASSUME CapacityAssumption == Capacity \in Nat
ASSUME BoundAssumption == MaxWrite \in Nat /\ MaxBytes \in Nat

BS == INSTANCE ByteStream

VARIABLE stream

vars == <<stream>>

\* The bytes from+1 .. from+n of the writer's stream.
Bytes(from, n) == [i \in 1..n |-> from + i]

Init == stream = BS!New(Capacity)

Write(n) ==
    /\ stream.write_bytes + n <= MaxBytes
    /\ stream' = BS!write(stream, Bytes(stream.write_bytes, n))

Pop(n) == stream' = BS!pop_output(stream, n)

EndInput == stream' = BS!end_input(stream)

SetError == stream' = BS!set_error(stream)

Next ==
    \/ \E n \in 0..MaxWrite : Write(n)
    \/ \E n \in 0..Capacity + 1 : Pop(n)
    \/ EndInput
    \/ SetError

Spec == Init /\ [][Next]_vars

-----------------------------------------------------------------------------

\* The members of the class keep their types.
TypeOK ==
    stream \in [capacity : {Capacity}, buffer : Seq(Nat), write_bytes : Nat,
                read_bytes : Nat, input_end : BOOLEAN, error : BOOLEAN]

\* The counters behind bytes_written() and bytes_read() account for exactly the
\* bytes in the buffer, and the buffer never outgrows the capacity: the
\* subtraction in remaining_capacity(), made on an unsigned type, cannot wrap.
Conservation ==
    /\ Len(stream.buffer) = stream.write_bytes - stream.read_bytes
    /\ Len(stream.buffer) <= stream.capacity

\* The reader gets the writer's bytes in order, with none lost, repeated or
\* moved, whatever was rejected by a full buffer: the i-th byte of the buffer is
\* byte read_bytes + i of the writer's stream.
FIFO ==
    \A i \in 1..Len(stream.buffer) : stream.buffer[i] = stream.read_bytes + i
=============================================================================
