-------------------------- MODULE ReassemblerSpec --------------------------
(***************************************************************************)
(* One StreamReassembler.  The network pushes substrings of a stream of    *)
(* Total bytes in any order and any number of times; the flag eof comes    *)
(* with a substring that reaches the end of the stream, or not yet.  The   *)
(* reader pops from the output.  The byte at position k is k + 1.          *)
(***************************************************************************)
EXTENDS Integers, Sequences, FiniteSets

CONSTANTS
    Capacity,    \* capacity the reassembler is constructed with
    Total,       \* bytes in the stream
    Mod64,
    Int32Max

ASSUME ReassemblerAssumption ==
    /\ Capacity \in Nat /\ Total \in Nat /\ Mod64 \in Nat
    /\ Int32Max \in Nat \ {0}
    /\ Total + Capacity < Mod64

SR == INSTANCE StreamReassembler
BS == INSTANCE ByteStream

VARIABLE r
vars == <<r>>

Bytes(from, n) == [i \in 1..n |-> from + i]

Init == r = SR!New(Capacity)

Push(first, end, eof) ==
    /\ first <= end
    /\ eof => end = Total
    /\ r' = SR!push_substring(r, Bytes(first, end - first), first, eof)

Read(n) ==
    /\ n <= BS!buffer_size(r.output)
    /\ r' = [r EXCEPT !.output = BS!pop_output(@, n)]

Next ==
    \/ \E first, end \in 0..Total, eof \in BOOLEAN : Push(first, end, eof)
    \/ \E n \in 1..Capacity : Read(n)

Spec == Init /\ [][Next]_vars

-----------------------------------------------------------------------------

\* The positions whose bytes some nodes hold.
Positions(nodes) == UNION {n.idx..SR!EndOf(n) - 1 : n \in nodes}

\* unassembled_bytes() is kept by adding every substring and subtracting every
\* overlap of the merging loops and every byte written out; it must come out as
\* the number of positions in the buffer, each counted once however often it was
\* pushed, since empty() decides the end of the stream.
CountedOnce == r.unassembled_bytes = Cardinality(Positions(r.data_buffer))

\* Between two calls the buffered nodes are ahead of the bytes assembled, inside
\* the window of capacity bytes behind the last byte read, hold the bytes of
\* their positions, and never overlap or touch: touching ones were merged.
NodesApart ==
    \A n \in r.data_buffer :
        /\ n.idx > r.cur_idx
        /\ SR!EndOf(n) <= r.output.read_bytes + Capacity
        /\ \A i \in 1..Len(n.data) : n.data[i] = n.idx + i
        /\ \A m \in r.data_buffer \ {n} : SR!EndOf(n) < m.idx \/ SR!EndOf(m) < n.idx

\* The output ends as soon as the last byte is assembled and an eof was seen,
\* even if that eof came first, came beyond the window or came again.
EndedOnceComplete ==
    r.cur_idx = Total /\ r.input_end_idx = Total => SR!stream_input_ended(r)

\* The class implements a set of positions: whatever the order, overlap and
\* repetition of the substrings, the reader is offered exactly the longest known
\* prefix, and no byte that was inside the window when it came is forgotten.
Abstract == INSTANCE ReassemblerAbstract WITH
    known <- (0..r.cur_idx - 1) \union Positions(r.data_buffer),
    read <- r.output.read_bytes,
    output <- r.output.buffer
Implements == Abstract!Spec
=============================================================================
