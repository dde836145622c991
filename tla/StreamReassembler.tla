------------------------- MODULE StreamReassembler -------------------------
(***************************************************************************)
(* The class StreamReassembler (libsponge/stream_reassembler.hh, .cc): it  *)
(* accepts substrings of a stream in any order, overlapping or repeated,   *)
(* keeps the ones that are out of order in _data_buffer, a std::set of     *)
(* nodes ordered by idx, and writes to its ByteStream what has become      *)
(* contiguous.  A node's len is the length of its data.                    *)
(***************************************************************************)
EXTENDS Integers, Sequences, FiniteSets

CONSTANTS
    Mod64,       \* 2^64: the number of values of a size_t
    Int32Max     \* INT32_MAX, the initial value of _input_end_idx

BS == INSTANCE ByteStream

New(capacity) ==
    [output |-> BS!New(capacity), capacity |-> capacity, data_buffer |-> {},
     cur_idx |-> 0, input_end_idx |-> Int32Max, unassembled_bytes |-> 0]

Node(idx, data) == [idx |-> idx, data |-> data]
EndOf(node) == node.idx + Len(node.data)
empty(r) == r.unassembled_bytes = 0
stream_input_ended(r) == BS!input_ended(r.output)

\* There are bytes missing between two nodes.  Mutant: between touching ones too.
GapOrTouch(first, last) == EndOf(first) <= last.idx
Gap(first, last) == EndOf(first) < last.idx

\* merge_to: a with b merged into it, and the number of bytes they share; -1, and
\* a left alone, when there is a gap between the two.
merge_to(a, b) ==
    LET first == IF a.idx <= b.idx THEN a ELSE b
        last == IF a.idx <= b.idx THEN b ELSE a
    IN  IF EndOf(first) >= EndOf(last)
        THEN [node |-> first, overlap |-> Len(last.data)]
        ELSE IF Gap(first, last)
        THEN [node |-> a, overlap |-> -1]
        ELSE [node |-> Node(first.idx, first.data \o
                       SubSeq(last.data, EndOf(first) - last.idx + 1, Len(last.data))),
              overlap |-> EndOf(first) - last.idx]

\* One iteration of a merging loop on st = [block, buf, unassembled]: merge the
\* node `it` into the block, or leave everything alone, which ends the loop.
\* Mutant: the bytes the two share stay counted.
AbsorbKeepsCount(st, it) ==
    LET m == merge_to(st.block, it)
    IN  IF m.overlap < 0 THEN st
        ELSE [st EXCEPT !.block = m.node, !.buf = @ \ {it}]
Absorb(st, it) ==
    LET m == merge_to(st.block, it)
    IN  IF m.overlap < 0 THEN st
        ELSE [block |-> m.node, buf |-> st.buf \ {it},
              unassembled |-> st.unassembled - m.overlap]

\* The node lower_bound(block) finds, and the one before it.
SuccStep(st) ==
    LET succ == {n \in st.buf : n.idx >= st.block.idx}
    IN  IF succ = {} THEN st
        ELSE Absorb(st, CHOOSE n \in succ : \A m \in succ : n.idx <= m.idx)
PrevStep(st) ==
    LET prev == {n \in st.buf : n.idx < st.block.idx}
    IN  IF prev = {} THEN st
        ELSE Absorb(st, CHOOSE n \in prev : \A m \in prev : n.idx >= m.idx)

\* Both loops stop at the first node they cannot merge, and every iteration
\* before that removes one, so as many iterations as there are nodes reach the end.
MergeAll(st) ==
    LET n == Cardinality(st.buf)
        succ[k \in 0..n] == IF k = 0 THEN st ELSE SuccStep(succ[k - 1])
        prev[k \in 0..n] == IF k = 0 THEN succ[n] ELSE PrevStep(prev[k - 1])
    IN  prev[n]

\* What of the substring is neither beyond the window nor already assembled.
Trimmed(r, data, index, limit) ==
    LET kept == SubSeq(data, 1, BS!AtMost(Len(data), limit - index))
        offset == IF index < r.cur_idx THEN r.cur_idx - index ELSE 0
    IN  Node(index + offset, SubSeq(kept, offset + 1, Len(kept)))

\* The first node, if it starts where the output stops, goes to the output.
WriteOut(r) ==
    LET first == CHOOSE n \in r.data_buffer : \A m \in r.data_buffer : n.idx <= m.idx
        written == BS!Accepted(r.output, first.data)
    IN  IF first.idx # r.cur_idx THEN r
        ELSE [r EXCEPT !.output = BS!write(@, first.data),
                       !.unassembled_bytes = @ - written,
                       !.cur_idx = @ + written,
                       !.data_buffer = @ \ {first}]

EndIf(r, cond) ==
    IF cond /\ empty(r) THEN [r EXCEPT !.output = BS!end_input(@)] ELSE r

\* Mutant: the end of the stream is not looked for.
EndNotChecked(r) == r
EndIfComplete(r) == EndIf(r, r.cur_idx >= r.input_end_idx)

\* No node left has the idx of the merged block, so the insert always inserts, and
\* the set it leaves is not empty.
Assemble(r, block, eof) ==
    LET merged == MergeAll([block |-> block, buf |-> r.data_buffer,
                            unassembled |-> r.unassembled_bytes + Len(block.data)])
        inserted == [r EXCEPT !.data_buffer = merged.buf \union {merged.block},
                              !.unassembled_bytes = merged.unassembled]
    IN  EndIf(EndIfComplete(WriteOut(inserted)), eof)

\* The first index behind the window.  Mutant: the window follows the bytes
\* assembled, not the bytes read.
WideMaxIndex(r) == r.cur_idx + r.capacity
max_idx(r) == r.cur_idx - BS!buffer_size(r.output) + r.capacity

push_substring(r, data, index, eof) ==
    LET noted == IF eof THEN [r EXCEPT !.input_end_idx = (index + Len(data)) % Mod64]
                        ELSE r
    IN  IF index > max_idx(r) THEN noted
        ELSE IF (index + Len(data)) % Mod64 <= r.cur_idx
        THEN EndIfComplete(noted)
        ELSE Assemble(noted, Trimmed(r, data, index, max_idx(r)), eof)
=============================================================================
