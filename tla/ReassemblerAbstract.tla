------------------------ MODULE ReassemblerAbstract ------------------------
(***************************************************************************)
(* What a reassembler promises, with no buffer and no nodes: it knows a    *)
(* set of positions of the stream; a push adds the positions of the        *)
(* substring that lie in the window, the `Capacity` positions that follow  *)
(* the last byte read; and the reader is offered exactly the longest       *)
(* prefix of the stream that is known, minus what it has read.             *)
(***************************************************************************)
EXTENDS Integers, Sequences

CONSTANTS Capacity, Total

VARIABLES known, read, output
vars == <<known, read, output>>

\* The number of positions 0, 1, ... that are known before the first gap.
Assembled(set) ==
    CHOOSE k \in 0..Total : 0..k - 1 \subseteq set /\ k \notin set

\* The byte at position k of the stream is k + 1.
Available(set, from) == [i \in 1..Assembled(set) - from |-> from + i]

Init == known = {} /\ read = 0 /\ output = <<>>

Push(first, end) ==
    /\ known' = known \union {k \in first..end - 1 : k < read + Capacity}
    /\ output' = Available(known', read)
    /\ UNCHANGED read

Read(n) ==
    /\ read + n <= Assembled(known)
    /\ read' = read + n
    /\ output' = Available(known, read')
    /\ UNCHANGED known

Next ==
    \/ \E first, end \in 0..Total : Push(first, end)
    \/ \E n \in 0..Total : Read(n)

Spec == Init /\ [][Next]_vars
=============================================================================
