-------------------------- MODULE ByteStreamProofs --------------------------
(***************************************************************************)
(* ByteStreamSpec for every capacity and every number of bytes: the three  *)
(* invariants that the run byte_stream checks for one small stream.        *)
(* FIFO is not inductive alone (a write has to know that the bytes in the  *)
(* buffer end at write_bytes), so the three are proved together.           *)
(***************************************************************************)
EXTENDS ByteStreamSpec, TLAPS

Inv == TypeOK /\ Conservation /\ FIFO

\* AtMost, the clamp of write, peek_output and pop_output, returns a number within
\* both of its arguments.
LEMMA AtMostBounds ==
    ASSUME NEW n \in Nat, NEW limit \in Nat
    PROVE  /\ BS!AtMost(n, limit) \in Nat
           /\ BS!AtMost(n, limit) <= n
           /\ BS!AtMost(n, limit) <= limit
  BY DEF BS!AtMost

\* A sequence that holds the bytes r+1, r+2, ..., w of a stream.
Run(seq, r, w) ==
    /\ seq \in Seq(Nat) /\ r \in Nat /\ w \in Nat /\ Len(seq) = w - r
    /\ \A i \in 1..Len(seq) : seq[i] = r + i

\* A run followed by the run that starts where it stops is a run.
LEMMA RunAppend ==
    ASSUME NEW a, NEW b, NEW r, NEW w, NEW v, Run(a, r, w), Run(b, w, v)
    PROVE  Run(a \o b, r, v)
  <1>1. a \o b \in Seq(Nat) /\ Len(a \o b) = Len(a) + Len(b)
    <2>1. a \in Seq(Nat) /\ b \in Seq(Nat)
      BY DEF Run
    <2> QED
      BY <2>1
  <1>2. ASSUME NEW i \in 1..Len(a \o b)
        PROVE  (a \o b)[i] = r + i
    <2>1. CASE i <= Len(a)
      BY <2>1 DEF Run
    <2>2. CASE i > Len(a)
      <3>1. i - Len(a) \in 1..Len(b) /\ (a \o b)[i] = b[i - Len(a)]
        BY <1>1, <2>2 DEF Run
      <3>2. b[i - Len(a)] = w + (i - Len(a))
        BY <3>1 DEF Run
      <3> QED
        BY <3>1, <3>2 DEF Run
    <2> QED
      BY <2>1, <2>2, <1>1 DEF Run
  <1>3. Len(a \o b) = v - r
    BY <1>1 DEF Run
  <1> QED
    BY <1>1, <1>2, <1>3 DEF Run

\* The first k bytes of a run, and what is left without them, are runs.
LEMMA RunSplit ==
    ASSUME NEW a, NEW r, NEW w, Run(a, r, w), NEW k \in Nat, k <= Len(a)
    PROVE  /\ Run(SubSeq(a, 1, k), r, r + k)
           /\ Run(SubSeq(a, k + 1, Len(a)), r + k, w)
  <1>1. a \in Seq(Nat) /\ Len(a) \in Nat
    BY DEF Run
  <1>2. /\ SubSeq(a, 1, k) \in Seq(Nat) /\ Len(SubSeq(a, 1, k)) = k
        /\ \A i \in 1..k : SubSeq(a, 1, k)[i] = a[i]
    BY <1>1
  <1>3. /\ SubSeq(a, k + 1, Len(a)) \in Seq(Nat)
        /\ Len(SubSeq(a, k + 1, Len(a))) = Len(a) - k
        /\ \A i \in 1..Len(a) - k : SubSeq(a, k + 1, Len(a))[i] = a[k + i]
    BY <1>1
  <1>4. ASSUME NEW i \in 1..Len(a) - k
        PROVE  a[k + i] = (r + k) + i
    <2>1. k + i \in 1..Len(a)
      BY <1>1
    <2> QED
      BY <2>1 DEF Run
  <1>5. Run(SubSeq(a, 1, k), r, r + k)
    BY <1>1, <1>2 DEF Run
  <1>6. Run(SubSeq(a, k + 1, Len(a)), r + k, w)
    BY <1>1, <1>3, <1>4 DEF Run
  <1> QED
    BY <1>5, <1>6

\* The invariant, as a run.
LEMMA InvIsRun ==
    Inv <=> /\ TypeOK /\ Len(stream.buffer) <= Capacity
            /\ Run(stream.buffer, stream.read_bytes, stream.write_bytes)
  BY DEF Inv, TypeOK, Conservation, FIFO, Run

\* A new stream satisfies Inv.
LEMMA InitInv == Init => Inv
  BY CapacityAssumption
  DEF Init, Inv, TypeOK, Conservation, FIFO, BS!New

\* ByteStream::write keeps the invariant: what it accepts fits, is counted, and
\* continues the writer's stream.
LEMMA WriteInv ==
    ASSUME Inv, NEW n \in Nat, Write(n)
    PROVE  Inv'
  <1> DEFINE w == stream.write_bytes
             data == Bytes(w, n)
             k == BS!Accepted(stream, data)
             new == SubSeq(data, 1, k)
  <1>1. /\ TypeOK /\ stream.capacity = Capacity /\ Len(stream.buffer) \in Nat
        /\ Len(stream.buffer) <= Capacity /\ Capacity \in Nat /\ w \in Nat
        /\ Run(stream.buffer, stream.read_bytes, w)
    BY InvIsRun, CapacityAssumption DEF TypeOK
  <1>2. Run(data, w, w + n) /\ Len(data) = n
    BY <1>1 DEF Bytes, Run
  <1>3. k \in Nat /\ k <= n /\ k <= Capacity - Len(stream.buffer)
    <2>1. Capacity - Len(stream.buffer) \in Nat
      BY <1>1
    <2>2. k = BS!AtMost(n, Capacity - Len(stream.buffer))
      BY <1>1, <1>2 DEF BS!Accepted, BS!remaining_capacity, BS!buffer_size
    <2> QED
      BY <2>1, <2>2, AtMostBounds
  <1>4. stream' = [stream EXCEPT !.buffer = stream.buffer \o new, !.write_bytes = w + k]
    BY DEF Write, BS!write
  <1> HIDE DEF data, k
  <1>5. Run(new, w, w + k)
    BY <1>2, <1>3, RunSplit
  <1> HIDE DEF new
  <1>6. Run(stream.buffer \o new, stream.read_bytes, w + k)
    BY <1>1, <1>5, RunAppend
  <1>7. Len(stream.buffer \o new) <= Capacity
    <2>1. /\ Len(stream.buffer \o new) = (w + k) - stream.read_bytes
          /\ Len(stream.buffer) = w - stream.read_bytes
          /\ stream.read_bytes \in Nat
      BY <1>1, <1>6 DEF Run
    <2> QED
      BY <1>1, <1>3, <2>1
  <1>8. TypeOK'
    BY <1>1, <1>4, <1>6 DEF TypeOK, Run
  <1>9. /\ stream'.buffer = stream.buffer \o new /\ stream'.write_bytes = w + k
        /\ stream'.read_bytes = stream.read_bytes
    BY <1>1, <1>4 DEF TypeOK
  <1>10. (TypeOK /\ Len(stream.buffer) <= Capacity
          /\ Run(stream.buffer, stream.read_bytes, stream.write_bytes))'
    BY <1>6, <1>7, <1>8, <1>9
  <1> QED
    BY <1>10, InvIsRun, PTL

\* ByteStream::pop_output keeps the invariant: what it removes is counted as read,
\* and the next byte is the one that follows.
LEMMA PopInv ==
    ASSUME Inv, NEW n \in Nat, Pop(n)
    PROVE  Inv'
  <1> DEFINE k == BS!AtMost(n, Len(stream.buffer))
             rest == SubSeq(stream.buffer, k + 1, Len(stream.buffer))
  <1>1. /\ TypeOK /\ Len(stream.buffer) \in Nat /\ Len(stream.buffer) <= Capacity
        /\ Capacity \in Nat /\ stream.read_bytes \in Nat
        /\ Run(stream.buffer, stream.read_bytes, stream.write_bytes)
    BY InvIsRun, CapacityAssumption DEF TypeOK
  <1>2. k \in Nat /\ k <= Len(stream.buffer)
    BY <1>1, AtMostBounds
  <1>3. stream' = [stream EXCEPT !.buffer = rest, !.read_bytes = stream.read_bytes + k]
    BY DEF Pop, BS!pop_output, BS!buffer_size
  <1> HIDE DEF k
  <1>4. Run(rest, stream.read_bytes + k, stream.write_bytes)
    BY <1>1, <1>2, RunSplit
  <1> HIDE DEF rest
  <1>5. Len(rest) <= Capacity
    BY <1>1, <1>2, <1>4 DEF Run
  <1>6. TypeOK'
    BY <1>1, <1>3, <1>4 DEF TypeOK, Run
  <1>7. /\ stream'.buffer = rest /\ stream'.write_bytes = stream.write_bytes
        /\ stream'.read_bytes = stream.read_bytes + k
    BY <1>1, <1>3 DEF TypeOK
  <1>8. (TypeOK /\ Len(stream.buffer) <= Capacity
         /\ Run(stream.buffer, stream.read_bytes, stream.write_bytes))'
    BY <1>4, <1>5, <1>6, <1>7
  <1> QED
    BY <1>8, InvIsRun, PTL

\* Every call, and every step in between, keeps Inv.
LEMMA NextInv == Inv /\ [Next]_vars => Inv'
  <1> SUFFICES ASSUME Inv, [Next]_vars
               PROVE  Inv'
    OBVIOUS
  <1>1. ASSUME NEW n \in 0..MaxWrite, Write(n)
        PROVE  Inv'
    BY <1>1, WriteInv, BoundAssumption
  <1>2. ASSUME NEW n \in 0..Capacity + 1, Pop(n)
        PROVE  Inv'
    BY <1>2, PopInv, CapacityAssumption
  <1>3. CASE EndInput
    BY <1>3 DEF EndInput, BS!end_input, Inv, TypeOK, Conservation, FIFO
  <1>4. CASE SetError
    BY <1>4 DEF SetError, BS!set_error, Inv, TypeOK, Conservation, FIFO
  <1>5. CASE UNCHANGED vars
    BY <1>5 DEF vars, Inv, TypeOK, Conservation, FIFO
  <1> QED
    BY <1>1, <1>2, <1>3, <1>4, <1>5 DEF Next

\* The members of a ByteStream keep their types whatever the calls.
THEOREM TypeCorrect == Spec => []TypeOK
  <1>1. Inv => TypeOK
    BY DEF Inv
  <1> QED
    BY InitInv, NextInv, <1>1, PTL DEF Spec

\* For every capacity, bytes_written() - bytes_read() is the number of bytes in the
\* buffer and never exceeds the capacity.
THEOREM BytesConserved == Spec => []Conservation
  <1>1. Inv => Conservation
    BY DEF Inv
  <1> QED
    BY InitInv, NextInv, <1>1, PTL DEF Spec

\* For every capacity and every sequence of calls, the reader is offered the
\* writer's bytes in order, with none lost or repeated.
THEOREM ReadsInOrder == Spec => []FIFO
  <1>1. Inv => FIFO
    BY DEF Inv
  <1> QED
    BY InitInv, NextInv, <1>1, PTL DEF Spec
=============================================================================
