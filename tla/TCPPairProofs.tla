--------------------------- MODULE TCPPairProofs ---------------------------
(***************************************************************************)
(* Proofs about TCPPair, for every capacity, width, network and plan of    *)
(* streams shorter than half of the sequence numbers: what an application  *)
(* reads is what the other one wrote, and a connection that closes without *)
(* an error has had its FIN acknowledged and has heard the other's.        *)
(*                                                                         *)
(* The senders and the reassemblers keep the invariants that               *)
(* TCPSenderProofs and ReassemblerProofs prove for any object; here the    *)
(* receiver, the connection and the network are added to them.             *)
(***************************************************************************)
EXTENDS TCPPair, SequenceTheorems, TLAPS

RP == INSTANCE ReassemblerProofs
    WITH Capacity <- RecvCapacity, Total <- Longest + 1, r <- conn
SP == INSTANCE TCPSenderProofs
    WITH Isn <- Isn[Client], Capacity <- SendCapacity, MaxBytes <- Longest,
         MaxWin <- RecvCapacity, Late <- 1, s <- conn, acks <- net, seen <- plan

\* Half of the sequence numbers.
LEMMA LongestIs ==
    /\ Longest \in Nat /\ 2 * (Longest + RecvCapacity + 3) <= Mod32
    /\ Longest + 1 + RecvCapacity < Mod64
  <1> DEFINE h == Mod32 \div 2
             k == Mod64 \div 2
  <1>1. /\ Mod32 \in Nat /\ Mod64 \in Nat /\ RecvCapacity \in Nat /\ Longest \in Nat
        /\ Longest = h - RecvCapacity - 3 /\ Longest + 2 + Mod32 <= k
    BY WidthAssumption, ShortStreams DEF Longest
  <1>2. h \in Int /\ 2 * h <= Mod32 /\ k \in Int /\ 2 * k <= Mod64
    BY <1>1
  <1> HIDE DEF h, k
  <1>3. Longest + RecvCapacity + 3 = h
    BY <1>1, <1>2
  <1>4. Longest + 1 + RecvCapacity < Mod64
    BY <1>1, <1>2, <1>3
  <1> QED
    BY <1>1, <1>2, <1>3, <1>4

\* The assumptions of the proofs about one sender and one reassembler hold here.
LEMMA Applies == SP!SenderAssumption /\ SP!ShortStream /\ RP!ReassemblerAssumption
  <1>1. Isn[Client] \in 0..Mod32 - 1
    BY PairAssumption DEF Peer
  <1>2. SP!SenderAssumption
    BY <1>1, WidthAssumption, LongestIs DEF SP!SenderAssumption
  <1>3. SP!ShortStream
    BY LongestIs, ShortStreams DEF SP!ShortStream
  <1>4. RP!ReassemblerAssumption
    <2>1. Int32Max \in Nat \ {0}
      BY WidthAssumption, ShortStreams
    <2> QED
      BY <2>1, WidthAssumption, LongestIs DEF RP!ReassemblerAssumption
  <1> QED
    BY <1>2, <1>3, <1>4

-----------------------------------------------------------------------------
\* The operators of the connection's parts are those the proofs about them name.

\* Merging one node of the buffer into another.
LEMMA SameAbsorb ==
    ASSUME NEW st, NEW it
    PROVE  C!R!SR!Absorb(st, it) = RP!SR!Absorb(st, it)
  BY DEF C!R!SR!Absorb, RP!SR!Absorb, C!R!SR!merge_to, RP!SR!merge_to, C!R!SR!Gap,
     RP!SR!Gap, C!R!SR!EndOf, RP!SR!EndOf, C!R!SR!Node, RP!SR!Node

\* Merging the nodes on both sides.
LEMMA SameMergeAll ==
    ASSUME NEW st
    PROVE  C!R!SR!MergeAll(st) = RP!SR!MergeAll(st)
  BY Zenon DEF C!R!SR!MergeAll, RP!SR!MergeAll, C!R!SR!Cardinality, RP!SR!Cardinality,
     C!R!SR!SuccStep, RP!SR!SuccStep, C!R!SR!PrevStep, RP!SR!PrevStep, C!R!SR!Absorb,
     RP!SR!Absorb, C!R!SR!merge_to, RP!SR!merge_to, C!R!SR!Gap, RP!SR!Gap, C!R!SR!EndOf,
     RP!SR!EndOf, C!R!SR!Node, RP!SR!Node

\* Writing the first node to the output.
LEMMA SameWriteOut ==
    ASSUME NEW x
    PROVE  C!R!SR!WriteOut(x) = RP!SR!WriteOut(x)
   BY Zenon DEF C!R!SR!WriteOut, RP!SR!WriteOut, C!R!SR!BS!Accepted, RP!SR!BS!Accepted,
      C!R!SR!BS!write, RP!SR!BS!write, C!R!SR!BS!remaining_capacity,
      RP!SR!BS!remaining_capacity, C!R!SR!BS!AtMost, RP!SR!BS!AtMost, C!R!SR!BS!buffer_size,
      RP!SR!BS!buffer_size

\* Ending the output.
LEMMA SameEndIf ==
    ASSUME NEW x, NEW c
    PROVE  C!R!SR!EndIf(x, c) = RP!SR!EndIf(x, c)
  BY Zenon DEF C!R!SR!EndIf, RP!SR!EndIf, C!R!SR!empty, RP!SR!empty, C!R!SR!BS!end_input,
     RP!SR!BS!end_input

\* Ending it when the last byte has been written.
LEMMA SameEndIfComplete ==
    ASSUME NEW x
    PROVE  C!R!SR!EndIfComplete(x) = RP!SR!EndIfComplete(x)
  BY SameEndIf DEF C!R!SR!EndIfComplete, RP!SR!EndIfComplete

\* Inserting, merging and writing a node.
LEMMA SameAssemble ==
    ASSUME NEW x, NEW b, NEW e
    PROVE  C!R!SR!Assemble(x, b, e) = RP!SR!Assemble(x, b, e)
  BY SameMergeAll, SameWriteOut, SameEndIf, SameEndIfComplete, Zenon DEF C!R!SR!Assemble,
     RP!SR!Assemble

\* The part of a substring that is new and has room.
LEMMA SameTrimmed ==
    ASSUME NEW x, NEW d, NEW i, NEW l
    PROVE  C!R!SR!Trimmed(x, d, i, l) = RP!SR!Trimmed(x, d, i, l)
  BY Zenon DEF C!R!SR!Trimmed, RP!SR!Trimmed, C!R!SR!Node, RP!SR!Node, C!R!SR!BS!AtMost,
     RP!SR!BS!AtMost

\* push_substring.
LEMMA SamePush ==
    ASSUME NEW x, NEW d, NEW i, NEW e
    PROVE  C!R!SR!push_substring(x, d, i, e) = RP!SR!push_substring(x, d, i, e)
  <1>1. C!R!SR!max_idx(x) = RP!SR!max_idx(x)
   BY Zenon DEF C!R!SR!max_idx, RP!SR!max_idx, C!R!SR!BS!buffer_size, RP!SR!BS!buffer_size
  <1> QED
  BY <1>1, SameTrimmed, SameEndIfComplete, SameAssemble DEF C!R!SR!push_substring,
     RP!SR!push_substring

\* segment_handler, through which every segment goes.
LEMMA SameHandler ==
    ASSUME NEW x, NEW q, NEW n
    PROVE  C!S!segment_handler(x, q, n) = SP!S!segment_handler(x, q, n)
  BY Zenon DEF C!S!segment_handler, SP!S!segment_handler, C!S!StartTimer, SP!S!StartTimer

\* The end of a sender's stream.
LEMMA SameEof ==
    ASSUME NEW x
    PROVE  C!S!BS!eof(x) = SP!S!BS!eof(x)
  BY Zenon DEF C!S!BS!eof, SP!S!BS!eof, C!S!BS!buffer_empty, SP!S!BS!buffer_empty,
     C!S!BS!buffer_size, SP!S!BS!buffer_size, C!S!BS!input_ended, SP!S!BS!input_ended

\* wrap.
LEMMA SameWrap ==
    ASSUME NEW x, NEW n
    PROVE  C!S!W!wrap(x, n) = SP!S!W!wrap(x, n)
  BY Zenon DEF C!S!W!wrap, SP!S!W!wrap

\* unwrap.
LEMMA SameUnwrap ==
    ASSUME NEW x, NEW n, NEW c
    PROVE  C!S!W!unwrap(x, n, c) = SP!S!W!unwrap(x, n, c)
  BY Zenon DEF C!S!W!unwrap, SP!S!W!unwrap, C!S!W!difference, SP!S!W!difference,
     C!S!W!AsSigned, SP!S!W!AsSigned, C!S!W!wrap, SP!S!W!wrap

\* The segment with the SYN.
LEMMA SameSyn ==
    ASSUME NEW x
    PROVE  C!S!SendSyn(x) = SP!S!SendSyn(x)
  BY SameHandler, SameWrap, Zenon DEF C!S!SendSyn, SP!S!SendSyn, C!S!Segment, SP!S!Segment

\* The segment with the FIN alone.
LEMMA SameFin ==
    ASSUME NEW x
    PROVE  C!S!SendFin(x) = SP!S!SendFin(x)
  BY SameHandler, SameWrap, Zenon DEF C!S!SendFin, SP!S!SendFin, C!S!Segment, SP!S!Segment

\* Taking bytes from a sender's stream.
LEMMA SamePop ==
    ASSUME NEW x, NEW n
    PROVE  C!S!BS!pop_output(x, n) = SP!S!BS!pop_output(x, n)
  BY Zenon DEF C!S!BS!pop_output, SP!S!BS!pop_output, C!S!BS!AtMost, SP!S!BS!AtMost,
     C!S!BS!buffer_size, SP!S!BS!buffer_size

\* The segments a window is filled with.
LEMMA SameSegments ==
    ASSUME NEW x, NEW w, NEW f
    PROVE  C!S!Segments(x, w, f) = SP!S!Segments(x, w, f)
 <1>1. \A a, b : C!S!BS!AtMost(a, b) = SP!S!BS!AtMost(a, b)
   BY Zenon DEF C!S!BS!AtMost, SP!S!BS!AtMost
 <1>2. C!S!BS!buffer_size(x.stream) = SP!S!BS!buffer_size(x.stream)
   BY Zenon DEF C!S!BS!buffer_size, SP!S!BS!buffer_size
 <1>3. \A a, b, c,d : C!S!Segment(a, b,c,d) = SP!S!Segment(a, b,c,d)
   BY Zenon DEF C!S!Segment, SP!S!Segment
 <1> QED
  BY <1>1, <1>2, <1>3, SameEof, SamePop, SameWrap, Zenon DEF C!S!Segments, SP!S!Segments

\* Sending them.
LEMMA SameData ==
    ASSUME NEW x, NEW f
    PROVE  C!S!SendData(x, f) = SP!S!SendData(x, f)
 <1>1. \A a, b : C!S!BS!AtMost(a, b) = SP!S!BS!AtMost(a, b)
   BY Zenon DEF C!S!BS!AtMost, SP!S!BS!AtMost
 <1>2. C!S!BS!buffer_size(x.stream) = SP!S!BS!buffer_size(x.stream)
   BY Zenon DEF C!S!BS!buffer_size, SP!S!BS!buffer_size
 <1> QED
  BY <1>1, <1>2, SameHandler, SamePop, SameSegments, Zenon DEF C!S!SendData, SP!S!SendData

\* fill_window.
LEMMA SameFill ==
    ASSUME NEW x
    PROVE  C!S!fill_window(x) = SP!S!fill_window(x)
  <1>1. \A n : C!S!ProbeWindow(n) = SP!S!ProbeWindow(n)
    BY Zenon DEF C!S!ProbeWindow, SP!S!ProbeWindow
  <1>2. \A z, n : C!S!FreeBytes(z, n) = SP!S!FreeBytes(z, n)
    BY Zenon DEF C!S!FreeBytes, SP!S!FreeBytes
  <1>3. C!S!AwaitingSynAck(x) = SP!S!AwaitingSynAck(x)
    BY Zenon DEF C!S!AwaitingSynAck, SP!S!AwaitingSynAck
  <1> DEFINE w == [x EXCEPT !.receiver_window_size = SP!S!ProbeWindow(@)]
             edge == (w.rcv_base + w.receiver_window_size) % Mod32
  <1>4. [x EXCEPT !.receiver_window_size = C!S!ProbeWindow(@)] = w
    BY <1>1
  <1> HIDE DEF w
  <1>5. CASE ~x.syn_sent
    BY <1>5, SameSyn DEF C!S!fill_window, SP!S!fill_window
  <1>6. CASE x.syn_sent /\ (SP!S!AwaitingSynAck(x) \/ x.fin_sent)
    BY <1>3, <1>6 DEF C!S!fill_window, SP!S!fill_window
  <1>7. CASE x.syn_sent /\ ~(SP!S!AwaitingSynAck(x) \/ x.fin_sent)
    <2> DEFINE F == IF SP!S!BS!eof(w.stream)
                THEN IF edge > w.next_seqno THEN SP!S!SendFin(w) ELSE w
                ELSE SP!S!SendData(w, SP!S!FreeBytes(w, edge))
               G == IF C!S!BS!eof(w.stream)
                THEN IF edge > w.next_seqno THEN C!S!SendFin(w) ELSE w
                ELSE C!S!SendData(w, C!S!FreeBytes(w, edge))
    <2>1. SP!S!fill_window(x) = F
      BY <1>7, Zenon DEF SP!S!fill_window, w
    <2>2. C!S!fill_window(x) = G
      <3> DEFINE u == [x EXCEPT !.receiver_window_size = C!S!ProbeWindow(@)]
                 e == (u.rcv_base + u.receiver_window_size) % Mod32
                 H == IF C!S!BS!eof(u.stream)
                THEN IF e > u.next_seqno THEN C!S!SendFin(u) ELSE u
                ELSE C!S!SendData(u, C!S!FreeBytes(u, e))
      <3>1. ~(C!S!AwaitingSynAck(x) \/ x.fin_sent)
        BY <1>3, <1>7
      <3>2. C!S!fill_window(x) = H
        BY <1>7, <3>1, Zenon DEF C!S!fill_window
      <3>3. u = w
        BY <1>4
      <3> HIDE DEF u
      <3> QED
        BY <3>2, <3>3, Zenon
    <2>3. F = G
      BY <1>2, SameFin, SameData, SameEof, Zenon
    <2> HIDE DEF F, G
    <2> QED
      BY <2>1, <2>2, <2>3, Zenon
  <1> QED
    BY <1>5, <1>6, <1>7

\* How many segments an ackno takes from the flight.
LEMMA SamePopped ==
    ASSUME NEW x, NEW n
    PROVE  C!S!Popped(x, n) = SP!S!Popped(x, n)
 <1>1. \A q : C!S!EndOfSegment(x, q) = SP!S!EndOfSegment(x, q)
   BY SameUnwrap, Zenon DEF C!S!EndOfSegment, SP!S!EndOfSegment,
      C!S!length_in_sequence_space, SP!S!length_in_sequence_space
 <1> QED
  BY <1>1 DEF C!S!Popped, SP!S!Popped

\* How many sequence numbers they occupy.
LEMMA SameTotal ==
    ASSUME NEW q
    PROVE  C!S!TotalLength(q) = SP!S!TotalLength(q)
  BY Zenon DEF C!S!TotalLength, SP!S!TotalLength, C!S!length_in_sequence_space,
     SP!S!length_in_sequence_space

\* ack_received.
LEMMA SameAck ==
    ASSUME NEW x, NEW a, NEW w
    PROVE  C!S!ack_received(x, a, w) = SP!S!ack_received(x, a, w)
  <1> DEFINE v == C!S!W!unwrap(a, x.isn, x.rcv_base)
             window == [x EXCEPT !.receiver_window_size = w, !.back_off = w # 0]
             based == C!S!Base(window, v)
             k == C!S!Popped(based, v)
             n == C!S!TotalLength(SubSeq(x.outstanding_segments, 1, k))
             rest == [based EXCEPT !.bytes_in_flight = @ - n,
                                   !.outstanding_segments = SubSeq(@, k + 1, Len(@))]
             r == IF k > 0 THEN C!S!ResetRetransmission(rest) ELSE rest
             timed == C!S!StopTimer(r)
  <1>1. C!S!ack_received(x, a, w) =
            IF v > x.next_seqno THEN x ELSE IF v <= x.rcv_base THEN window
            ELSE C!S!fill_window(timed)
    BY Zenon DEF C!S!ack_received
  <1> HIDE DEF timed
  <1>2. SP!S!ack_received(x, a, w) =
            IF v > x.next_seqno THEN x ELSE IF v <= x.rcv_base THEN window
            ELSE SP!S!fill_window(timed)
    <2>1. SP!S!W!unwrap(a, x.isn, x.rcv_base) = v
      BY SameUnwrap, Zenon
    <2> HIDE DEF v
    <2>2. SP!S!Base(window, v) = based
      BY Zenon DEF C!S!Base, SP!S!Base
    <2> HIDE DEF based
    <2>3. SP!S!Popped(based, v) = k
      BY SamePopped, Zenon
    <2> HIDE DEF k
    <2>4. SP!S!TotalLength(SubSeq(x.outstanding_segments, 1, k)) = n
      BY SameTotal, Zenon
    <2> HIDE DEF n
    <2>5. (IF k > 0 THEN SP!S!ResetRetransmission(rest) ELSE rest) = r
      BY Zenon DEF C!S!ResetRetransmission, SP!S!ResetRetransmission
    <2>6. SP!S!StopTimer(r) = timed
      BY Zenon DEF C!S!StopTimer, SP!S!StopTimer, timed
    <2> HIDE DEF r
    <2>7. SP!S!ack_received(x, a, w) =
              LET based1 == SP!S!Base(window, v)
                  k1 == SP!S!Popped(based1, v)
                  rest1 == [based1 EXCEPT
                      !.bytes_in_flight =
                          @ - SP!S!TotalLength(SubSeq(x.outstanding_segments, 1, k1)),
                      !.outstanding_segments = SubSeq(@, k1 + 1, Len(@))]
              IN  IF v > x.next_seqno THEN x ELSE IF v <= x.rcv_base THEN window
                  ELSE SP!S!fill_window(SP!S!StopTimer(
                           IF k1 > 0 THEN SP!S!ResetRetransmission(rest1) ELSE rest1))
      BY <2>1, Zenon DEF SP!S!ack_received
    <2>8. SP!S!ack_received(x, a, w) =
              IF v > x.next_seqno THEN x ELSE IF v <= x.rcv_base THEN window
                  ELSE SP!S!fill_window(SP!S!StopTimer(
                           IF k > 0 THEN SP!S!ResetRetransmission(rest) ELSE rest))
      BY <2>2, <2>3, <2>4, <2>7, Zenon
    <2> QED
      BY <2>5, <2>6, <2>8, Zenon
  <1> HIDE DEF v, window
  <1>3. C!S!fill_window(timed) = SP!S!fill_window(timed)
    BY SameFill, Zenon
  <1> QED
    BY <1>1, <1>2, <1>3

\* tick.
LEMMA SameTick ==
    ASSUME NEW x, NEW n
    PROVE  C!S!tick(x, n) = SP!S!tick(x, n)
  BY Zenon DEF C!S!tick, SP!S!tick, C!S!BackOff, SP!S!BackOff

\* send_empty_segment.
LEMMA SameEmpty ==
    ASSUME NEW x
    PROVE  C!S!send_empty_segment(x) = SP!S!send_empty_segment(x)
  BY SameWrap, Zenon DEF C!S!send_empty_segment, SP!S!send_empty_segment, C!S!Segment,
     SP!S!Segment

\* The constructor of the sender.
LEMMA SameNew ==
    ASSUME NEW a, NEW b, NEW c
    PROVE  C!S!New(a, b, c) = SP!S!New(a, b, c)
  BY Zenon DEF C!S!New, SP!S!New, C!S!BS!New, SP!S!BS!New

-----------------------------------------------------------------------------
\* The receiver.

ReceiverMembers == {"reassembler", "capacity", "syn", "fin", "isn", "rcv_base"}
IsReceiver(x) == x = [m \in ReceiverMembers |-> x[m]]

\* A receiver that listens to a sender whose initial sequence number is isn and whose
\* application has written w bytes: it knows no other byte.
Listening(x, isn, w) ==
    /\ IsReceiver(x) /\ x.capacity = RecvCapacity
    /\ x.syn \in BOOLEAN /\ x.fin \in BOOLEAN /\ x.rcv_base \in Nat
    /\ x.syn => x.isn = isn
    /\ x.fin => x.syn
    /\ RP!Sound(x.reassembler) /\ RP!Known(x.reassembler) \subseteq 0..w - 1
    /\ ~x.fin => RP!Open(x.reassembler)

\* A segment on its way from such a sender.
Wires ==
    [seqno : Int, syn : BOOLEAN, fin : BOOLEAN, payload : Seq(Nat), ack : BOOLEAN,
     rst : BOOLEAN, ackno : 0..Mod32 - 1, win : 0..RecvCapacity]
Wire(isn, w) == {q \in Wires : SP!Says(isn, q, w)}

\* Where such a segment begins.
Begins(isn, q, w, n) ==
    /\ n \in 0..w + 2 /\ q.seqno = SP!W!wrap(n, isn) /\ (q.syn <=> n = 0)
    /\ q.syn => q.payload = <<>>
    /\ \A j \in 1..Len(q.payload) : q.payload[j] = n + j - 1
    /\ q.payload = <<>> \/ n + Len(q.payload) <= w + 1

\* A segment of a shorter stream is one of a longer stream.
LEMMA WireMore ==
    ASSUME NEW isn, NEW v \in Nat, NEW w \in Nat, v <= w
    PROVE  Wire(isn, v) \subseteq Wire(isn, w)
  <1> SUFFICES ASSUME NEW q \in Wire(isn, v) PROVE q \in Wire(isn, w)
    OBVIOUS
  <1>1. q \in Wires /\ SP!Says(isn, q, v)
    BY DEF Wire
  <1>2. Len(q.payload) \in Nat
    BY <1>1 DEF Wires
  <1>3. SP!Says(isn, q, w)
    BY <1>1, <1>2, Applies, SP!SaysMore
  <1> QED
    BY <1>1, <1>3 DEF Wire

\* The receiver of a longer stream.
LEMMA ListensMore ==
    ASSUME NEW x, NEW isn, NEW v \in Nat, NEW w \in Nat, v <= w, Listening(x, isn, v)
    PROVE  Listening(x, isn, w)
  <1>1. 0..v - 1 \subseteq 0..w - 1
    OBVIOUS
  <1> QED
    BY <1>1, Zenon DEF Listening

\* The constructor.
LEMMA ListensNew ==
    ASSUME NEW x, x = C!R!New(RecvCapacity), NEW isn
    PROVE  Listening(x, isn, 0) /\ x.syn = FALSE
  <1> DEFINE a == C!R!SR!New(RecvCapacity)
  <1>1. a = RP!SR!New(RecvCapacity)
    BY Zenon DEF C!R!SR!New, RP!SR!New, C!R!SR!BS!New, RP!SR!BS!New
  <1> HIDE DEF a
  <1>2. RP!Sound(a) /\ RP!Open(a) /\ RP!Known(a) = {}
    BY <1>1, Applies, RP!NewIsSound
  <1>3. x = [reassembler |-> a, capacity |-> RecvCapacity, syn |-> FALSE, fin |-> FALSE,
             isn |-> 0, rcv_base |-> 0]
    BY Zenon DEF C!R!New, a
  <1>4. /\ IsReceiver(x) /\ x.reassembler = a /\ x.capacity = RecvCapacity
        /\ x.rcv_base = 0
    BY <1>3 DEF IsReceiver, ReceiverMembers
  <1>5. x.syn = FALSE /\ x.fin = FALSE
    BY <1>3
  <1>6. {} \subseteq 0..0 - 1
    OBVIOUS
  <1>7. FALSE \in BOOLEAN /\ 0 \in Nat
    OBVIOUS
  <1> QED
    BY <1>2, <1>4, <1>5, <1>6, <1>7, Zenon DEF Listening

\* What the receiver has assembled was written.
LEMMA Assembled ==
    ASSUME NEW x, NEW isn, NEW w \in 0..Longest, Listening(x, isn, w)
    PROVE  LET a == x.reassembler
           IN  /\ a.cur_idx \in Nat /\ a.cur_idx <= w
               /\ a.output.read_bytes \in Nat /\ a.output.read_bytes <= a.cur_idx
               /\ Len(a.output.buffer) \in 0..RecvCapacity
  <1> DEFINE a == x.reassembler
             n == a.cur_idx
             d == a.output.read_bytes
             l == Len(a.output.buffer)
  <1>1. RP!Sound(a) /\ 0..n - 1 \subseteq 0..w - 1
    BY DEF Listening, RP!Known
  <1>2. n \in Nat /\ d \in Nat /\ d <= n /\ n <= d + RecvCapacity /\ l = n - d
    BY <1>1, Applies, RP!SoundNumbers
  <1>3. RecvCapacity \in Nat /\ Longest \in Nat
    BY WidthAssumption, LongestIs
  <1> HIDE DEF n, d, l
  <1>4. n <= w
    <2>1. CASE n = 0
      BY <2>1, <1>3
    <2>2. CASE n # 0
      <3>1. n - 1 \in 0..n - 1
        BY <1>2, <2>2
      <3>2. n - 1 \in 0..w - 1
        BY <1>1, <3>1
      <3> QED
        BY <1>2, <1>3, <3>2
    <2> QED
      BY <2>1, <2>2
  <1>5. l \in 0..RecvCapacity
    BY <1>2, <1>3
  <1> QED
    BY <1>2, <1>4, <1>5 DEF a, n, d, l

\* The ackno and the window fit the fields of the header.
LEMMA Advertises ==
    ASSUME NEW x, NEW isn \in 0..Mod32 - 1, NEW w \in 0..Longest, Listening(x, isn, w)
    PROVE  /\ C!R!ackno(x) # C!R!NoAckno <=> x.syn
           /\ x.syn => C!R!ackno(x) \in 0..Mod32 - 1
           /\ C!R!window_size(x) % Mod16 \in 0..RecvCapacity
  <1> DEFINE n == x.capacity - Len(x.reassembler.output.buffer)
             b == x.rcv_base
             v == C!R!W!wrap(b, x.isn)
  <1>1. b \in Nat /\ x.syn \in BOOLEAN /\ (x.syn => x.isn = isn) /\ x.capacity = RecvCapacity
    BY DEF Listening
  <1>2. C!R!window_size(x) = n
    BY DEF C!R!window_size, C!R!stream_out, C!R!BS!buffer_size
  <1>3. Len(x.reassembler.output.buffer) \in 0..RecvCapacity
    BY Assembled
  <1>4. n \in 0..RecvCapacity
    BY <1>1, <1>3, WidthAssumption
  <1> HIDE DEF n, b
  <1>5. n % Mod16 \in 0..RecvCapacity
    <2>1. n \in Nat /\ n <= RecvCapacity /\ Mod16 \in Nat \ {0} /\ RecvCapacity \in Nat
      BY <1>4, WidthAssumption
    <2>2. n % Mod16 \in Nat /\ n % Mod16 <= n
      BY <2>1
    <2> DEFINE m == n % Mod16
    <2> HIDE DEF m
    <2>3. m \in Nat /\ m <= n
      BY <2>2 DEF m
    <2>4. m \in 0..RecvCapacity
      BY <2>1, <2>3
    <2> QED
      BY <2>4 DEF m
  <1>6. x.syn => v \in 0..Mod32 - 1
    <2>1. ASSUME x.syn PROVE v \in 0..Mod32 - 1
      <3>1. v = C!R!W!wrap(b, isn)
        BY <1>1, <2>1
      <3>2. Mod32 \in Nat \ {0} /\ isn \in Int
        BY WidthAssumption
      <3> DEFINE t == b % Mod32
      <3>3. t \in Int
        BY <1>1, <3>2
      <3>4. v = (t + isn) % Mod32
        BY <3>1 DEF C!R!W!wrap
      <3> HIDE DEF t, v
      <3> QED
        BY <3>2, <3>3, <3>4
    <2> QED
      BY <2>1
  <1>7. C!R!NoAckno \notin 0..Mod32 - 1
    BY DEF C!R!NoAckno
  <1>8. C!R!ackno(x) = IF x.syn THEN v ELSE C!R!NoAckno
    BY Zenon DEF C!R!ackno, b
  <1> HIDE DEF v
  <1> QED
    BY <1>1, <1>2, <1>5, <1>6, <1>7, <1>8

\* A segment is a piece of the stream.
IsPiece(q, w, n, first, end) ==
    /\ first \in 0..Longest + 1 /\ end \in 0..Longest + 1 /\ first <= end
    /\ q.payload = RP!Bytes(first, end - first)
    /\ first = IF q.syn THEN 0 ELSE n - 1
    /\ first < end => end <= w

\* A segment on its way is such a piece.
LEMMA PieceOf ==
    ASSUME NEW isn, NEW w \in 0..Longest, NEW q \in Wires, NEW n, Begins(isn, q, w, n),
           NEW first, first = IF q.syn THEN 0 ELSE n - 1
    PROVE  IsPiece(q, w, n, first, first + Len(q.payload))
  <1> DEFINE l == Len(q.payload)
             end == first + l
  <1>1. q.payload \in Seq(Nat) /\ l \in Nat /\ q.syn \in BOOLEAN
    BY DEF Wires
  <1>2. n \in Nat /\ n <= w + 2 /\ w \in Nat /\ w <= Longest /\ Longest \in Nat
    BY LongestIs DEF Begins
  <1>3. q.payload = <<>> => l = 0
    OBVIOUS
  <1>4. /\ q.syn => first = 0 /\ l = 0
        /\ ~q.syn => first = n - 1 /\ n # 0
        /\ l = 0 \/ n + l <= w + 1
    BY <1>3 DEF Begins
  <1> HIDE DEF l
  <1>5. first \in 0..Longest + 1 /\ end \in 0..Longest + 1 /\ first <= end /\ end - first = l
        /\ (first < end => end <= w)
    BY <1>1, <1>2, <1>4
  <1>6. q.payload = RP!Bytes(first, l)
    <2>1. ASSUME NEW j \in 1..l
          PROVE  q.payload[j] = first + j
      <3>1. q.payload[j] = n + j - 1
        BY <2>1 DEF Begins, l
      <3>2. first = n - 1
        BY <1>1, <1>4, <2>1
      <3> QED
        BY <1>2, <3>1, <3>2
    <2>2. q.payload = [j \in 1..l |-> q.payload[j]]
      BY <1>1 DEF l
    <2> QED
      BY <2>1, <2>2 DEF RP!Bytes
  <1> QED
    BY <1>5, <1>6 DEF IsPiece, l

\* The receiver goes on listening, and forgets neither the SYN nor the FIN.
Hears(x, y, isn, w) ==
    /\ Listening(y, isn, w) /\ (x.syn => y.syn) /\ (x.fin => y.fin)

\* It does when it accepts a segment: of bytes it learns only those written.
LEMMA Accepts ==
    ASSUME NEW isn \in 0..Mod32 - 1, NEW w \in 0..Longest, NEW q \in Wire(isn, w),
           NEW x, Listening(x, isn, w), x.syn, q.fin => x.fin, NEW y, y = C!R!Accept(x, q)
    PROVE  Hears(x, y, isn, w)
  <1> DEFINE z == x.reassembler
             abs == IF q.syn THEN 1 ELSE C!R!W!unwrap(q.seqno, x.isn, z.cur_idx)
             index == (abs - 1) % Mod64
             a == C!R!SR!push_substring(z, q.payload, index, q.fin)
             b == C!R!FirstUnreceived(a, x.fin)
  <1>1. q \in Wires /\ q.syn \in BOOLEAN /\ q.fin \in BOOLEAN
    BY DEF Wire, Wires
  <1>2. PICK n : Begins(isn, q, w, n)
    BY DEF Wire, SP!Says, Begins
  <1>3. /\ IsReceiver(x) /\ x.capacity = RecvCapacity
        /\ x.fin \in BOOLEAN /\ x.isn = isn /\ RP!Sound(z)
        /\ RP!Known(z) \subseteq 0..w - 1 /\ (~x.fin => RP!Open(z))
    BY DEF Listening
  <1>4. z.cur_idx \in Nat /\ z.cur_idx <= w
    BY Assembled
  <1> DEFINE first == IF q.syn THEN 0 ELSE n - 1
             end == first + Len(q.payload)
  <1>5. IsPiece(q, w, n, first, end)
    BY <1>1, <1>2, PieceOf
  <1>6. n \in Nat /\ n <= w + 2 /\ w \in Nat /\ w <= Longest /\ Longest \in Nat
    BY <1>2, LongestIs DEF Begins
  <1>7. abs - 1 = first
    <2>1. CASE q.syn
      BY <2>1
    <2>2. CASE ~q.syn
      <3>1. z.cur_idx \in 0..Longest + 2 /\ n \in 0..Longest + 2 /\ isn \in Int
        BY <1>4, <1>6
      <3>2. SP!S!W!unwrap(SP!W!wrap(n, isn), isn, z.cur_idx) = n
        BY <3>1, Applies, SP!Unwrapped
      <3>3. C!R!W!unwrap(q.seqno, isn, z.cur_idx) = SP!S!W!unwrap(q.seqno, isn, z.cur_idx)
        BY Zenon DEF C!R!W!unwrap, SP!S!W!unwrap, C!R!W!difference, SP!S!W!difference,
                     C!R!W!AsSigned, SP!S!W!AsSigned, C!R!W!wrap, SP!S!W!wrap
      <3>4. abs = n
        BY <1>2, <1>3, <2>2, <3>2, <3>3 DEF Begins
      <3> QED
        BY <2>2, <3>4
    <2> QED
      BY <2>1, <2>2
  <1> HIDE DEF abs, first
  <1>8. index = first
    <2>1. first \in 0..Longest + 1
      BY <1>5 DEF IsPiece
    <2>2. first \in 0..Mod64 - 1 /\ Mod64 \in Nat \ {0}
      BY <2>1, LongestIs, WidthAssumption
    <2> QED
      BY <1>7, <2>2
  <1> HIDE DEF index, end
  <1>9. a = RP!SR!push_substring(z, RP!Bytes(first, end - first), first, q.fin)
    <2>1. q.payload = RP!Bytes(first, end - first)
      BY <1>5 DEF IsPiece
    <2> QED
      BY <1>8, <2>1, SamePush
  <1> HIDE DEF a
  <1>10. RP!Learns(z, a, first, end, q.fin)
    <2> HIDE DEF z
    <2>1. first \in 0..Longest + 1 /\ end \in 0..Longest + 1 /\ first <= end
      BY <1>5 DEF IsPiece
    <2>2. RP!Sound(z) /\ q.fin \in BOOLEAN /\ Longest + 1 < Int32Max
      BY <1>1, <1>3, ShortStreams
    <2> QED
      BY <1>9, <2>1, <2>2, Applies, RP!PushLearns
  <1>11. RP!Known(a) \subseteq 0..w - 1
    <2>1. ASSUME NEW k \in first..end - 1
          PROVE  k \in 0..w - 1
      <3>1. first \in Nat /\ end \in Nat /\ (first < end => end <= w)
        BY <1>5, <1>6 DEF IsPiece
      <3> QED
        BY <1>6, <3>1
    <2> QED
      BY <1>3, <1>10, <2>1 DEF RP!Learns
  <1>12. (~x.fin => RP!Open(a)) /\ RP!Sound(a)
    BY <1>1, <1>3, <1>10 DEF RP!Learns
  <1>13. b \in Nat
    <2>1. a.cur_idx \in Nat
      BY <1>12, Applies, RP!SoundNumbers
    <2> QED
      BY <2>1 DEF C!R!FirstUnreceived
  <1>14. y = [x EXCEPT !.reassembler = a, !.rcv_base = b]
    BY Zenon DEF C!R!Accept, a, b, index, abs
  <1> HIDE DEF b
  <1>15. /\ IsReceiver(y) /\ y.reassembler = a /\ y.capacity = x.capacity /\ y.syn = x.syn
         /\ y.fin = x.fin /\ y.isn = x.isn /\ y.rcv_base = b
    BY <1>3, <1>14 DEF IsReceiver, ReceiverMembers
  <1>16. Listening(y, isn, w)
    BY <1>3, <1>11, <1>12, <1>13, <1>15, Zenon DEF Listening
  <1> QED
    BY <1>15, <1>16, Zenon DEF Hears

\* segment_received keeps a receiver listening.
LEMMA ReceiverHears ==
    ASSUME NEW isn \in 0..Mod32 - 1, NEW w \in 0..Longest, NEW q \in Wire(isn, w),
           NEW x, Listening(x, isn, w), NEW y, y = C!R!segment_received(x, q)
    PROVE  Hears(x, y, isn, w)
  <1> DEFINE seqno == q.seqno
             opened == [x EXCEPT !.syn = TRUE, !.isn = seqno]
  <1>1. q \in Wires /\ q.syn \in BOOLEAN /\ q.fin \in BOOLEAN
    BY DEF Wire, Wires
  <1>2. /\ IsReceiver(x) /\ x.syn \in BOOLEAN /\ x.fin \in BOOLEAN
    BY DEF Listening
  <1>3. CASE q.syn = x.syn
    <2>1. y = x
      BY <1>3, Zenon DEF C!R!segment_received
    <2> QED
      BY <2>1, Zenon DEF Hears
  <1>4. CASE q.syn # x.syn /\ q.syn
    <2>1. x.syn = FALSE /\ x.fin = FALSE
      BY <1>2, <1>4 DEF Listening
    <2>2. seqno = isn
      <3>1. q.seqno = SP!W!wrap(0, isn)
        BY <1>4 DEF Wire, SP!Says
      <3>2. 0 % Mod32 = 0 /\ isn % Mod32 = isn /\ 0 + isn = isn
        BY WidthAssumption
      <3> QED
        BY <3>1, <3>2 DEF SP!W!wrap
    <2> HIDE DEF seqno
    <2>3. /\ IsReceiver(opened) /\ opened.reassembler = x.reassembler /\ opened.syn = TRUE
          /\ opened.capacity = x.capacity /\ opened.isn = isn /\ opened.fin = x.fin
          /\ opened.rcv_base = x.rcv_base
      BY <1>2, <2>2 DEF IsReceiver, ReceiverMembers
    <2>4. Listening(opened, isn, w)
      <3>1. TRUE \in BOOLEAN
        OBVIOUS
      <3> HIDE DEF opened
      <3> QED
        BY <2>1, <2>3, <3>1, Zenon DEF Listening
    <2> DEFINE fin == opened.fin \/ q.fin
               noted == [opened EXCEPT !.fin = fin]
    <2>5. y = C!R!Accept(noted, q)
      <3>1. ~(q.fin /\ opened.fin)
        BY <2>1, <2>3, Zenon
      <3> QED
        BY <1>4, <3>1, Zenon DEF C!R!segment_received, seqno
    <2> HIDE DEF opened
    <2>6. fin \in BOOLEAN /\ (q.fin => fin)
      BY <1>1
    <2> HIDE DEF fin
    <2>7. /\ IsReceiver(noted) /\ noted.reassembler = opened.reassembler
          /\ noted.syn = opened.syn /\ noted.capacity = opened.capacity
          /\ noted.isn = opened.isn /\ noted.fin = fin /\ noted.rcv_base = opened.rcv_base
      BY <2>3 DEF IsReceiver, ReceiverMembers
    <2> HIDE DEF noted
    <2>8. Listening(noted, isn, w) /\ noted.syn
      BY <2>1, <2>3, <2>4, <2>6, <2>7, Zenon DEF Listening
    <2>9. q.fin => noted.fin
      BY <2>6, <2>7, Zenon
    <2>10. Hears(noted, y, isn, w)
      BY <2>5, <2>8, <2>9, Accepts
    <2> QED
      BY <2>1, <2>8, <2>10, Zenon DEF Hears
  <1>5. CASE q.syn # x.syn /\ ~q.syn
    <2>1. x.syn = TRUE
      BY <1>1, <1>2, <1>5
    <2> DEFINE fin == x.fin \/ q.fin
               noted == [x EXCEPT !.fin = fin]
    <2>2. CASE q.fin /\ x.fin
      <3>1. y = x
        BY <1>5, <2>2, Zenon DEF C!R!segment_received
      <3> QED
        BY <3>1, Zenon DEF Hears
    <2>3. CASE ~(q.fin /\ x.fin)
      <3>1. y = C!R!Accept(noted, q)
        BY <1>5, <2>3, Zenon DEF C!R!segment_received
      <3>2. fin \in BOOLEAN /\ (q.fin => fin) /\ (x.fin => fin)
        BY <1>1
      <3> HIDE DEF fin
      <3>3. /\ IsReceiver(noted) /\ noted.reassembler = x.reassembler
            /\ noted.syn = x.syn /\ noted.capacity = x.capacity
            /\ noted.isn = x.isn /\ noted.fin = fin /\ noted.rcv_base = x.rcv_base
        BY <1>2 DEF IsReceiver, ReceiverMembers
      <3> HIDE DEF noted
      <3>4. Listening(noted, isn, w) /\ noted.syn
        BY <2>1, <3>2, <3>3, Zenon DEF Listening
      <3>5. q.fin => noted.fin
        BY <3>2, <3>3, Zenon
      <3>6. Hears(noted, y, isn, w)
        BY <3>1, <3>4, <3>5, Accepts
      <3> QED
        BY <3>2, <3>3, <3>6, Zenon DEF Hears
    <2> QED
      BY <2>2, <2>3
  <1> QED
    BY <1>1, <1>2, <1>3, <1>4, <1>5

\* The application reads a byte.
LEMMA ReceiverRead ==
    ASSUME NEW isn, NEW w, NEW x, Listening(x, isn, w), x.reassembler.output.buffer # <<>>,
           NEW y, y = R!read(x, 1)
    PROVE  /\ Hears(x, y, isn, w) /\ y.fin = x.fin /\ y.syn = x.syn
           /\ y.reassembler.output.error = x.reassembler.output.error
  <1> DEFINE z == x.reassembler
             a == RP!AfterRead(z, 1)
  <1>1. /\ IsReceiver(x) /\ RP!Sound(z)
    BY DEF Listening
  <1>2. 1 \in Nat /\ 1 <= Len(z.output.buffer)
    <2> DEFINE d == z.output.read_bytes
               k == z.cur_idx - d
    <2>1. d \in Nat /\ k \in Nat
      BY <1>1, Applies, RP!SoundNumbers
    <2>2. z.output.buffer = RP!Bytes(d, k)
      BY <1>1 DEF RP!Sound, RP!Assembling
    <2> HIDE DEF d, k
    <2>3. RP!Bytes(d, k) \in Seq(Nat)
      BY <2>1, Applies, RP!BytesType
    <2> QED
      BY <2>2, <2>3
  <1>3. RP!Reads(z, a)
    <2> HIDE DEF z
    <2> QED
      BY <1>1, <1>2, Applies, RP!ReadReads
  <1>4. y = [x EXCEPT !.reassembler = a]
    BY DEF RP!AfterRead, R!read, R!BS!pop_output, RP!BS!pop_output, R!BS!AtMost,
           RP!BS!AtMost, R!BS!buffer_size, RP!BS!buffer_size
  <1> HIDE DEF a
  <1>5. /\ IsReceiver(y) /\ y.reassembler = a /\ y.syn = x.syn /\ y.capacity = x.capacity
        /\ y.isn = x.isn /\ y.fin = x.fin /\ y.rcv_base = x.rcv_base
    BY <1>1, <1>4 DEF IsReceiver, ReceiverMembers
  <1>6. /\ RP!Sound(a) /\ RP!Known(a) = RP!Known(z) /\ (RP!Open(z) => RP!Open(a))
        /\ a.output.error = z.output.error
    BY <1>3 DEF RP!Reads
  <1>7. Listening(y, isn, w)
    BY <1>5, <1>6, Zenon DEF Listening
  <1> QED
    BY <1>5, <1>6, <1>7, Zenon DEF Hears

\* The inbound stream fails.
LEMMA ReceiverFails ==
    ASSUME NEW isn, NEW w, NEW x, Listening(x, isn, w),
           NEW y, y = [x EXCEPT !.reassembler.output = C!BS!set_error(@)]
    PROVE  /\ Hears(x, y, isn, w) /\ y.fin = x.fin /\ y.syn = x.syn
           /\ y.reassembler.output.error
  <1> DEFINE z == x.reassembler
             a == RP!AfterError(z)
  <1>1. IsReceiver(x) /\ RP!Sound(z)
    BY DEF Listening
  <1>2. RP!Fails(z, a)
    <2> HIDE DEF z
    <2> QED
      BY <1>1, Applies, RP!ErrorFails
  <1>3. y = [x EXCEPT !.reassembler = a]
    BY DEF RP!AfterError, C!BS!set_error, RP!BS!set_error
  <1> HIDE DEF a
  <1>4. /\ IsReceiver(y) /\ y.reassembler = a /\ y.syn = x.syn /\ y.capacity = x.capacity
        /\ y.isn = x.isn /\ y.fin = x.fin /\ y.rcv_base = x.rcv_base
    BY <1>1, <1>3 DEF IsReceiver, ReceiverMembers
  <1>5. /\ RP!Sound(a) /\ RP!Known(a) = RP!Known(z) /\ (RP!Open(z) => RP!Open(a))
        /\ a.output.error
    BY <1>2, Zenon DEF RP!Fails
  <1>6. Listening(y, isn, w)
    BY <1>4, <1>5, Zenon DEF Listening
  <1> QED
    BY <1>4, <1>5, <1>6, Zenon DEF Hears

-----------------------------------------------------------------------------
\* The connection.

ConnMembers == {"sender", "receiver", "segments_out", "linger_after_streams_finish",
                "time_since_last_segment_received", "active"}
IsConn(c) == c = [m \in ConnMembers |-> c[m]]

\* A connection whose application has written v bytes and the other application w: its
\* halves are sound, what it sends is a piece of its stream, and it is heard only if it
\* has spoken.
Core(c, isn, other, w, v) ==
    /\ IsConn(c) /\ c.active \in BOOLEAN
    /\ SP!Talking(c.sender) /\ c.sender.isn = isn /\ c.sender.stream.write_bytes = v
    /\ Listening(c.receiver, other, w)
    /\ c.receiver.syn => c.sender.syn_sent
    /\ c.segments_out \in Seq(Wire(isn, v))

\* It is over because of an error, or because both FINs have been heard.
Parted(c) ==
    \/ c.active \/ c.receiver.reassembler.output.error
    \/ c.sender.fin_sent /\ c.sender.outstanding_segments = <<>> /\ c.receiver.fin

\* The retransmissions are counted as long as it is active.
Counted(c) == c.active => c.sender.consecutive_retransmission <= MAX_RETX_ATTEMPTS

Live(c, isn, other, w, v) == Core(c, isn, other, w, v) /\ Parted(c) /\ Counted(c)

\* A connection whose parts are given.
Made(d, y, z, o, a) ==
    /\ IsConn(d) /\ d.sender = y /\ d.receiver = z /\ d.segments_out = o /\ d.active = a

\* What set_seg adds to a segment of the sender.
LEMMA SegIsWire ==
    ASSUME NEW c, NEW isn \in 0..Mod32 - 1, NEW w \in 0..Longest,
           Listening(c.receiver, isn, w), NEW i, NEW v, NEW q \in SP!Said(i, v)
    PROVE  LET s == C!set_seg(c, q)
           IN  s \in Wire(i, v) /\ [s EXCEPT !.rst = TRUE] \in Wire(i, v)
  <1> DEFINE x == c.receiver
             n == C!R!ackno(x)
             k == C!R!window_size(x) % Mod16
             s == C!set_seg(c, q)
             t == [s EXCEPT !.rst = TRUE]
             m == [q EXCEPT !.ack = TRUE, !.ackno = n, !.win = k]
  <1>1. PICK u \in Int, syn \in BOOLEAN, fin \in BOOLEAN, data \in Seq(Nat) :
            q = SP!S!Segment(u, syn, fin, data)
    BY DEF SP!Said, SP!SegmentSet
  <1>2. q = [seqno |-> u, syn |-> syn, fin |-> fin, payload |-> data,
             ack |-> FALSE, rst |-> FALSE, ackno |-> 0, win |-> 0]
    BY <1>1 DEF SP!S!Segment
  <1>3. /\ n # C!R!NoAckno <=> x.syn
        /\ x.syn => n \in 0..Mod32 - 1
        /\ k \in 0..RecvCapacity
    BY Advertises
  <1>4. s = IF n # C!R!NoAckno THEN m ELSE q
    BY Zenon DEF C!set_seg, C!HasAckno
  <1>5. SP!Says(i, q, v)
    BY DEF SP!Said
  <1>6. RecvCapacity \in Nat /\ Mod32 \in Nat \ {0}
    BY WidthAssumption
  <1>7. 0 \in 0..Mod32 - 1 /\ 0 \in 0..RecvCapacity
    BY <1>6
  <1>7a. q \in Wires
    BY <1>2, <1>7 DEF Wires
  <1> HIDE DEF n, k
  <1>8. s \in Wires /\ s.seqno = q.seqno /\ s.syn = q.syn /\ s.payload = q.payload
    <2>1. CASE n # C!R!NoAckno
      <3>1. n \in 0..Mod32 - 1 /\ k \in 0..RecvCapacity
        BY <1>3, <2>1
      <3>2. m \in Wires /\ m.seqno = q.seqno /\ m.syn = q.syn /\ m.payload = q.payload
        BY <1>7a, <3>1 DEF Wires
      <3> QED
        BY <1>4, <2>1, <3>2
    <2>2. CASE ~(n # C!R!NoAckno)
      BY <1>4, <1>7a, <2>2
    <2> QED
      BY <2>1, <2>2
  <1> HIDE DEF s
  <1>9. t \in Wires /\ t.seqno = s.seqno /\ t.syn = s.syn /\ t.payload = s.payload
    BY <1>8 DEF Wires
  <1> HIDE DEF t
  <1>10. SP!Says(i, s, v) /\ SP!Says(i, t, v)
    BY <1>5, <1>8, <1>9, Zenon DEF SP!Says
  <1> QED
    BY <1>8, <1>9, <1>10 DEF Wire, s, t

\* What a live connection's peers see of it once clean_shutdown has run: both streams
\* have ended and nothing is in flight, so the FINs have been sent and heard.
LEMMA Closes ==
    ASSUME NEW c, NEW isn, NEW other, NEW w, NEW v, Live(c, isn, other, w, v),
           NEW d, d = C!clean_shutdown(c)
    PROVE  Live(d, isn, other, w, v) /\ (~c.active => ~d.active)
  <1> DEFINE passive == ~C!BS!eof(c.sender.stream) /\ C!inbound_ended(c)
             linger == c.linger_after_streams_finish /\ ~passive
             done == C!StreamsFinished(c) /\ C!LingerOver(c, linger)
             a == c.active /\ ~done
  <1>1. /\ IsConn(c) /\ c.active \in BOOLEAN
        /\ SP!Talking(c.sender) /\ Listening(c.receiver, other, w)
        /\ c.receiver.syn => c.sender.syn_sent
    BY DEF Live, Core
  <1>2. d = [c EXCEPT !.linger_after_streams_finish = linger, !.active = a]
    BY Zenon DEF C!clean_shutdown
  <1>3. c.active /\ ~a => C!StreamsFinished(c)
    BY Zenon
  <1>4. a \in BOOLEAN /\ (~c.active => ~a)
    BY Zenon
  <1> HIDE DEF linger, a
  <1>5. Made(d, c.sender, c.receiver, c.segments_out, a)
    BY <1>1, <1>2 DEF Made, IsConn, ConnMembers
  <1>6. ASSUME c.active, ~a
        PROVE  /\ c.sender.fin_sent /\ c.sender.outstanding_segments = <<>>
               /\ c.receiver.fin
    <2>1. /\ c.sender.stream.input_end /\ c.sender.bytes_in_flight = 0
          /\ c.receiver.reassembler.output.input_end
      BY <1>3, <1>6, Zenon DEF C!StreamsFinished, C!BS!eof, C!BS!input_ended,
                               C!inbound_ended, C!R!stream_out
    <2>2. c.receiver.fin
      BY <1>1, <2>1, Zenon DEF Listening, RP!Open
    <2>3. c.sender.syn_sent
      BY <1>1, <2>2, Zenon DEF Listening
    <2>4. c.sender.outstanding_segments = <<>>
      <3> DEFINE y == c.sender
      <3> HIDE DEF y
      <3>1. SP!Talk(y)
        BY <1>1, Applies, SP!TalkFacts DEF y
      <3> QED
        BY <2>1, <3>1, Zenon DEF SP!Talk, y
    <2>5. SP!Moving(c.sender)
      BY <1>1, Zenon DEF SP!Talking
    <2> QED
      BY <2>1, <2>2, <2>3, <2>4, <2>5, Zenon DEF SP!Moving
  <1>7. Core(d, isn, other, w, v)
    BY <1>4, <1>5, Zenon DEF Live, Core, Made
  <1>8. Parted(d)
    BY <1>4, <1>5, <1>6, Zenon DEF Live, Parted, Made
  <1>9. Counted(d)
    BY <1>4, <1>5, Zenon DEF Live, Counted, Made
  <1> QED
    BY <1>4, <1>5, <1>7, <1>8, <1>9, Zenon DEF Live, Made

\* Segments of the sender go out with the ackno and the window.
LEMMA Sends ==
    ASSUME NEW c, NEW isn, NEW other \in 0..Mod32 - 1, NEW w \in 0..Longest, NEW v,
           Live(c, isn, other, w, v), NEW d, d = C!send_segs_from_sender(c)
    PROVE  Live(d, isn, other, w, v)
  <1> DEFINE y == c.sender
             o == y.segments_out
             T == SP!Said(isn, v)
             U == Wire(isn, v)
             p == [i \in DOMAIN o |-> C!set_seg(c, o[i])]
             z == [y EXCEPT !.segments_out = <<>>]
             s == c.segments_out \o p
             e == [c EXCEPT !.segments_out = s, !.sender = z]
  <1>1. /\ IsConn(c) /\ SP!Talking(y) /\ y.isn = isn /\ y.stream.write_bytes = v
        /\ Listening(c.receiver, other, w) /\ c.segments_out \in Seq(U)
    BY DEF Live, Core
  <1>2. o \in Seq(T)
    <2> HIDE DEF y
    <2>1. SP!Talk(y)
      BY <1>1, Applies, SP!TalkFacts
    <2> QED
      BY <1>1, <2>1, Zenon DEF SP!Talk
  <1>3. p \in Seq(U)
    <2> HIDE DEF y, T, U
    <2>1. ASSUME NEW i \in 1..Len(o) PROVE C!set_seg(c, o[i]) \in U
      <3>1. o[i] \in T
        BY <1>2, <2>1
      <3> QED
        BY <1>1, <3>1, SegIsWire DEF T, U
    <2>2. DOMAIN o = 1..Len(o) /\ Len(o) \in Nat
      BY <1>2
    <2> DEFINE f(i) == C!set_seg(c, o[i])
               l == Len(o)
    <2>3. p = [i \in 1..l |-> f(i)] /\ l \in Nat /\ \A i \in 1..l : f(i) \in U
      BY <2>1, <2>2
    <2> HIDE DEF f, l, o
    <2>4. [i \in 1..l |-> f(i)] \in Seq(U)
      BY <2>3
    <2> HIDE DEF p
    <2> QED
      BY <2>3, <2>4
  <1>4. s \in Seq(U)
    <2> HIDE DEF p, U
    <2> QED
      BY <1>1, <1>3
  <1>5. SP!Queues(y, z, <<>>)
    <2>1. <<>> \in Seq(SP!Said(y.isn, y.stream.write_bytes))
      OBVIOUS
    <2> HIDE DEF y
    <2> QED
      BY <1>1, <2>1, Applies, SP!TalkQueue
  <1>6. d = C!clean_shutdown(e)
    BY DEF C!send_segs_from_sender
  <1> HIDE DEF s, z
  <1>7. Made(e, z, c.receiver, s, c.active)
    BY <1>1 DEF Made, IsConn, ConnMembers
  <1> HIDE DEF e
  <1>8. /\ SP!Talking(z) /\ z.isn = isn /\ z.stream.write_bytes = v
        /\ z.consecutive_retransmission = y.consecutive_retransmission
        /\ z.fin_sent = y.fin_sent /\ z.outstanding_segments = y.outstanding_segments
        /\ z.syn_sent = y.syn_sent
    BY <1>1, <1>5, Zenon DEF SP!Queues, SP!Goes
  <1>9. Live(e, isn, other, w, v)
    <2>1. Core(e, isn, other, w, v)
      BY <1>4, <1>7, <1>8, Zenon DEF Live, Core, Made
    <2>2. Parted(e) /\ Counted(e)
      BY <1>7, <1>8, Zenon DEF Live, Parted, Counted, Made
    <2> QED
      BY <2>1, <2>2, Zenon DEF Live
  <1> QED
    BY <1>6, <1>9, Closes

\* A connection that has failed.
LEMMA Errs ==
    ASSUME NEW c, NEW isn, NEW other, NEW w, NEW v,
           Core(c, isn, other, w, v), NEW d, d = C!SetError(c)
    PROVE  /\ Live(d, isn, other, w, v) /\ ~d.active
           /\ d.sender.segments_out = c.sender.segments_out
           /\ d.segments_out = c.segments_out /\ d.receiver.reassembler.output.error
  <1> DEFINE y == [c.sender EXCEPT !.stream = C!BS!set_error(@)]
             z == [c.receiver EXCEPT !.reassembler.output = C!BS!set_error(@)]
  <1>1. /\ IsConn(c) /\ SP!Talking(c.sender) /\ Listening(c.receiver, other, w)
    BY DEF Core
  <1>2. /\ Hears(c.receiver, z, other, w) /\ z.fin = c.receiver.fin /\ z.syn = c.receiver.syn
        /\ z.reassembler.output.error
    <2> DEFINE x == c.receiver
    <2> HIDE DEF x
    <2> QED
      BY <1>1, ReceiverFails DEF x
  <1>3. /\ SP!Talking(y) /\ SP!Goes(c.sender, y) /\ y.segments_out = c.sender.segments_out
        /\ y.consecutive_retransmission = c.sender.consecutive_retransmission
    <2> DEFINE x == c.sender
    <2>1. y = [x EXCEPT !.stream = SP!BS!set_error(@)]
      BY DEF C!BS!set_error, SP!BS!set_error
    <2> HIDE DEF x, y
    <2> QED
      BY <1>1, <2>1, Applies, SP!TalkError DEF x
  <1>4. d = [c EXCEPT !.sender = y, !.receiver = z, !.active = FALSE]
    BY <1>1 DEF C!SetError, IsConn, ConnMembers
  <1> HIDE DEF y, z
  <1>5. Made(d, y, z, c.segments_out, FALSE)
    BY <1>1, <1>4 DEF Made, IsConn, ConnMembers
  <1>6. FALSE \in BOOLEAN
    OBVIOUS
  <1>7. Core(d, isn, other, w, v)
    BY <1>2, <1>3, <1>5, <1>6, Zenon DEF Core, Made, Hears, SP!Goes
  <1>8. Parted(d) /\ Counted(d) /\ ~d.active
    BY <1>2, <1>5, Zenon DEF Parted, Counted, Made
  <1> QED
    BY <1>2, <1>3, <1>5, <1>7, <1>8, Zenon DEF Live, Made

\* A connection that fails and says so.
LEMMA Aborts ==
    ASSUME NEW c, NEW isn, NEW other \in 0..Mod32 - 1, NEW w \in 0..Longest, NEW v,
           Core(c, isn, other, w, v), c.sender.segments_out # <<>>,
           NEW d, d = C!unclean_shutdown(c)
    PROVE  Live(d, isn, other, w, v) /\ ~d.active
  <1> DEFINE e == C!SetError(c)
             y == e.sender
             o == y.segments_out
             front == Head(c.sender.segments_out)
             g == [C!set_seg(c, front) EXCEPT !.rst = TRUE]
             s == Append(e.segments_out, g)
             t == Tail(o)
             z == [y EXCEPT !.segments_out = t]
             T == SP!Said(isn, v)
             U == Wire(isn, v)
  <1>1. /\ Live(e, isn, other, w, v) /\ ~e.active
        /\ o = c.sender.segments_out /\ e.segments_out = c.segments_out
        /\ e.receiver.reassembler.output.error
    BY Errs
  <1>2. d = [e EXCEPT !.segments_out = s, !.sender.segments_out = Tail(@)]
    BY DEF C!unclean_shutdown
  <1> HIDE DEF e
  <1>3. /\ IsConn(e) /\ SP!Talking(y) /\ y.isn = isn /\ y.stream.write_bytes = v
        /\ e.segments_out \in Seq(U)
    BY <1>1 DEF Live, Core
  <1>4. o \in Seq(T)
    <2> HIDE DEF y
    <2>1. SP!Talk(y)
      BY <1>3, Applies, SP!TalkFacts
    <2> QED
      BY <1>3, <2>1, Zenon DEF SP!Talk
  <1>5. t \in Seq(T) /\ front \in T
    <2> HIDE DEF o, T
    <2>1. o # <<>> /\ front = Head(o)
      BY <1>1
    <2> QED
      BY <1>4, <2>1
  <1>6. s \in Seq(U)
    <2>1. Listening(c.receiver, other, w)
      BY DEF Core
    <2>2. g \in U
      BY <1>5, <2>1, SegIsWire DEF T, U
    <2> HIDE DEF g, U
    <2> QED
      BY <1>3, <2>2
  <1>7. SP!Queues(y, z, t)
    <2>1. t \in Seq(SP!Said(y.isn, y.stream.write_bytes))
      BY <1>3, <1>5
    <2> HIDE DEF y, t
    <2> QED
      BY <1>3, <2>1, Applies, SP!TalkQueue
  <1>8. d = [e EXCEPT !.segments_out = s, !.sender = z]
    BY <1>2, <1>3 DEF IsConn, ConnMembers
  <1> HIDE DEF s, z
  <1>9. Made(d, z, e.receiver, s, e.active)
    BY <1>3, <1>8 DEF Made, IsConn, ConnMembers
  <1>10. /\ SP!Talking(z) /\ z.isn = isn /\ z.stream.write_bytes = v
         /\ z.syn_sent = y.syn_sent
    BY <1>3, <1>7, Zenon DEF SP!Queues, SP!Goes
  <1>11. Core(d, isn, other, w, v)
    BY <1>1, <1>6, <1>9, <1>10, Zenon DEF Live, Core, Made
  <1>12. Parted(d) /\ Counted(d) /\ ~d.active
    BY <1>1, <1>9, Zenon DEF Parted, Counted, Made
  <1> QED
    BY <1>11, <1>12, Zenon DEF Live

\* The numbers of a live connection.
LEMMA CoreFacts ==
    ASSUME NEW c, NEW isn, NEW other, NEW w, NEW v, Core(c, isn, other, w, v)
    PROVE  /\ SP!Talk(c.sender) /\ v \in 0..Longest /\ isn \in 0..Mod32 - 1
  <1> DEFINE x == c.sender
  <1>1. SP!Talking(x) /\ x.isn = isn /\ x.stream.write_bytes = v
    BY DEF Core
  <1> HIDE DEF x
  <1>2. SP!Talk(x)
    BY <1>1, Applies, SP!TalkFacts
  <1>3. v \in 0..Longest /\ isn \in 0..Mod32 - 1
    BY <1>1, <1>2 DEF SP!Talk
  <1> QED
    BY <1>2, <1>3 DEF x

\* The halves of a connection change.
LEMMA Placed ==
    ASSUME NEW c, NEW isn, NEW other, NEW w, NEW v, Core(c, isn, other, w, v),
           NEW u \in Nat, v <= u, NEW y, SP!Talking(y), y.isn = isn,
           y.stream.write_bytes = u, NEW z, Listening(z, other, w), z.syn => y.syn_sent,
           NEW f, Made(f, y, z, c.segments_out, c.active)
    PROVE  /\ Core(f, isn, other, w, u)
           /\ /\ c.active \/ z.reassembler.output.error
              /\ c.active => y.consecutive_retransmission <= MAX_RETX_ATTEMPTS
              => Live(f, isn, other, w, u)
  <1>1. c.segments_out \in Seq(Wire(isn, u))
    <2>1. v \in Nat
      BY CoreFacts
    <2>2. Wire(isn, v) \subseteq Wire(isn, u)
      BY <2>1, WireMore
    <2>3. c.segments_out \in Seq(Wire(isn, v))
      BY DEF Core
    <2> DEFINE T == Wire(isn, v)
               U == Wire(isn, u)
               o == c.segments_out
    <2> HIDE DEF T, U, o
    <2>4. T \subseteq U /\ o \in Seq(T)
      BY <2>2, <2>3 DEF T, U, o
    <2>5. o \in Seq(U)
      BY <2>4
    <2> QED
      BY <2>5 DEF U, o
  <1>2. Core(f, isn, other, w, u)
    BY <1>1, Zenon DEF Core, Made
  <1>3. ASSUME c.active \/ z.reassembler.output.error,
               c.active => y.consecutive_retransmission <= MAX_RETX_ATTEMPTS
        PROVE  Parted(f) /\ Counted(f)
    BY <1>3, Zenon DEF Parted, Counted, Made
  <1> QED
    BY <1>2, <1>3, Zenon DEF Live

\* The count stays or starts again.
LEMMA CountKept ==
    ASSUME NEW c, Counted(c), NEW n, n \in {0, c.sender.consecutive_retransmission}
    PROVE  c.active => n <= MAX_RETX_ATTEMPTS
  BY WidthAssumption DEF Counted

\* The sender of a connection is replaced.
LEMMA NewSender ==
    ASSUME NEW c, IsConn(c), NEW y, NEW d, d = [c EXCEPT !.sender = y]
    PROVE  Made(d, y, c.receiver, c.segments_out, c.active)
  BY DEF Made, IsConn, ConnMembers

\* connect(), also when the receiver has just heard a SYN.
LEMMA Connects ==
    ASSUME NEW c, NEW isn, NEW other \in 0..Mod32 - 1, NEW w \in 0..Longest, NEW v,
           Live(c, isn, other, w, v), NEW z, Listening(z, other, w),
           c.active \/ z.reassembler.output.error,
           NEW g, Made(g, c.sender, z, c.segments_out, c.active), NEW d, d = C!connect(g)
    PROVE  Live(d, isn, other, w, v)
  <1> DEFINE x == c.sender
             y == C!S!fill_window(x)
             f == [g EXCEPT !.sender = y]
  <1>1. Core(c, isn, other, w, v) /\ Counted(c) /\ SP!Talking(x) /\ x.isn = isn
        /\ x.stream.write_bytes = v
    BY DEF Live, Core
  <1>2. SP!Talking(y) /\ SP!Goes(x, y) /\ y.syn_sent
    <2>1. y = SP!S!fill_window(x)
      BY SameFill
    <2>2. SP!Healthy(x, 0, TRUE) /\ SP!Spoken(x)
      BY <1>1 DEF SP!Talking
    <2> HIDE DEF x, y
    <2> QED
      BY <2>1, <2>2, Applies, SP!TalkFill
  <1>3. d = C!send_segs_from_sender(f)
    BY Zenon DEF C!connect, Made
  <1> HIDE DEF y
  <1>4. Made(f, y, z, c.segments_out, c.active)
    <2>1. IsConn(g)
      BY DEF Made
    <2>2. Made(f, y, g.receiver, g.segments_out, g.active)
      BY <2>1, NewSender
    <2> QED
      BY <2>2, Zenon DEF Made
  <1> HIDE DEF f
  <1>5. c.active => y.consecutive_retransmission <= MAX_RETX_ATTEMPTS
    BY <1>1, <1>2, CountKept DEF SP!Goes
  <1>6. v \in Nat /\ v <= v
    BY <1>1, CoreFacts
  <1>7. y.isn = isn /\ y.stream.write_bytes = v
    BY <1>1, <1>2, Zenon DEF SP!Goes
  <1>8. Live(f, isn, other, w, v)
    BY <1>1, <1>2, <1>4, <1>5, <1>6, <1>7, Placed
  <1> QED
    BY <1>3, <1>8, Sends

\* A sender that has something to say.
LEMMA Speaks ==
    ASSUME NEW c, NEW isn, NEW other \in 0..Mod32 - 1, NEW w \in 0..Longest, NEW v,
           Live(c, isn, other, w, v), c.active, NEW u \in Nat, v <= u,
           NEW y, SP!Talking(y), y.isn = isn, y.syn_sent, y.stream.write_bytes = u,
           y.consecutive_retransmission \in {0, c.sender.consecutive_retransmission},
           NEW d, d = C!send_segs_from_sender([c EXCEPT !.sender = y])
    PROVE  Live(d, isn, other, w, u)
  <1> DEFINE f == [c EXCEPT !.sender = y]
  <1>1. /\ Core(c, isn, other, w, v) /\ Counted(c) /\ IsConn(c)
        /\ Listening(c.receiver, other, w)
    BY DEF Live, Core
  <1>2. Made(f, y, c.receiver, c.segments_out, c.active)
    BY <1>1, NewSender
  <1> HIDE DEF f
  <1>3. c.active => y.consecutive_retransmission <= MAX_RETX_ATTEMPTS
    BY <1>1, CountKept
  <1>4. Live(f, isn, other, w, u)
    BY <1>1, <1>2, <1>3, Placed
  <1> QED
    BY <1>4, Sends DEF f

\* write() of the application's next n bytes.
LEMMA Writes ==
    ASSUME NEW c, NEW isn, NEW other \in 0..Mod32 - 1, NEW w \in 0..Longest, NEW v,
           Live(c, isn, other, w, v), c.active, ~c.sender.stream.input_end,
           NEW n \in Nat \ {0}, v + n <= Longest,
           n <= BS!remaining_capacity(c.sender.stream),
           NEW d, d = C!write(c, [i \in 1..n |-> v + i])
    PROVE  Live(d, isn, other, w, v + n)
  <1> DEFINE x == c.sender
             data == [i \in 1..n |-> x.stream.write_bytes + i]
             y == C!S!fill_window([x EXCEPT !.stream = C!BS!write(@, data)])
  <1>1. Core(c, isn, other, w, v) /\ SP!Talking(x) /\ x.isn = isn
        /\ x.stream.write_bytes = v
    BY DEF Live, Core
  <1>2. /\ SP!Talking(y) /\ y.isn = x.isn /\ y.syn_sent
        /\ y.stream.write_bytes = x.stream.write_bytes + n
        /\ y.consecutive_retransmission \in {0, x.consecutive_retransmission}
    <2>1. y = SP!S!fill_window([x EXCEPT !.stream = C!BS!write(@, data)])
      BY SameFill
    <2>2. C!BS!write(x.stream, data) = SP!BS!write(x.stream, data)
      BY Zenon DEF C!BS!write, SP!BS!write, C!BS!Accepted, SP!BS!Accepted,
                   C!BS!AtMost, SP!BS!AtMost, C!BS!remaining_capacity,
                   SP!BS!remaining_capacity, C!BS!buffer_size, SP!BS!buffer_size
    <2>3. BS!remaining_capacity(x.stream) = SP!BS!remaining_capacity(x.stream)
      BY Zenon DEF BS!remaining_capacity, SP!BS!remaining_capacity,
                   BS!buffer_size, SP!BS!buffer_size
    <2>4. /\ n \in Nat /\ ~x.stream.input_end /\ x.stream.write_bytes + n <= Longest
          /\ n <= SP!BS!remaining_capacity(x.stream)
      BY <1>1, <2>3
    <2>5. y = SP!AfterWrite(x, n)
      BY <2>1, <2>2, Zenon DEF SP!AfterWrite
    <2> HIDE DEF x, y
    <2> QED
      BY <1>1, <2>4, <2>5, Applies, SP!TalkWritten
  <1>3. v \in Nat
    BY <1>1, CoreFacts
  <1>4. d = C!send_segs_from_sender([c EXCEPT !.sender = y])
    <2>1. [i \in 1..n |-> v + i] = data
      BY <1>1
    <2>2. data # <<>>
      <3>1. 1 \in DOMAIN data
        OBVIOUS
      <3>2. DOMAIN <<>> = {}
        OBVIOUS
      <3> HIDE DEF data
      <3> QED
        BY <3>1, <3>2
    <2> HIDE DEF data
    <2>3. d = C!write(c, data)
      BY <2>1, Zenon
    <2> QED
      BY <2>2, <2>3, Zenon DEF C!write, C!fill_from
  <1> HIDE DEF y
  <1>5. v + n \in Nat /\ v <= v + n
    BY <1>3
  <1> QED
    BY <1>1, <1>2, <1>4, <1>5, Speaks

\* end_input_stream().
LEMMA Ends ==
    ASSUME NEW c, NEW isn, NEW other \in 0..Mod32 - 1, NEW w \in 0..Longest, NEW v,
           Live(c, isn, other, w, v), c.active, NEW d, d = C!end_input_stream(c)
    PROVE  Live(d, isn, other, w, v)
  <1> DEFINE x == c.sender
             y == C!S!fill_window([x EXCEPT !.stream = C!BS!end_input(@)])
  <1>1. Core(c, isn, other, w, v) /\ SP!Talking(x) /\ x.isn = isn
        /\ x.stream.write_bytes = v
    BY DEF Live, Core
  <1>2. /\ SP!Talking(y) /\ y.isn = x.isn /\ y.syn_sent
        /\ y.stream.write_bytes = x.stream.write_bytes
        /\ y.consecutive_retransmission \in {0, x.consecutive_retransmission}
    <2>1. y = SP!S!fill_window([x EXCEPT !.stream = C!BS!end_input(@)])
      BY SameFill
    <2>2. C!BS!end_input(x.stream) = SP!BS!end_input(x.stream)
      BY Zenon DEF C!BS!end_input, SP!BS!end_input
    <2>3. y = SP!S!fill_window([x EXCEPT !.stream = SP!BS!end_input(@)])
      BY <2>1, <2>2, Zenon
    <2> HIDE DEF x, y
    <2> QED
      BY <1>1, <2>3, Applies, SP!TalkEnd
  <1>3. v \in Nat /\ v <= v
    BY <1>1, CoreFacts
  <1>4. d = C!send_segs_from_sender([c EXCEPT !.sender = y])
    BY Zenon DEF C!end_input_stream, C!fill_from
  <1> HIDE DEF y
  <1> QED
    BY <1>1, <1>2, <1>3, <1>4, Speaks

\* tick() of an active connection: when the retransmissions are too many the sender's
\* queue holds one, so that there is a segment to make the RST of.
LEMMA Ticks ==
    ASSUME NEW c, NEW isn, NEW other \in 0..Mod32 - 1, NEW w \in 0..Longest, NEW v,
           Live(c, isn, other, w, v), c.active, NEW d, d = C!tick(c, 1)
    PROVE  Live(d, isn, other, w, v)
  <1> DEFINE x == c.sender
             y == C!S!tick(x, 1)
             t == C!BS!AtMost(c.time_since_last_segment_received + 1, C!LingerTime)
             o == [c EXCEPT !.time_since_last_segment_received = t]
             f == [o EXCEPT !.sender = y]
  <1>1. /\ Core(c, isn, other, w, v) /\ Counted(c) /\ SP!Talking(x) /\ x.isn = isn
        /\ x.stream.write_bytes = v /\ IsConn(c) /\ Listening(c.receiver, other, w)
        /\ c.receiver.syn => x.syn_sent
    BY DEF Live, Core
  <1>2. Made(o, x, c.receiver, c.segments_out, c.active)
    <2> HIDE DEF t
    <2> QED
      BY <1>1 DEF Made, IsConn, ConnMembers
  <1>3. d = IF f.sender.consecutive_retransmission > MAX_RETX_ATTEMPTS
            THEN C!send_segs_from_sender(C!unclean_shutdown(f))
            ELSE C!send_segs_from_sender(f)
    <2>1. o.sender = x
      BY <1>2, Zenon DEF Made
    <2>2. C!Older(c, 1) = o
      BY Zenon DEF C!Older
    <2> HIDE DEF o, x
    <2> QED
      BY <2>1, <2>2, Zenon DEF C!tick
  <1>4. /\ SP!Talking(y) /\ y.isn = isn /\ y.stream = x.stream /\ y.syn_sent = x.syn_sent
        /\ y.consecutive_retransmission > MAX_RETX_ATTEMPTS => y.segments_out # <<>>
    <2>1. y = SP!S!tick(x, 1)
      BY SameTick
    <2>2. x.consecutive_retransmission <= MAX_RETX_ATTEMPTS
      BY <1>1 DEF Counted
    <2> HIDE DEF x, y
    <2> QED
      BY <1>1, <2>1, <2>2, Applies, SP!TalkTick
  <1> HIDE DEF y, o
  <1>5. Made(f, y, c.receiver, c.segments_out, c.active)
    <2>1. IsConn(o)
      BY <1>2 DEF Made
    <2>2. Made(f, y, o.receiver, o.segments_out, o.active)
      BY <2>1, NewSender
    <2> QED
      BY <1>2, <2>2, Zenon DEF Made
  <1> HIDE DEF f
  <1>6. v \in Nat /\ v <= v
    BY <1>1, CoreFacts
  <1>7. y.stream.write_bytes = v /\ (c.receiver.syn => y.syn_sent)
    BY <1>1, <1>4, Zenon
  <1>8. /\ Core(f, isn, other, w, v)
        /\ y.consecutive_retransmission <= MAX_RETX_ATTEMPTS => Live(f, isn, other, w, v)
    BY <1>1, <1>4, <1>5, <1>6, <1>7, Placed
  <1>9. f.sender = y
    BY <1>5 DEF Made
  <1>10. CASE y.consecutive_retransmission > MAX_RETX_ATTEMPTS
    <2>1. f.sender.segments_out # <<>>
      BY <1>4, <1>9, <1>10
    <2>2. Live(C!unclean_shutdown(f), isn, other, w, v)
      BY <1>8, <2>1, Aborts
    <2> QED
      BY <1>3, <1>9, <1>10, <2>2, Sends
  <1>11. CASE ~(y.consecutive_retransmission > MAX_RETX_ATTEMPTS)
    <2>1. y.consecutive_retransmission \in Nat
      <3>1. SP!Talk(y)
        BY <1>4, Applies, SP!TalkFacts
      <3> QED
        BY <3>1 DEF SP!Talk
    <2>2. Live(f, isn, other, w, v)
      BY <1>8, <1>11, <2>1, WidthAssumption
    <2>3. d = C!send_segs_from_sender(f)
      BY <1>3, <1>9, <1>11
    <2> QED
      BY <2>2, <2>3, Sends
  <1> QED
    BY <1>10, <1>11

\* An empty segment is queued.
LEMMA Empties ==
    ASSUME NEW c, NEW isn, NEW other, NEW w, NEW v, Live(c, isn, other, w, v),
           c.active, c.sender.syn_sent, NEW d, d = C!send_empty_segment(c)
    PROVE  /\ Live(d, isn, other, w, v) /\ d.sender.segments_out # <<>>
  <1> DEFINE x == c.sender
             y == C!S!send_empty_segment(x)
  <1>1. /\ Core(c, isn, other, w, v) /\ Counted(c) /\ SP!Talking(x) /\ x.isn = isn
        /\ x.stream.write_bytes = v /\ IsConn(c) /\ Listening(c.receiver, other, w)
    BY DEF Live, Core
  <1>2. SP!Talking(y) /\ SP!Goes(x, y) /\ y.segments_out # <<>>
    <2>1. y = SP!S!send_empty_segment(x)
      BY SameEmpty
    <2>2. x.syn_sent
      OBVIOUS
    <2> HIDE DEF x, y
    <2> QED
      BY <1>1, <2>1, <2>2, Applies, SP!TalkEmpty
  <1>3. d = [c EXCEPT !.sender = y]
    BY Zenon DEF C!send_empty_segment
  <1> HIDE DEF y
  <1>4. Made(d, y, c.receiver, c.segments_out, c.active)
    BY <1>1, <1>3, NewSender
  <1>5. c.active => y.consecutive_retransmission <= MAX_RETX_ATTEMPTS
    BY <1>1, <1>2, CountKept DEF SP!Goes
  <1>6. v \in Nat /\ v <= v
    BY <1>1, CoreFacts
  <1>7. y.isn = isn /\ y.stream.write_bytes = v /\ y.syn_sent
    BY <1>1, <1>2, Zenon DEF SP!Goes
  <1>8. Live(d, isn, other, w, v)
    BY <1>1, <1>2, <1>4, <1>5, <1>6, <1>7, Placed
  <1> QED
    BY <1>2, <1>4, <1>8, Zenon DEF Made

\* ~TCPConnection, of a connection that has sent its SYN.
LEMMA Destroys ==
    ASSUME NEW c, NEW isn, NEW other \in 0..Mod32 - 1, NEW w \in 0..Longest, NEW v,
           Live(c, isn, other, w, v), c.active, c.sender.next_seqno # 0,
           NEW d, d = C!destroy(c)
    PROVE  Live(d, isn, other, w, v)
  <1> DEFINE e == C!send_empty_segment(c)
  <1>1. c.sender.syn_sent
    <2>1. Core(c, isn, other, w, v)
      BY DEF Live
    <2>2. SP!Talk(c.sender)
      BY <2>1, CoreFacts
    <2> QED
      BY <2>2, Zenon DEF SP!Talk
  <1>2. Live(e, isn, other, w, v) /\ e.sender.segments_out # <<>>
    BY <1>1, Empties
  <1>3. d = C!unclean_shutdown(e)
    BY Zenon DEF C!destroy
  <1>4. Core(e, isn, other, w, v)
    BY <1>2 DEF Live
  <1> HIDE DEF e
  <1> QED
    BY <1>2, <1>3, <1>4, Aborts

\* A segment of an established exchange: the RST ends the connection, anything else may
\* be answered.
LEMMA Exchanges ==
    ASSUME NEW c, NEW isn, NEW other \in 0..Mod32 - 1, NEW w \in 0..Longest, NEW v,
           Live(c, isn, other, w, v), c.active, c.sender.syn_sent,
           NEW q \in Wire(other, w), NEW d, d = C!Exchange(c, q)
    PROVE  Live(d, isn, other, w, v)
  <1> DEFINE x == c.sender
             y == C!S!ack_received(x, q.ackno, q.win)
             z == C!R!segment_received(c.receiver, q)
             h == [c EXCEPT !.receiver = z, !.sender = y]
  <1>1. /\ Core(c, isn, other, w, v) /\ Counted(c) /\ SP!Talking(x) /\ x.isn = isn
        /\ x.stream.write_bytes = v /\ IsConn(c) /\ Listening(c.receiver, other, w)
    BY DEF Live, Core
  <1>2. SP!Talking(y) /\ SP!Goes(x, y)
    <2>1. y = SP!S!ack_received(x, q.ackno, q.win)
      BY SameAck
    <2>2. q.ackno \in 0..Mod32 - 1 /\ q.win \in 0..RecvCapacity
      BY DEF Wire, Wires
    <2> HIDE DEF x, y
    <2> QED
      BY <1>1, <2>1, <2>2, Applies, SP!TalkAck
  <1>3. Listening(z, other, w)
    <2> DEFINE r == c.receiver
    <2>1. Hears(r, z, other, w)
      BY <1>1, ReceiverHears
    <2> QED
      BY <2>1, Zenon DEF Hears
  <1>4. d = IF q.rst THEN C!unclean_shutdown(C!send_empty_segment(h))
            ELSE C!send_segs_from_sender(C!Answer(h, q))
    BY Zenon DEF C!Exchange
  <1> HIDE DEF y, z
  <1>5. Made(h, y, z, c.segments_out, c.active)
    BY <1>1 DEF Made, IsConn, ConnMembers
  <1> HIDE DEF h
  <1>6. c.active => y.consecutive_retransmission <= MAX_RETX_ATTEMPTS
    BY <1>1, <1>2, CountKept DEF SP!Goes
  <1>7. v \in Nat /\ v <= v
    BY <1>1, CoreFacts
  <1>8. y.isn = isn /\ y.stream.write_bytes = v /\ y.syn_sent
    BY <1>1, <1>2, Zenon DEF SP!Goes
  <1>9. Live(h, isn, other, w, v)
    BY <1>1, <1>2, <1>3, <1>5, <1>6, <1>7, <1>8, Placed
  <1>10. h.active /\ h.sender.syn_sent
    BY <1>5, <1>8, Zenon DEF Made
  <1> DEFINE e == C!send_empty_segment(h)
  <1>11. Live(e, isn, other, w, v) /\ e.sender.segments_out # <<>>
    BY <1>9, <1>10, Empties
  <1>12. CASE q.rst
    <2>1. Core(e, isn, other, w, v)
      BY <1>11 DEF Live
    <2>2. d = C!unclean_shutdown(e)
      BY <1>4, <1>12
    <2> HIDE DEF e
    <2> QED
      BY <1>11, <2>1, <2>2, Aborts
  <1>13. CASE ~q.rst
    <2> DEFINE a == C!Answer(h, q)
    <2>1. a = h \/ a = e
      BY Zenon DEF C!Answer
    <2> HIDE DEF a, e
    <2>2. Live(a, isn, other, w, v)
      BY <1>9, <1>11, <2>1
    <2>3. d = C!send_segs_from_sender(a)
      BY <1>4, <1>13 DEF a
    <2> QED
      BY <2>2, <2>3, Sends
  <1> QED
    BY <1>12, <1>13

\* segment_received(), in every state.
LEMMA Receives ==
    ASSUME NEW c, NEW isn, NEW other \in 0..Mod32 - 1, NEW w \in 0..Longest, NEW v,
           Live(c, isn, other, w, v), NEW q \in Wire(other, w),
           NEW d, d = C!segment_received(c, q)
    PROVE  Live(d, isn, other, w, v)
  <1> DEFINE z == C!R!segment_received(c.receiver, q)
             t == [c EXCEPT !.time_since_last_segment_received = 0]
             o == [t EXCEPT !.receiver = C!R!segment_received(@, q)]
             told == C!SYN_SENT(c) /\ (q.payload # <<>> \/ ~q.ack)
             refused == C!SYN_SENT(c) /\ q.payload = <<>> /\ q.ack /\ q.rst
  <1>1. /\ Core(c, isn, other, w, v) /\ Counted(c) /\ SP!Talking(c.sender)
        /\ c.sender.isn = isn /\ c.sender.stream.write_bytes = v /\ IsConn(c)
        /\ c.active \in BOOLEAN /\ Listening(c.receiver, other, w)
        /\ c.receiver.syn => c.sender.syn_sent
    BY DEF Live, Core
  <1>2. Listening(z, other, w)
    <2> DEFINE r == c.receiver
    <2>1. Hears(r, z, other, w)
      BY <1>1, ReceiverHears
    <2> QED
      BY <2>1, Zenon DEF Hears
  <1>3. SP!Talk(c.sender) /\ v \in Nat /\ v <= v
    BY <1>1, CoreFacts
  <1>4. /\ ~c.active => d = c
        /\ c.active /\ C!LISTEN(c) => d = IF q.syn THEN C!connect(o) ELSE t
        /\ c.active /\ ~C!LISTEN(c) /\ told =>
             d = IF ~q.ack /\ q.syn THEN C!send_empty_segment(o) ELSE t
        /\ c.active /\ ~C!LISTEN(c) /\ ~told /\ refused => d = C!SetError(t)
        /\ c.active /\ ~C!LISTEN(c) /\ ~told /\ ~refused => d = C!Exchange(t, q)
    <2>1. ~(C!LISTEN(c) /\ C!SYN_SENT(c))
      BY DEF C!LISTEN, C!SYN_SENT
    <2> HIDE DEF t, o
    <2> QED
      BY <2>1 DEF C!segment_received, t, o
  <1>5. Made(t, c.sender, c.receiver, c.segments_out, c.active)
    BY <1>1 DEF Made, IsConn, ConnMembers
  <1>6. Made(o, c.sender, z, c.segments_out, c.active)
    <2>1. o = [t EXCEPT !.receiver = z]
      BY <1>5, Zenon DEF Made
    <2> HIDE DEF t, z, o
    <2> QED
      BY <1>5, <2>1 DEF Made, IsConn, ConnMembers
  <1> HIDE DEF t, o, z, told, refused
  <1>7. ~c.active => Live(d, isn, other, w, v)
    BY <1>4
  <1>8. c.active => Live(t, isn, other, w, v)
    BY <1>1, <1>3, <1>5, Placed DEF Counted
  <1>9. CASE c.active /\ C!LISTEN(c)
    <2>1. Live(C!connect(o), isn, other, w, v)
      BY <1>2, <1>6, <1>9, Connects
    <2> QED
      BY <1>4, <1>8, <1>9, <2>1
  <1>10. ASSUME c.active, ~C!LISTEN(c)
         PROVE  c.sender.syn_sent
    <2>1. C!HasAckno(c) => c.receiver.syn
      BY <1>1, Advertises DEF C!HasAckno
    <2> QED
      BY <1>1, <1>3, <1>10, <2>1, Zenon DEF C!LISTEN, SP!Talk
  <1>11. CASE c.active /\ ~C!LISTEN(c) /\ told
    <2>1. Live(o, isn, other, w, v)
      BY <1>1, <1>2, <1>3, <1>6, <1>10, <1>11, Placed DEF Counted
    <2>2. o.active /\ o.sender.syn_sent
      BY <1>6, <1>10, <1>11, Zenon DEF Made
    <2>3. Live(C!send_empty_segment(o), isn, other, w, v)
      BY <2>1, <2>2, Empties
    <2> QED
      BY <1>4, <1>8, <1>11, <2>3
  <1>12. CASE c.active /\ ~C!LISTEN(c) /\ ~told /\ refused
    <2>1. Core(t, isn, other, w, v)
      BY <1>8, <1>12 DEF Live
    <2>2. Live(C!SetError(t), isn, other, w, v)
      BY <2>1, Errs
    <2> QED
      BY <1>4, <1>12, <2>2
  <1>13. CASE c.active /\ ~C!LISTEN(c) /\ ~told /\ ~refused
    <2>1. t.active /\ t.sender.syn_sent
      BY <1>5, <1>10, <1>13, Zenon DEF Made
    <2>2. Live(C!Exchange(t, q), isn, other, w, v)
      BY <1>8, <1>13, <2>1, Exchanges
    <2> QED
      BY <1>4, <1>13, <2>2
  <1> QED
    BY <1>7, <1>9, <1>11, <1>12, <1>13, Zenon

-----------------------------------------------------------------------------
\* The pair.

\* The two peers.
LEMMA Peers ==
    ASSUME NEW p \in Peer
    PROVE  /\ Other(p) \in Peer /\ Other(p) # p /\ Other(Other(p)) = p
           /\ \A q \in Peer : q = p \/ q = Other(p)
           /\ Isn[p] \in 0..Mod32 - 1
  BY PairAssumption DEF Peer, Other

\* The bytes an application has written.
Wrote(cn, p) == cn[p].sender.stream.write_bytes

\* Each connection is live, and what is on its way to it is a piece of the other's stream.
PairAt(cn, nt, pl, p) ==
    /\ Live(cn[p], Isn[p], Isn[Other(p)], Wrote(cn, Other(p)), Wrote(cn, p))
    /\ Wrote(cn, p) <= pl.send[p]
    /\ nt[p] \in Seq(Wire(Isn[Other(p)], Wrote(cn, Other(p))))
PairInv(cn, nt, pl) ==
    /\ pl \in Plans /\ cn = [p \in Peer |-> cn[p]] /\ nt = [p \in Peer |-> nt[p]]
    /\ \A p \in Peer : PairAt(cn, nt, pl, p)
Inv == PairInv(conn, net, plan)

\* More bytes of the other's stream may be heard.
LEMMA LiveMore ==
    ASSUME NEW c, NEW isn, NEW other, NEW w \in Nat, NEW n \in Nat, w <= n, NEW v,
           Live(c, isn, other, w, v)
    PROVE  Live(c, isn, other, n, v)
  <1>1. Listening(c.receiver, other, w)
    BY DEF Live, Core
  <1>2. Listening(c.receiver, other, n)
    <2> DEFINE x == c.receiver
    <2> HIDE DEF x
    <2> QED
      BY <1>1, ListensMore DEF x
  <1> QED
    BY <1>2, Zenon DEF Live, Core

\* A queue of segments of a shorter stream is one of a longer stream.
LEMMA SeqMore ==
    ASSUME NEW isn, NEW v \in Nat, NEW w \in Nat, v <= w, NEW q \in Seq(Wire(isn, v))
    PROVE  q \in Seq(Wire(isn, w))
  <1> DEFINE T == Wire(isn, v)
             U == Wire(isn, w)
  <1>1. T \subseteq U
    BY WireMore
  <1>2. q \in Seq(T)
    OBVIOUS
  <1> HIDE DEF T, U
  <1>3. q \in Seq(U)
    BY <1>1, <1>2
  <1> QED
    BY <1>3 DEF U

\* What the invariant says of a peer and of the other.
LEMMA AtPeer ==
    ASSUME NEW cn, NEW nt, NEW pl, PairInv(cn, nt, pl), NEW p \in Peer
    PROVE  /\ PairAt(cn, nt, pl, p) /\ Wrote(cn, p) \in 0..Longest
           /\ pl.send[p] \in Nat /\ pl.send[p] <= Longest
  <1>1. PairAt(cn, nt, pl, p) /\ pl \in Plans
    BY DEF PairInv
  <1>2. Core(cn[p], Isn[p], Isn[Other(p)], Wrote(cn, Other(p)), Wrote(cn, p))
    BY <1>1 DEF PairAt, Live
  <1>3. Wrote(cn, p) \in 0..Longest
    BY <1>2, CoreFacts
  <1>4. pl.send[p] \in Nat /\ pl.send[p] <= Longest
    BY <1>1, PairAssumption, ShortStreams
  <1> QED
    BY <1>1, <1>3, <1>4

\* One connection and the network change.
LEMMA Advances ==
    ASSUME NEW cn, NEW nt, NEW pl, PairInv(cn, nt, pl), NEW p \in Peer,
           NEW u \in Nat, Wrote(cn, p) <= u, u <= pl.send[p],
           NEW e, Live(e, Isn[p], Isn[Other(p)], Wrote(cn, Other(p)), u),
           NEW cm, cm = [cn EXCEPT ![p] = e],
           NEW nm, nm = [q \in Peer |-> nm[q]],
           nm[p] \in Seq(Wire(Isn[Other(p)], Wrote(cn, Other(p)))),
           nm[Other(p)] \in Seq(Wire(Isn[p], u))
    PROVE  PairInv(cm, nm, pl)
  <1> DEFINE o == Other(p)
  <1>1. /\ o \in Peer /\ o # p /\ Other(o) = p /\ \A q \in Peer : q = p \/ q = o
    BY Peers
  <1>2. PairAt(cn, nt, pl, o) /\ Wrote(cn, p) \in Nat
    BY <1>1, AtPeer
  <1>3. cn = [q \in Peer |-> cn[q]] /\ pl \in Plans
    BY DEF PairInv
  <1> HIDE DEF o
  <1>4. cm = [q \in Peer |-> cm[q]] /\ cm[p] = e /\ cm[o] = cn[o]
    BY <1>1, <1>3
  <1>5. e.sender.stream.write_bytes = u
    BY DEF Live, Core
  <1>6. Wrote(cm, p) = u /\ Wrote(cm, o) = Wrote(cn, o)
    BY <1>4, <1>5, Zenon DEF Wrote
  <1>7. PairAt(cm, nm, pl, p)
    <2>1. Live(cm[p], Isn[p], Isn[Other(p)], Wrote(cm, Other(p)), Wrote(cm, p))
      BY <1>4, <1>6, Zenon DEF o
    <2>2. nm[p] \in Seq(Wire(Isn[Other(p)], Wrote(cm, Other(p))))
      BY <1>6, Zenon DEF o
    <2>3. Wrote(cm, p) <= pl.send[p]
      BY <1>6, Zenon
    <2> QED
      BY <2>1, <2>2, <2>3, Zenon DEF PairAt
  <1>8. PairAt(cm, nm, pl, o)
    <2>1. /\ Live(cn[o], Isn[o], Isn[p], Wrote(cn, p), Wrote(cn, o))
          /\ Wrote(cn, o) <= pl.send[o]
      BY <1>1, <1>2, Zenon DEF PairAt
    <2>2. Live(cn[o], Isn[o], Isn[p], u, Wrote(cn, o))
      BY <1>2, <2>1, LiveMore
    <2>3. nm[o] \in Seq(Wire(Isn[p], u))
      BY DEF o
    <2> QED
      BY <1>1, <1>4, <1>6, <2>1, <2>2, <2>3, Zenon DEF PairAt
  <1>9. \A q \in Peer : PairAt(cm, nm, pl, q)
    BY <1>1, <1>7, <1>8, Zenon
  <1> QED
    BY <1>3, <1>4, <1>9, Zenon DEF PairInv

\* A call of a connection, after which its queue goes to the network.
LEMMA MovesKeep ==
    ASSUME Inv, NEW p \in Peer, NEW u \in Nat, Wrote(conn, p) <= u, u <= plan.send[p],
           NEW c, Live(c, Isn[p], Isn[Other(p)], Wrote(conn, Other(p)), u),
           NEW rest, rest = [q \in Peer |-> rest[q]],
           \A q \in Peer : rest[q] \in Seq(Wire(Isn[Other(q)], Wrote(conn, Other(q)))),
           Moves(p, c, rest)
    PROVE  Inv'
  <1> DEFINE o == Other(p)
             e == [c EXCEPT !.segments_out = <<>>]
  <1>1. /\ o \in Peer /\ o # p /\ Other(o) = p
    BY Peers
  <1>2. conn' = [conn EXCEPT ![p] = e] /\ plan' = plan
        /\ net' = [rest EXCEPT ![o] = @ \o c.segments_out]
    BY DEF Moves
  <1>3. IsConn(c) /\ c.segments_out \in Seq(Wire(Isn[p], u))
    BY DEF Live, Core
  <1>4. Made(e, c.sender, c.receiver, <<>>, c.active)
    BY <1>3 DEF Made, IsConn, ConnMembers
  <1>5. Live(e, Isn[p], Isn[o], Wrote(conn, o), u)
    <2>1. <<>> \in Seq(Wire(Isn[p], u))
      OBVIOUS
    <2> HIDE DEF e
    <2>2. Core(e, Isn[p], Isn[o], Wrote(conn, o), u)
      BY <1>4, <2>1, Zenon DEF Live, Core, Made
    <2>3. Parted(e) /\ Counted(e)
      BY <1>4, Zenon DEF Live, Parted, Counted, Made
    <2> QED
      BY <2>2, <2>3, Zenon DEF Live
  <1>6. Wrote(conn, p) \in Nat
    BY AtPeer DEF Inv
  <1> HIDE DEF o, e
  <1>7. /\ net' = [q \in Peer |-> net'[q]] /\ net'[p] = rest[p]
        /\ net'[o] = rest[o] \o c.segments_out
    BY <1>1, <1>2
  <1>8. rest[o] \in Seq(Wire(Isn[p], u))
    <2>1. rest[o] \in Seq(Wire(Isn[p], Wrote(conn, p)))
      BY <1>1
    <2> QED
      BY <1>6, <2>1, SeqMore
  <1>9. net'[o] \in Seq(Wire(Isn[p], u))
    <2> DEFINE U == Wire(Isn[p], u)
    <2> HIDE DEF U
    <2>1. rest[o] \in Seq(U) /\ c.segments_out \in Seq(U)
      BY <1>3, <1>8 DEF U
    <2>2. rest[o] \o c.segments_out \in Seq(U)
      BY <2>1
    <2> QED
      BY <1>7, <2>2 DEF U
  <1>10. net'[p] \in Seq(Wire(Isn[o], Wrote(conn, o)))
    BY <1>7 DEF o
  <1>11. PairInv(conn', net', plan)
    BY <1>2, <1>5, <1>7, <1>9, <1>10, Advances DEF Inv, o
  <1> QED
    BY <1>2, <1>11 DEF Inv

\* A network from which a segment has been taken.
LEMMA Taken ==
    ASSUME NEW T, NEW s \in Seq(T), NEW i \in DOMAIN s
    PROVE  s[i] \in T /\ RemoveAt(s, i) \in Seq(T)
  <1>1. i \in 1..Len(s) /\ Len(s) \in Nat
    OBVIOUS
  <1>2. SubSeq(s, 1, i - 1) \in Seq(T) /\ SubSeq(s, i + 1, Len(s)) \in Seq(T)
    BY <1>1
  <1> QED
    BY <1>1, <1>2 DEF RemoveAt

\* The network is what the invariant says ...
LEMMA NetKept ==
    ASSUME Inv
    PROVE  /\ net = [q \in Peer |-> net[q]]
           /\ \A q \in Peer : net[q] \in Seq(Wire(Isn[Other(q)], Wrote(conn, Other(q))))
  BY DEF Inv, PairInv, PairAt

\* ... and when one segment is taken from it.
LEMMA NetTaken ==
    ASSUME Inv, NEW p \in Peer, NEW i \in DOMAIN net[p],
           NEW rest, rest = [net EXCEPT ![p] = RemoveAt(@, i)]
    PROVE  /\ rest = [q \in Peer |-> rest[q]]
           /\ \A q \in Peer : rest[q] \in Seq(Wire(Isn[Other(q)], Wrote(conn, Other(q))))
           /\ net[p][i] \in Wire(Isn[Other(p)], Wrote(conn, Other(p)))
  <1> DEFINE U(q) == Wire(Isn[Other(q)], Wrote(conn, Other(q)))
  <1>1. net = [q \in Peer |-> net[q]] /\ \A q \in Peer : net[q] \in Seq(U(q))
    BY NetKept
  <1> HIDE DEF U
  <1>2. net[p][i] \in U(p) /\ RemoveAt(net[p], i) \in Seq(U(p))
    BY <1>1, Taken
  <1> DEFINE s == RemoveAt(net[p], i)
  <1>3. rest = [net EXCEPT ![p] = s]
    OBVIOUS
  <1> HIDE DEF s
  <1>4. rest = [q \in Peer |-> rest[q]] /\ rest[p] = s
        /\ \A q \in Peer : q # p => rest[q] = net[q]
    BY <1>1, <1>3
  <1>5. \A q \in Peer : rest[q] \in Seq(U(q))
    BY <1>1, <1>2, <1>4 DEF s
  <1> QED
    BY <1>2, <1>4, <1>5 DEF U

\* The constructor.
LEMMA ConnNew ==
    ASSUME NEW isn \in 0..Mod32 - 1, NEW other, NEW c, c = C!New(isn)
    PROVE  Live(c, isn, other, 0, 0)
  <1> DEFINE x == C!S!New(SendCapacity, RtTimeout, isn)
             z == C!R!New(RecvCapacity)
  <1>1. /\ SP!Talking(x) /\ x.isn = isn /\ x.consecutive_retransmission = 0
        /\ x.stream.write_bytes = 0
    <2>1. x = SP!S!New(SendCapacity, RtTimeout, isn)
      BY SameNew
    <2> HIDE DEF x
    <2> QED
      BY <2>1, Applies, SP!TalkNew
  <1>2. Listening(z, other, 0) /\ z.syn = FALSE
    BY ListensNew
  <1>3. c = [sender |-> x, receiver |-> z, segments_out |-> <<>>,
             linger_after_streams_finish |-> TRUE,
             time_since_last_segment_received |-> 0, active |-> TRUE]
    BY Zenon DEF C!New
  <1> HIDE DEF x, z
  <1>4. Made(c, x, z, <<>>, TRUE)
    BY <1>3 DEF Made, IsConn, ConnMembers
  <1>5. TRUE \in BOOLEAN /\ <<>> \in Seq(Wire(isn, 0)) /\ 0 <= MAX_RETX_ATTEMPTS
    BY WidthAssumption
  <1>6. Core(c, isn, other, 0, 0)
    BY <1>1, <1>2, <1>4, <1>5, Zenon DEF Core, Made
  <1>7. Parted(c) /\ Counted(c)
    BY <1>1, <1>4, <1>5, Zenon DEF Parted, Counted, Made
  <1> QED
    BY <1>6, <1>7 DEF Live

\* The constructors.
LEMMA InitInv == Init => Inv
  <1> SUFFICES ASSUME Init PROVE Inv
    OBVIOUS
  <1>1. /\ conn = [p \in Peer |-> C!New(Isn[p])] /\ net = [p \in Peer |-> <<>>]
        /\ plan \in Plans
    BY DEF Init
  <1>2. ASSUME NEW p \in Peer
        PROVE  Live(conn[p], Isn[p], Isn[Other(p)], 0, 0) /\ Wrote(conn, p) = 0
    <2>1. conn[p] = C!New(Isn[p]) /\ Isn[p] \in 0..Mod32 - 1
      BY <1>1, Peers
    <2>2. Live(conn[p], Isn[p], Isn[Other(p)], 0, 0)
      BY <2>1, ConnNew
    <2> QED
      BY <2>2 DEF Live, Core, Wrote
  <1>3. ASSUME NEW p \in Peer
        PROVE  PairAt(conn, net, plan, p)
    <2>1. Other(p) \in Peer
      BY Peers
    <2>2. Wrote(conn, p) = 0 /\ Wrote(conn, Other(p)) = 0
      BY <1>2, <2>1
    <2>3. plan.send[p] \in Nat
      BY <1>1, PairAssumption
    <2>4. net[p] = <<>>
      BY <1>1
    <2> QED
      BY <1>2, <2>2, <2>3, <2>4 DEF PairAt
  <1>4. conn = [p \in Peer |-> conn[p]] /\ net = [p \in Peer |-> net[p]]
    BY <1>1
  <1> QED
    BY <1>1, <1>3, <1>4 DEF Inv, PairInv

\* What is known of a peer when it moves.
LEMMA Ready ==
    ASSUME Inv, NEW p \in Peer
    PROVE  /\ Live(conn[p], Isn[p], Isn[Other(p)], Wrote(conn, Other(p)), Wrote(conn, p))
           /\ Isn[Other(p)] \in 0..Mod32 - 1 /\ Wrote(conn, Other(p)) \in 0..Longest
           /\ Wrote(conn, p) \in Nat /\ Wrote(conn, p) <= Wrote(conn, p)
           /\ Wrote(conn, p) <= plan.send[p]
           /\ plan.send[p] \in Nat /\ plan.send[p] <= Longest
  <1>1. Other(p) \in Peer
    BY Peers
  <1>2. Isn[Other(p)] \in 0..Mod32 - 1
    BY <1>1, Peers
  <1>3. Wrote(conn, Other(p)) \in 0..Longest
    BY <1>1, AtPeer DEF Inv
  <1>4. /\ PairAt(conn, net, plan, p) /\ Wrote(conn, p) \in 0..Longest
        /\ plan.send[p] \in Nat /\ plan.send[p] <= Longest
    BY AtPeer DEF Inv
  <1>5. Wrote(conn, p) \in Nat /\ Wrote(conn, p) <= Wrote(conn, p)
    BY <1>4
  <1> QED
    BY <1>2, <1>3, <1>4, <1>5 DEF PairAt

\* A call that writes nothing.
LEMMA CallKeeps ==
    ASSUME Inv, NEW p \in Peer,
           NEW c, Live(c, Isn[p], Isn[Other(p)], Wrote(conn, Other(p)), Wrote(conn, p)),
           Moves(p, c, net)
    PROVE  Inv'
  BY Ready, NetKept, MovesKeep

\* The actions, one by one.  connect(): a connection that has sent nothing is active or
\* has failed, since it cannot have heard a FIN.
LEMMA ConnectKeeps == ASSUME Inv, NEW p \in Peer, Connect(p) PROVE Inv'
  <1> DEFINE c == conn[p]
             w == Wrote(conn, Other(p))
             v == Wrote(conn, p)
             d == C!connect(c)
  <1>1. /\ Live(c, Isn[p], Isn[Other(p)], w, v)
        /\ Isn[Other(p)] \in 0..Mod32 - 1 /\ w \in 0..Longest
    BY Ready
  <1>2. c.sender.next_seqno = 0 /\ Moves(p, d, net)
    BY DEF Connect, CanConnect, sender, Becomes
  <1> HIDE DEF c, w, v
  <1>3. Core(c, Isn[p], Isn[Other(p)], w, v)
    BY <1>1 DEF Live
  <1>4. SP!Talk(c.sender)
    BY <1>3, CoreFacts
  <1>5. Listening(c.receiver, Isn[Other(p)], w) /\ (c.receiver.syn => c.sender.syn_sent)
        /\ IsConn(c)
    BY <1>3 DEF Core
  <1>6. ~c.receiver.fin
    BY <1>2, <1>4, <1>5, Zenon DEF SP!Talk, Listening
  <1>7. c.active \/ c.receiver.reassembler.output.error
    BY <1>1, <1>6, Zenon DEF Live, Parted
  <1>8. Made(c, c.sender, c.receiver, c.segments_out, c.active)
    BY <1>5 DEF Made
  <1>9. Live(d, Isn[p], Isn[Other(p)], w, v)
    BY <1>1, <1>5, <1>7, <1>8, Connects
  <1> HIDE DEF d
  <1> QED
    BY <1>2, <1>9, CallKeeps DEF w, v

\* write() of the next n bytes, which no segment in flight goes beyond.
LEMMA WriteKeeps ==
    ASSUME Inv, NEW p \in Peer, NEW n \in 1..SendCapacity, Write(p, n) PROVE Inv'
  <1> DEFINE c == conn[p]
             w == Wrote(conn, Other(p))
             v == Wrote(conn, p)
             d == C!write(c, [i \in 1..n |-> v + i])
  <1>1. /\ Live(c, Isn[p], Isn[Other(p)], w, v)
        /\ Isn[Other(p)] \in 0..Mod32 - 1 /\ w \in 0..Longest
        /\ v \in Nat /\ plan.send[p] \in Nat /\ plan.send[p] <= Longest
    BY Ready
  <1>2. /\ c.active /\ ~c.sender.stream.input_end /\ v + n <= plan.send[p]
        /\ n <= BS!remaining_capacity(c.sender.stream)
    BY DEF Write, CanWrite, Outgoing, outbound, BS!input_ended, ToSend, Wrote
  <1>3. Moves(p, d, net)
    BY Zenon DEF Write, Becomes, outbound, Wrote
  <1>4. n \in Nat \ {0} /\ v + n \in Nat /\ v <= v + n /\ v + n <= Longest
    <2>1. n \in Nat \ {0} /\ Longest \in Nat
      BY WidthAssumption, LongestIs
    <2> HIDE DEF v
    <2> QED
      BY <1>1, <1>2, <2>1
  <1> HIDE DEF c, w, v
  <1>5. Live(d, Isn[p], Isn[Other(p)], w, v + n)
    BY <1>1, <1>2, <1>4, Writes
  <1> HIDE DEF d
  <1> QED
    BY <1>2, <1>3, <1>4, <1>5, NetKept, MovesKeep DEF w, v

\* end_input_stream().
LEMMA EndKeeps == ASSUME Inv, NEW p \in Peer, EndInput(p) PROVE Inv'
  <1> DEFINE c == conn[p]
             d == C!end_input_stream(c)
  <1>1. c.active /\ Moves(p, d, net)
    BY DEF EndInput, CanEnd, Outgoing, Becomes
  <1>2. Live(d, Isn[p], Isn[Other(p)], Wrote(conn, Other(p)), Wrote(conn, p))
    BY <1>1, Ready, Ends
  <1> HIDE DEF d
  <1> QED
    BY <1>1, <1>2, CallKeeps

\* tick() of an active connection.
LEMMA TickKeeps == ASSUME Inv, NEW p \in Peer, Tick(p) PROVE Inv'
  <1> DEFINE c == conn[p]
             d == C!tick(c, 1)
  <1>1. c.active /\ Moves(p, d, net)
    BY Zenon DEF Tick, CanTick
  <1>2. Live(d, Isn[p], Isn[Other(p)], Wrote(conn, Other(p)), Wrote(conn, p))
    BY <1>1, Ready, Ticks
  <1> HIDE DEF d
  <1> QED
    BY <1>1, <1>2, CallKeeps

\* segment_received() of any segment in flight.
LEMMA DeliverKeeps ==
    ASSUME Inv, NEW p \in Peer, NEW i \in DOMAIN net[p], Deliver(p, i) PROVE Inv'
  <1> DEFINE c == conn[p]
             q == net[p][i]
             rest == [net EXCEPT ![p] = RemoveAt(@, i)]
             d == C!segment_received(c, q)
  <1>1. Moves(p, d, rest)
    BY Zenon DEF Deliver, Becomes
  <1>2. /\ rest = [a \in Peer |-> rest[a]]
        /\ \A a \in Peer : rest[a] \in Seq(Wire(Isn[Other(a)], Wrote(conn, Other(a))))
        /\ q \in Wire(Isn[Other(p)], Wrote(conn, Other(p)))
    BY NetTaken
  <1> HIDE DEF rest, q
  <1>3. Live(d, Isn[p], Isn[Other(p)], Wrote(conn, Other(p)), Wrote(conn, p))
    BY <1>2, Ready, Receives
  <1> HIDE DEF d
  <1> QED
    BY <1>1, <1>2, <1>3, Ready, MovesKeep

\* A segment is lost.
LEMMA LoseKeeps ==
    ASSUME Inv, NEW p \in Peer, NEW i \in DOMAIN net[p], Lose(p, i) PROVE Inv'
  <1>1. conn' = conn /\ plan' = plan /\ net' = [net EXCEPT ![p] = RemoveAt(@, i)]
    BY DEF Lose
  <1>2. /\ net' = [a \in Peer |-> net'[a]]
        /\ \A a \in Peer : net'[a] \in Seq(Wire(Isn[Other(a)], Wrote(conn, Other(a))))
    <2> DEFINE rest == [net EXCEPT ![p] = RemoveAt(@, i)]
    <2>1. /\ rest = [a \in Peer |-> rest[a]]
          /\ \A a \in Peer : rest[a] \in Seq(Wire(Isn[Other(a)], Wrote(conn, Other(a))))
      BY NetTaken
    <2>2. net' = rest
      BY <1>1
    <2> HIDE DEF rest
    <2> QED
      BY <2>1, <2>2, Zenon
  <1>3. PairInv(conn, net', plan)
    <2>1. /\ plan \in Plans /\ conn = [a \in Peer |-> conn[a]]
          /\ \A a \in Peer : PairAt(conn, net, plan, a)
      BY DEF Inv, PairInv
    <2>2. ASSUME NEW a \in Peer PROVE PairAt(conn, net', plan, a)
      BY <1>2, <2>1, Zenon DEF PairAt
    <2> QED
      BY <1>2, <2>1, <2>2, Zenon DEF PairInv
  <1> QED
    BY <1>1, <1>3 DEF Inv

\* A connection changes and nothing goes to the network.
LEMMA StillKeeps ==
    ASSUME Inv, NEW p \in Peer,
           NEW e, Live(e, Isn[p], Isn[Other(p)], Wrote(conn, Other(p)), Wrote(conn, p)),
           conn' = [conn EXCEPT ![p] = e], UNCHANGED <<net, plan>>
    PROVE  Inv'
  <1>1. Other(p) \in Peer /\ Other(Other(p)) = p
    BY Peers
  <1>2. /\ net[p] \in Seq(Wire(Isn[Other(p)], Wrote(conn, Other(p))))
        /\ net[Other(p)] \in Seq(Wire(Isn[p], Wrote(conn, p)))
        /\ net = [q \in Peer |-> net[q]]
    BY <1>1, NetKept
  <1>3. PairInv(conn', net, plan)
    BY <1>2, Ready, Advances DEF Inv
  <1> QED
    BY <1>3 DEF Inv

\* The owner destroys a connection.
LEMMA QuitKeeps == ASSUME Inv, NEW p \in Peer, Quit(p) PROVE Inv'
  <1> DEFINE c == conn[p]
             d == C!destroy(c)
             e == [d EXCEPT !.segments_out = <<>>]
             w == Wrote(conn, Other(p))
             v == Wrote(conn, p)
  <1>1. /\ c.active /\ c.sender.next_seqno > 0 /\ conn' = [conn EXCEPT ![p] = e]
        /\ UNCHANGED <<net, plan>>
    BY DEF Quit, sender
  <1>2. c.sender.next_seqno # 0
    BY <1>1
  <1>3. Live(d, Isn[p], Isn[Other(p)], w, v)
    BY <1>1, <1>2, Ready, Destroys
  <1> HIDE DEF d, w, v
  <1>4. IsConn(d)
    BY <1>3 DEF Live, Core
  <1>5. Made(e, d.sender, d.receiver, <<>>, d.active)
    BY <1>4 DEF Made, IsConn, ConnMembers
  <1>6. Live(e, Isn[p], Isn[Other(p)], w, v)
    <2>1. <<>> \in Seq(Wire(Isn[p], v))
      OBVIOUS
    <2> HIDE DEF e
    <2> QED
      BY <1>3, <1>5, <2>1, Zenon DEF Live, Core, Parted, Counted, Made
  <1> HIDE DEF e
  <1> QED
    BY <1>1, <1>6, StillKeeps DEF w, v

\* The application reads a byte.
LEMMA ReadKeeps == ASSUME Inv, NEW p \in Peer, Read(p) PROVE Inv'
  <1> DEFINE c == conn[p]
             x == c.receiver
             y == R!read(x, 1)
             e == [c EXCEPT !.receiver = y]
             w == Wrote(conn, Other(p))
             v == Wrote(conn, p)
  <1>1. /\ Live(c, Isn[p], Isn[Other(p)], w, v)
    BY Ready
  <1>2. IsConn(c) /\ Listening(x, Isn[Other(p)], w) /\ conn = [q \in Peer |-> conn[q]]
    BY <1>1 DEF Live, Core, Inv, PairInv
  <1>3. x.reassembler.output.buffer # <<>> /\ UNCHANGED <<net, plan>>
    BY DEF Read, CanRead, inbound, R!stream_out, BS!buffer_empty, BS!buffer_size
  <1>4. conn' = [conn EXCEPT ![p].receiver = y]
    BY DEF Read
  <1>5. /\ Hears(x, y, Isn[Other(p)], w) /\ y.fin = x.fin /\ y.syn = x.syn
        /\ y.reassembler.output.error = x.reassembler.output.error
    <2> HIDE DEF x, w
    <2> QED
      BY <1>2, <1>3, ReceiverRead
  <1> HIDE DEF y
  <1>6. conn' = [conn EXCEPT ![p] = e]
    BY <1>2, <1>4
  <1>7. Made(e, c.sender, y, c.segments_out, c.active)
    BY <1>2 DEF Made, IsConn, ConnMembers
  <1> HIDE DEF e, w, v, c
  <1>8. Live(e, Isn[p], Isn[Other(p)], w, v)
    BY <1>1, <1>5, <1>7, Zenon DEF Live, Core, Parted, Counted, Made, Hears
  <1> QED
    BY <1>3, <1>6, <1>8, StillKeeps DEF w, v

\* Every step keeps the invariant.
LEMMA NextInv == Inv /\ [Next]_vars => Inv'
  <1> SUFFICES ASSUME Inv, [Next]_vars PROVE Inv'
    OBVIOUS
  <1>1. CASE UNCHANGED vars
    BY <1>1 DEF vars, Inv
  <1>2. ASSUME NEW p \in Peer, Connect(p) PROVE Inv'
    BY <1>2, ConnectKeeps
  <1>3. ASSUME NEW p \in Peer, NEW n \in 1..SendCapacity, Write(p, n) PROVE Inv'
    BY <1>3, WriteKeeps
  <1>4. ASSUME NEW p \in Peer, EndInput(p) PROVE Inv'
    BY <1>4, EndKeeps
  <1>5. ASSUME NEW p \in Peer, Read(p) PROVE Inv'
    BY <1>5, ReadKeeps
  <1>6. ASSUME NEW p \in Peer, NEW i \in DOMAIN net[p], Deliver(p, i) PROVE Inv'
    BY <1>6, DeliverKeeps
  <1>7. ASSUME NEW p \in Peer, NEW i \in DOMAIN net[p], Lose(p, i) PROVE Inv'
    BY <1>7, LoseKeeps
  <1>8. ASSUME NEW p \in Peer, Tick(p) PROVE Inv'
    BY <1>8, TickKeeps
  <1>9. ASSUME NEW p \in Peer, Quit(p) PROVE Inv'
    BY <1>9, QuitKeeps
  <1> QED
    BY <1>1, <1>2, <1>3, <1>4, <1>5, <1>6, <1>7, <1>8, <1>9, Zenon DEF Next

\* It is an invariant.
LEMMA AlwaysInv == Spec => []Inv
  BY InitInv, NextInv, PTL DEF Spec

\* What an application can read is what its peer wrote, in order, for every network that
\* loses, repeats, delays and reorders segments, every capacity and every pair of streams
\* shorter than half of the sequence numbers: TCPConnection::segment_received, tick, write
\* and the calls they make of sender, receiver and reassembler.
THEOREM DeliversPeersBytes == Spec => []DeliversPrefix
  <1>1. Inv => DeliversPrefix
    <2> SUFFICES ASSUME Inv, NEW p \in Peer
                 PROVE  /\ inbound(p).write_bytes <= outbound(Other(p)).write_bytes
                        /\ \A i \in 1..Len(inbound(p).buffer) :
                               inbound(p).buffer[i] = inbound(p).read_bytes + i
      BY DEF DeliversPrefix
    <2> DEFINE x == conn[p].receiver
               a == x.reassembler
               w == Wrote(conn, Other(p))
               m == a.output.read_bytes
               k == a.cur_idx - m
    <2>1. Listening(x, Isn[Other(p)], w) /\ w \in 0..Longest
      BY Ready DEF Live, Core
    <2>2. /\ a.cur_idx \in Nat /\ a.cur_idx <= w /\ m \in Nat /\ m <= a.cur_idx
      BY <2>1, Assembled
    <2>3. a.output.write_bytes = a.cur_idx /\ a.output.buffer = RP!Bytes(m, k)
      BY <2>1 DEF Listening, RP!Sound, RP!Assembling
    <2>4. k \in Nat
      BY <2>2
    <2>5. inbound(p) = a.output /\ outbound(Other(p)).write_bytes = w
      BY DEF inbound, R!stream_out, outbound, Wrote
    <2> HIDE DEF a, m, k, w
    <2>6. Len(RP!Bytes(m, k)) = k /\ \A i \in 1..k : RP!Bytes(m, k)[i] = m + i
      BY <2>2, <2>4, Applies, RP!BytesType
    <2>7. a.output.read_bytes = m
      BY DEF m
    <2> QED
      BY <2>2, <2>3, <2>5, <2>6, <2>7
  <1> QED
    BY <1>1, AlwaysInv, PTL

\* A connection that stops being active without an error has had its own FIN sent and
\* acknowledged and has heard the FIN of its peer, although clean_shutdown looks at
\* neither FIN: it asks for the ends of the two streams and for bytes_in_flight().
THEOREM ClosesAfterBothFins == Spec => []CleanCloseSaidFin
  <1>1. Inv => CleanCloseSaidFin
    <2> SUFFICES ASSUME Inv, NEW p \in Peer, ~conn[p].active, ~Failed(p)
                 PROVE  /\ sender(p).fin_sent /\ sender(p).outstanding_segments = <<>>
                        /\ conn[p].receiver.fin
      BY DEF CleanCloseSaidFin
    <2>1. Parted(conn[p])
      BY Ready DEF Live
    <2> QED
      BY <2>1, Zenon DEF Parted, Failed, inbound, R!stream_out, sender
  <1> QED
    BY <1>1, AlwaysInv, PTL
=============================================================================
