-------------------------- MODULE TCPSenderProofs --------------------------
(***************************************************************************)
(* TCPSenderSpec for any stream, window, payload size, timeout and initial *)
(* sequence number: the seven invariants the run tcp_sender checks.  None  *)
(* is inductive by itself.  The inductive invariant says where every       *)
(* outstanding segment starts: there is a sequence of edges, one more than *)
(* segments, such that segment i occupies the absolute numbers from edge i *)
(* up to edge i + 1, and the last edge is next_seqno.                      *)
(***************************************************************************)
EXTENDS TCPSenderSpec, SequenceTheorems, TLAPS

NP == INSTANCE NumberProofs

\* The members of the classes, and an object that has exactly those.
SenderMembers ==
    {"isn", "segments_out", "initial_retransmission_timeout", "stream", "next_seqno",
     "outstanding_segments", "RTO", "bytes_in_flight", "consecutive_retransmission",
     "timer_running", "back_off", "time_elipsed", "receiver_window_size", "rcv_base",
     "syn_sent", "fin_sent"}
StreamMembers == {"capacity", "buffer", "write_bytes", "read_bytes", "input_end", "error"}
IsSender(x) == x = [m \in SenderMembers |-> x[m]]
IsStream(b) == b = [m \in StreamMembers |-> b[m]]

\* A flag takes one sequence number when it is set.
Bit(flag) == IF flag THEN 1 ELSE 0
Length(q) == S!length_in_sequence_space(q)

\* The segments TCPSender makes.
SegmentSet ==
    {S!Segment(q, syn, fin, data) : q \in Int, syn \in BOOLEAN, fin \in BOOLEAN, data \in Seq(Nat)}

\* A segment that starts at the absolute number start.
Carries(isn, q, start) ==
    /\ q.seqno = W!wrap(start, isn) /\ q.syn \in BOOLEAN /\ q.fin \in BOOLEAN
    /\ q.payload \in Seq(Nat)
    /\ \A j \in 1..Len(q.payload) : q.payload[j] = start + j - 1
    /\ Length(q) >= 1

\* The edges of some segments that follow each other.
Edges(isn, e, segs) ==
    /\ segs \in Seq(SegmentSet)
    /\ e \in Seq(Nat) /\ Len(e) = Len(segs) + 1
    /\ \A i \in 1..Len(segs) : Carries(isn, segs[i], e[i]) /\ e[i + 1] = e[i] + Length(segs[i])

\* The members that stay as they were constructed.
Fixed(x) ==
    /\ IsSender(x)
    /\ x.isn \in 0..Mod32 - 1 /\ x.initial_retransmission_timeout = RtTimeout

\* The queue of outstanding segments, its count, and the oldest number in it that
\* is not acknowledged.
Chain(x, e) ==
    /\ Edges(x.isn, e, x.outstanding_segments)
    /\ x.next_seqno = e[Len(e)]
    /\ x.bytes_in_flight = e[Len(e)] - e[1]
    /\ x.rcv_base \in Nat
    /\ e[1] <= x.rcv_base
    /\ IF x.outstanding_segments = <<>> THEN x.rcv_base = x.next_seqno
                                         ELSE x.rcv_base < e[2]

\* The retransmission timer.
Timed(x) ==
    /\ x.timer_running \in BOOLEAN /\ x.back_off \in BOOLEAN
    /\ x.timer_running <=> x.outstanding_segments # <<>>
    /\ x.consecutive_retransmission \in 0..MAX_RETX_ATTEMPTS + 1
    /\ x.RTO = Doubled[x.consecutive_retransmission]
    /\ x.time_elipsed \in Nat /\ x.time_elipsed < x.RTO

\* The stream: byte k has number k, the bytes taken and the bytes kept are those written.
Streamed(b) ==
    /\ IsStream(b) /\ b.capacity = Capacity /\ b.input_end \in BOOLEAN
    /\ b.read_bytes \in Nat /\ b.write_bytes \in 0..MaxBytes
    /\ b.buffer \in Seq(Nat) /\ Len(b.buffer) <= Capacity
    /\ Len(b.buffer) = b.write_bytes - b.read_bytes
    /\ \A i \in 1..Len(b.buffer) : b.buffer[i] = b.read_bytes + i
Exhausted(b) == b.buffer = <<>> /\ b.input_end

\* The reader has taken what has a number, the FIN ends the stream.
Numbered(x) ==
    /\ Streamed(x.stream)
    /\ x.syn_sent \in BOOLEAN /\ x.fin_sent \in BOOLEAN
    /\ x.fin_sent => x.syn_sent /\ Exhausted(x.stream)
    /\ IF x.syn_sent
       THEN x.next_seqno = x.stream.read_bytes + 1 + Bit(x.fin_sent)
       ELSE x.next_seqno = 0 /\ x.stream.read_bytes = 0
    /\ x.receiver_window_size \in 0..MaxWin + 1

Good(x, e) == Fixed(x) /\ Chain(x, e) /\ Timed(x) /\ Numbered(x)

\* What a segment says: it carries the bytes that belong to its sequence numbers, none
\* beyond the w-th, and the SYN alone has the number 0.
Says(isn, q, w) ==
    \E n \in 0..w + 2 :
        /\ q.seqno = W!wrap(n, isn) /\ (q.syn <=> n = 0)
        /\ q.syn => q.payload = <<>>
        /\ \A j \in 1..Len(q.payload) : q.payload[j] = n + j - 1
        /\ q.payload = <<>> \/ n + Len(q.payload) <= w + 1
Said(isn, w) == {q \in SegmentSet : Says(isn, q, w)}
Spoken(x) ==
    /\ x.outstanding_segments \in Seq(Said(x.isn, x.stream.write_bytes))
    /\ x.segments_out \in Seq(Said(x.isn, x.stream.write_bytes))

\* What no call of the sender but write() and end_input() changes.
Goes(x, y) ==
    /\ y.isn = x.isn /\ y.stream.write_bytes = x.stream.write_bytes
    /\ y.stream.input_end = x.stream.input_end
    /\ x.syn_sent => y.syn_sent
    /\ y.consecutive_retransmission \in {0, x.consecutive_retransmission}

\* Something is in flight while there is something to send.
Moving(x) ==
    x.syn_sent /\ x.outstanding_segments = <<>> =>
        x.stream.buffer = <<>> /\ (x.stream.input_end => x.fin_sent)

\* What was sent does not go beyond edge, but for a FIN.
Within(x, e, edge) ==
    /\ edge = x.rcv_base + S!ProbeWindow(x.receiver_window_size)
    /\ x.next_seqno <= edge + Bit(x.fin_sent)
    /\ \A i \in 1..Len(x.outstanding_segments) :
           e[i] + Len(x.outstanding_segments[i].payload) <= edge

\* A sender in a good state that, unless an acknowledgment came late, keeps to the
\* window.
Healthy(x, edge, late) ==
    \E e : Good(x, e) /\ (~late => Within(x, e, edge))

\* The acknowledgments under way, and what has arrived of them.
Sound(ack, next) ==
    /\ ack.ack \in Nat /\ ack.edge \in Nat /\ ack.ack <= next
    /\ ack.ack <= ack.edge /\ ack.edge <= ack.ack + MaxWin
Underway(q, next) ==
    q \in Seq([ack : Nat, edge : Nat]) /\ \A i \in 1..Len(q) : Sound(q[i], next)
Heard(r, base) ==
    /\ r.ack = base /\ r.edge \in Nat /\ r.late \in BOOLEAN

Inv ==
    /\ s.isn = Isn /\ Healthy(s, seen.edge, seen.late) /\ Moving(s)
    /\ Underway(acks, s.next_seqno) /\ Heard(seen, s.rcv_base)

-----------------------------------------------------------------------------

\* A flag counts for nothing or for one.
LEMMA BitType ==
    ASSUME NEW flag
    PROVE  Bit(flag) \in {0, 1} /\ Bit(flag) \in Nat
  BY DEF Bit

\* The members of a segment, and its length.
IsSegment(q, n, syn, fin, data) ==
    /\ q \in SegmentSet
    /\ q.seqno = n /\ q.syn = syn /\ q.fin = fin /\ q.payload = data
    /\ Length(q) = Len(data) + Bit(syn) + Bit(fin)

\* A segment TCPSender makes has the members it was made with.
LEMMA SegmentMembers ==
    ASSUME NEW n \in Int, NEW syn \in BOOLEAN, NEW fin \in BOOLEAN, NEW data \in Seq(Nat),
           NEW q, q = S!Segment(n, syn, fin, data)
    PROVE  IsSegment(q, n, syn, fin, data)
  <1>1. q \in SegmentSet
    BY DEF SegmentSet
  <1>2. q.seqno = n /\ q.syn = syn /\ q.fin = fin /\ q.payload = data
    <2>1. q.seqno = n /\ q.payload = data
      BY DEF S!Segment
    <2>2. q.syn = syn
      BY DEF S!Segment
    <2>3. q.fin = fin
      BY DEF S!Segment
    <2> QED
      BY <2>1, <2>2, <2>3
  <1> QED
    BY <1>1, <1>2 DEF Length, S!length_in_sequence_space, Bit, IsSegment

\* A segment occupies a natural number of sequence numbers.
LEMMA LengthType ==
    ASSUME NEW q \in SegmentSet
    PROVE  Length(q) \in Nat
  <1>1. PICK n \in Int, syn \in BOOLEAN, fin \in BOOLEAN, data \in Seq(Nat) :
            q = S!Segment(n, syn, fin, data)
    BY DEF SegmentSet
  <1>2. Length(q) = Len(data) + Bit(syn) + Bit(fin)
    BY <1>1, SegmentMembers DEF IsSegment
  <1> QED
    BY <1>2, BitType

\* The numbers that segments occupy together are what their edges say.
LEMMA TotalIs ==
    ASSUME NEW isn, NEW segs, NEW e, Edges(isn, e, segs)
    PROVE  S!TotalLength(segs) = e[Len(e)] - e[1]
  <1> DEFINE n == Len(segs)
             Sums(g) == g = [k \in 0..n |->
                                IF k = 0 THEN 0
                                ELSE g[k - 1] + S!length_in_sequence_space(segs[k])]
             h == [k \in 0..n |-> e[k + 1] - e[1]]
             g == CHOOSE f : Sums(f)
  <1>1. /\ n \in Nat /\ e \in Seq(Nat) /\ Len(e) = n + 1
        /\ \A i \in 1..n : e[i + 1] = e[i] + S!length_in_sequence_space(segs[i])
        /\ \A i \in 1..n + 1 : e[i] \in Nat
    BY DEF Edges, Length
  <1>2. Sums(h)
    <2> SUFFICES ASSUME NEW k \in 0..n
                 PROVE  h[k] = IF k = 0 THEN 0
                               ELSE h[k - 1] + S!length_in_sequence_space(segs[k])
      OBVIOUS
    <2>1. CASE k = 0
      BY <1>1, <2>1
    <2>2. CASE k # 0
      <3>1. k \in 1..n /\ k - 1 \in 0..n /\ k + 1 \in 1..n + 1
        BY <1>1, <2>2
      <3>2. e[k + 1] = e[k] + S!length_in_sequence_space(segs[k])
        BY <1>1, <3>1
      <3>3. h[k] = e[k + 1] - e[1] /\ h[k - 1] = e[k] - e[1]
        BY <3>1
      <3>4. e[k] \in Nat /\ e[1] \in Nat /\ e[k + 1] \in Nat
        BY <1>1, <3>1
      <3>5. S!length_in_sequence_space(segs[k]) \in Int
        <4>1. segs[k] \in SegmentSet
          BY <3>1 DEF Edges
        <4> QED
          BY <4>1, LengthType DEF Length
      <3> HIDE DEF h
      <3> QED
        BY <2>2, <3>2, <3>3, <3>4, <3>5
    <2> QED
      BY <2>1, <2>2
  <1>3. Sums(g)
    <2> HIDE DEF Sums, h
    <2> QED
      BY <1>2
  <1>4. S!TotalLength(segs) = g[n]
    BY DEF S!TotalLength
  <1> HIDE DEF g
  <1> DEFINE T == {k \in Nat : k <= n => g[k] = h[k]}
  <1>5. 0 \in T
    BY <1>1, <1>3
  <1>6. ASSUME NEW k \in Nat, k \in T
        PROVE  k + 1 \in T
    <2> SUFFICES ASSUME k + 1 <= n
                 PROVE  g[k + 1] = h[k + 1]
      OBVIOUS
    <2>1. k + 1 \in 0..n /\ k + 1 # 0 /\ (k + 1) - 1 = k
      BY <1>1
    <2>2. g[k + 1] = g[k] + S!length_in_sequence_space(segs[k + 1])
      BY <1>3, <2>1
    <2>3. h[k + 1] = h[k] + S!length_in_sequence_space(segs[k + 1])
      BY <1>2, <2>1
    <2>4. g[k] = h[k]
      BY <1>1, <1>6
    <2> QED
      BY <2>2, <2>3, <2>4
  <1>7. n \in T
    <2>1. Nat \subseteq T
      <3> HIDE DEF T
      <3> QED
        BY <1>5, <1>6, NP!Induction
    <2> QED
      BY <1>1, <2>1
  <1>8. g[n] = h[n] /\ h[n] = e[n + 1] - e[1]
    BY <1>1, <1>7
  <1> QED
    BY <1>1, <1>4, <1>8

\* Edges never go back.
LEMMA EdgesGrow ==
    ASSUME NEW isn, NEW segs, NEW e, Edges(isn, e, segs), NEW i \in 1..Len(e), NEW j \in i..Len(e)
    PROVE  e[i] <= e[j]
  <1>1. /\ Len(segs) \in Nat /\ e \in Seq(Nat) /\ Len(e) = Len(segs) + 1 /\ i \in Nat
        /\ \A k \in 1..Len(segs) : e[k + 1] = e[k] + Length(segs[k]) /\ Length(segs[k]) >= 1
        /\ \A k \in 1..Len(segs) : segs[k] \in SegmentSet
        /\ \A k \in 1..Len(e) : e[k] \in Nat
    BY DEF Edges, Carries
  <1> DEFINE T == {k \in Nat : i + k <= Len(e) => e[i] <= e[i + k]}
  <1>2. 0 \in T
    BY <1>1
  <1>3. ASSUME NEW k \in Nat, k \in T
        PROVE  k + 1 \in T
    <2> SUFFICES ASSUME i + (k + 1) <= Len(e)
                 PROVE  e[i] <= e[i + (k + 1)]
      OBVIOUS
    <2>1. i + k \in 1..Len(segs) /\ i + (k + 1) = (i + k) + 1 /\ i + k \in 1..Len(e)
          /\ (i + k) + 1 \in 1..Len(e)
      BY <1>1
    <2>2. e[i] <= e[i + k]
      BY <1>1, <1>3, <2>1
    <2>3. e[(i + k) + 1] = e[i + k] + Length(segs[i + k]) /\ Length(segs[i + k]) \in Nat
      BY <1>1, <2>1, LengthType
    <2>4. e[i] \in Nat /\ e[i + k] \in Nat /\ e[(i + k) + 1] \in Nat
      BY <1>1, <2>1
    <2> QED
      BY <2>1, <2>2, <2>3, <2>4
  <1>4. Nat \subseteq T
    <2> HIDE DEF T
    <2> QED
      BY <1>2, <1>3, NP!Induction
  <1>5. j - i \in Nat /\ i + (j - i) = j /\ j <= Len(e)
    BY <1>1
  <1>6. j - i \in T
    BY <1>4, <1>5
  <1> QED
    BY <1>5, <1>6

\* Two runs of segments, the second starting where the first ends, are one run.
Joined(e, f) ==
    [i \in 1..Len(e) + Len(f) - 1 |-> IF i <= Len(e) THEN e[i] ELSE f[i - Len(e) + 1]]

AreJoined(isn, g, e, f, a, b) ==
    /\ Edges(isn, g, a \o b) /\ Len(g) = Len(a) + Len(b) + 1
    /\ g[Len(a) + Len(b) + 1] = f[Len(f)]
    /\ \A i \in 1..Len(a) + 1 : g[i] = e[i]
    /\ \A i \in 1..Len(b) + 1 : g[Len(a) + i] = f[i]

\* The edges of two runs, joined, are the edges of their concatenation.
LEMMA EdgesJoin ==
    ASSUME NEW isn, NEW a, NEW e, Edges(isn, e, a), NEW b, NEW f, Edges(isn, f, b), f[1] = e[Len(e)]
    PROVE  AreJoined(isn, Joined(e, f), e, f, a, b)
  <1> DEFINE g == Joined(e, f)
             m == Len(a)
             n == Len(b)
             c == a \o b
  <1>1. /\ m \in Nat /\ n \in Nat /\ e \in Seq(Nat) /\ f \in Seq(Nat)
        /\ Len(e) = m + 1 /\ Len(f) = n + 1
        /\ a \in Seq(SegmentSet) /\ b \in Seq(SegmentSet)
    BY DEF Edges
  <1>2. \A i \in 1..m : Carries(isn, a[i], e[i]) /\ e[i + 1] = e[i] + Length(a[i])
    BY DEF Edges
  <1>3. \A i \in 1..n : Carries(isn, b[i], f[i]) /\ f[i + 1] = f[i] + Length(b[i])
    BY DEF Edges
  <1>4. /\ c \in Seq(SegmentSet) /\ Len(c) = m + n
        /\ \A i \in 1..m : c[i] = a[i]
        /\ \A i \in 1..n : c[m + i] = b[i]
    BY <1>1
  <1> HIDE DEF c
  <1>5. (\A i \in 1..m + 1 : e[i] \in Nat) /\ (\A i \in 1..n + 1 : f[i] \in Nat)
    <2>1. (\A i \in 1..Len(e) : e[i] \in Nat) /\ (\A i \in 1..Len(f) : f[i] \in Nat)
      BY <1>1, ElementOfSeq
    <2> QED
      BY <1>1, <2>1
  <1> HIDE DEF m, n
  <1>6. g = [i \in 1..m + n + 1 |-> IF i <= m + 1 THEN e[i] ELSE f[i - m]]
    <2>1. Len(e) + Len(f) - 1 = m + n + 1
      BY <1>1
    <2>2. \A i \in 1..m + n + 1 : i - Len(e) + 1 = i - m
      BY <1>1
    <2>3. g = [i \in 1..m + n + 1 |-> IF i <= Len(e) THEN e[i] ELSE f[i - Len(e) + 1]]
      BY <2>1 DEF Joined
    <2> QED
      BY <1>1, <2>2, <2>3
  <1> HIDE DEF g
  <1>7. \A i \in 1..m + 1 : g[i] = e[i]
    BY <1>1, <1>6
  <1>8. \A i \in 1..n + 1 : g[m + i] = f[i]
    <2> SUFFICES ASSUME NEW i \in 1..n + 1
                 PROVE  g[m + i] = f[i]
      OBVIOUS
    <2>1. m + i \in 1..m + n + 1 /\ (m + i) - m = i
      BY <1>1
    <2>2. CASE i = 1
      BY <1>1, <1>7, <2>2
    <2>3. CASE i # 1
      <3>1. ~(m + i <= m + 1)
        BY <1>1, <2>3
      <3> QED
        BY <1>6, <2>1, <3>1
    <2> QED
      BY <2>2, <2>3
  <1>9. g \in Seq(Nat) /\ Len(g) = m + n + 1
    <2>1. ASSUME NEW i \in 1..m + n + 1
          PROVE  (IF i <= m + 1 THEN e[i] ELSE f[i - m]) \in Nat
      <3>1. i <= m + 1 => i \in 1..m + 1
        BY <1>1
      <3>2. ~(i <= m + 1) => i - m \in 1..n + 1
        BY <1>1
      <3> QED
        BY <1>5, <3>1, <3>2
    <2>2. m + n + 1 \in Nat
      BY <1>1
    <2> DEFINE v(i) == IF i <= m + 1 THEN e[i] ELSE f[i - m]
    <2>3. g = [i \in 1..m + n + 1 |-> v(i)] /\ \A i \in 1..m + n + 1 : v(i) \in Nat
      BY <1>6, <2>1
    <2> HIDE DEF v
    <2> QED
      BY <2>2, <2>3
  <1>10. ASSUME NEW i \in 1..m + n
         PROVE  Carries(isn, c[i], g[i]) /\ g[i + 1] = g[i] + Length(c[i])
    <2>1. CASE i <= m
      <3>1. i \in 1..m /\ i \in 1..m + 1 /\ i + 1 \in 1..m + 1
        BY <1>1, <2>1
      <3> QED
        BY <1>2, <1>4, <1>7, <3>1
    <2>2. CASE i > m
      <3> DEFINE j == i - m
      <3>1. j \in 1..n /\ j \in 1..n + 1 /\ j + 1 \in 1..n + 1 /\ i = m + j
            /\ i + 1 = m + (j + 1)
        BY <1>1, <2>2
      <3> HIDE DEF j
      <3>2. c[i] = b[j] /\ g[i] = f[j] /\ g[i + 1] = f[j + 1]
        BY <1>4, <1>8, <3>1
      <3> QED
        BY <1>3, <3>1, <3>2
    <2> QED
      BY <1>1, <2>1, <2>2
  <1>11. Edges(isn, g, c)
    BY <1>4, <1>9, <1>10 DEF Edges
  <1>12. n + 1 \in 1..n + 1 /\ m + (n + 1) = m + n + 1
    BY <1>1
  <1>13. g[m + n + 1] = f[Len(f)]
    BY <1>1, <1>8, <1>12
  <1> QED
    BY <1>7, <1>8, <1>9, <1>11, <1>13 DEF g, c, m, n, AreJoined

\* The l elements of t that follow the first a.
IsPart(u, t, a, l, T) ==
    u \in Seq(T) /\ Len(u) = l /\ \A j \in 1..l : u[j] = t[a + j]
LEMMA PieceOf ==
    ASSUME NEW T, NEW t \in Seq(T), NEW a \in Nat, NEW l \in Nat, a + l <= Len(t),
           NEW u, u = SubSeq(t, a + 1, a + l)
    PROVE  IsPart(u, t, a, l, T)
  <1> DEFINE m == a + 1
             n == a + l
  <1>1. /\ m \in Int /\ n \in Int /\ n - m + 1 = l /\ (m <= n <=> l # 0)
        /\ \A j \in 1..l : m + j - 1 = a + j
        /\ \A i \in m..n : i \in 1..Len(t)
    OBVIOUS
  <1> HIDE DEF m, n
  <1>2. \A i \in m..n : t[i] \in T
    BY <1>1, ElementOfSeq
  <1>3. /\ SubSeq(t, m, n) \in Seq(T)
        /\ Len(SubSeq(t, m, n)) = IF m <= n THEN n - m + 1 ELSE 0
        /\ \A i \in 1..n - m + 1 : SubSeq(t, m, n)[i] = t[m + i - 1]
    BY <1>1, <1>2, SubSeqProperties
  <1>4. u = SubSeq(t, m, n)
    BY DEF m, n
  <1>5. /\ u \in Seq(T) /\ (Len(u) = IF m <= n THEN l ELSE 0)
        /\ \A i \in 1..l : u[i] = t[m + i - 1]
    BY <1>1, <1>3, <1>4, Zenon
  <1>6. Len(u) = l
    BY <1>1, <1>5
  <1> QED
    BY <1>1, <1>5, <1>6 DEF IsPart

\* What is left of a run after its first k segments.
IsRest(isn, a, e, k, b, f) ==
    /\ Edges(isn, f, b) /\ Len(b) = Len(a) - k
    /\ \A i \in 1..Len(a) - k : b[i] = a[k + i]
    /\ \A i \in 1..Len(a) - k + 1 : f[i] = e[k + i]
LEMMA EdgesDrop ==
    ASSUME NEW isn, NEW a, NEW e, Edges(isn, e, a), NEW k \in 0..Len(a),
           NEW b, b = SubSeq(a, k + 1, Len(a)), NEW f, f = SubSeq(e, k + 1, Len(e))
    PROVE  IsRest(isn, a, e, k, b, f)
  <1>1. /\ Len(a) \in Nat /\ Len(e) = Len(a) + 1 /\ e \in Seq(Nat) /\ a \in Seq(SegmentSet)
        /\ k \in Nat
    BY DEF Edges
  <1>2. \A i \in 1..Len(a) : Carries(isn, a[i], e[i]) /\ e[i + 1] = e[i] + Length(a[i])
    BY DEF Edges
  <1> DEFINE l == Len(a) - k
             n == Len(a) - k + 1
  <1>3. /\ l \in Nat /\ n \in Nat /\ k + l = Len(a) /\ k + n = Len(e)
        /\ k + l <= Len(a) /\ k + n <= Len(e)
    BY <1>1
  <1> HIDE DEF l, n
  <1>4. /\ b \in Seq(SegmentSet) /\ Len(b) = Len(a) - k
        /\ \A i \in 1..Len(a) - k : b[i] = a[k + i]
    <2>1. b = SubSeq(a, k + 1, k + l)
      BY <1>3, Zenon
    <2>2. IsPart(b, a, k, l, SegmentSet)
      BY <1>1, <1>3, <2>1, PieceOf
    <2> QED
      BY <2>2 DEF IsPart, l
  <1>5. /\ f \in Seq(Nat) /\ Len(f) = Len(a) - k + 1
        /\ \A i \in 1..Len(a) - k + 1 : f[i] = e[k + i]
    <2>1. f = SubSeq(e, k + 1, k + n)
      BY <1>3, Zenon
    <2>2. IsPart(f, e, k, n, Nat)
      BY <1>1, <1>3, <2>1, PieceOf
    <2> QED
      BY <2>2 DEF IsPart, n
  <1>6. ASSUME NEW i \in 1..Len(a) - k
        PROVE  Carries(isn, b[i], f[i]) /\ f[i + 1] = f[i] + Length(b[i])
    <2>1. /\ k + i \in 1..Len(a) /\ (k + i) + 1 = k + (i + 1)
          /\ i \in 1..Len(a) - k + 1 /\ i + 1 \in 1..Len(a) - k + 1
      BY <1>1
    <2>2. f[i] = e[k + i] /\ f[i + 1] = e[(k + i) + 1] /\ b[i] = a[k + i]
      BY <1>4, <1>5, <2>1
    <2> QED
      BY <1>2, <2>1, <2>2
  <1> QED
    BY <1>1, <1>4, <1>5, <1>6 DEF Edges, IsRest

\* The first k segments of a run.
IsFirst(isn, e, k, b, f) ==
    Edges(isn, f, b) /\ f[1] = e[1] /\ Len(f) = k + 1 /\ f[k + 1] = e[k + 1]
LEMMA EdgesTake ==
    ASSUME NEW isn, NEW a, NEW e, Edges(isn, e, a), NEW k \in 0..Len(a),
           NEW b, b = SubSeq(a, 1, k), NEW f, f = SubSeq(e, 1, k + 1)
    PROVE  IsFirst(isn, e, k, b, f)
  <1>1. /\ Len(a) \in Nat /\ Len(e) = Len(a) + 1 /\ e \in Seq(Nat) /\ a \in Seq(SegmentSet)
        /\ k \in Nat
    BY DEF Edges
  <1>2. \A i \in 1..Len(a) : Carries(isn, a[i], e[i]) /\ e[i + 1] = e[i] + Length(a[i])
    BY DEF Edges
  <1>3. /\ b \in Seq(SegmentSet) /\ Len(b) = k /\ \A i \in 1..k : b[i] = a[i]
    <2>1. b = SubSeq(a, 0 + 1, 0 + k) /\ 0 + k <= Len(a) /\ 0 \in Nat
      BY <1>1
    <2>2. IsPart(b, a, 0, k, SegmentSet)
      BY <1>1, <2>1, PieceOf
    <2> QED
      BY <2>2 DEF IsPart
  <1>4. /\ f \in Seq(Nat) /\ Len(f) = k + 1 /\ \A i \in 1..k + 1 : f[i] = e[i]
    <2>1. f = SubSeq(e, 0 + 1, 0 + (k + 1)) /\ 0 + (k + 1) <= Len(e) /\ 0 \in Nat /\ k + 1 \in Nat
      BY <1>1
    <2>2. IsPart(f, e, 0, k + 1, Nat)
      BY <1>1, <2>1, PieceOf
    <2> QED
      BY <2>2 DEF IsPart
  <1>5. ASSUME NEW i \in 1..k
        PROVE  Carries(isn, b[i], f[i]) /\ f[i + 1] = f[i] + Length(b[i])
    <2>1. i \in 1..Len(a) /\ i \in 1..k + 1 /\ i + 1 \in 1..k + 1
      BY <1>1
    <2> QED
      BY <1>2, <1>3, <1>4, <2>1
  <1>6. 1 \in 1..k + 1 /\ k + 1 \in 1..k + 1
    BY <1>1
  <1> QED
    BY <1>1, <1>3, <1>4, <1>5, <1>6 DEF Edges, IsFirst

-----------------------------------------------------------------------------

\* The timeouts that doubling reaches.
LEMMA DoubledFacts ==
    /\ Doubled[0] = RtTimeout
    /\ \A k \in 0..MAX_RETX_ATTEMPTS : Doubled[k + 1] = 2 * Doubled[k]
    /\ \A k \in 0..MAX_RETX_ATTEMPTS + 1 : Doubled[k] \in Nat \ {0}
    /\ DOMAIN Doubled = 0..MAX_RETX_ATTEMPTS + 1
  <1> DEFINE Doubles(g, n) == g = [k \in 0..n |-> IF k = 0 THEN RtTimeout ELSE 2 * g[k - 1]]
             T == {n \in Nat : \E g : Doubles(g, n)}
             N == MAX_RETX_ATTEMPTS + 1
  <1>1. N \in Nat /\ N - 1 = MAX_RETX_ATTEMPTS /\ RtTimeout \in Nat \ {0}
    BY SenderAssumption
  <1>2. 0 \in T
    <2>1. Doubles([k \in 0..0 |-> RtTimeout], 0)
      OBVIOUS
    <2> HIDE DEF Doubles
    <2> QED
      BY <2>1
  <1>3. ASSUME NEW n \in Nat, n \in T
        PROVE  n + 1 \in T
    <2>1. PICK g : Doubles(g, n)
      BY <1>3
    <2> DEFINE h == [k \in 0..n + 1 |-> IF k = n + 1 THEN 2 * g[n] ELSE g[k]]
    <2>2. ASSUME NEW k \in 0..n + 1
          PROVE  h[k] = IF k = 0 THEN RtTimeout ELSE 2 * h[k - 1]
      <3>1. CASE k = n + 1
        <4>1. h[k] = 2 * g[n] /\ h[n] = g[n] /\ k # 0 /\ k - 1 = n
          BY <3>1
        <4> QED
          BY <4>1
      <3>2. CASE k # n + 1 /\ k # 0
        <4>1. k \in 0..n /\ k - 1 \in 0..n /\ k - 1 # n + 1 /\ k - 1 \in 0..n + 1
          BY <3>2
        <4>2. h[k] = g[k] /\ h[k - 1] = g[k - 1]
          BY <3>2, <4>1
        <4>3. g[k] = 2 * g[k - 1]
          BY <2>1, <3>2, <4>1
        <4> HIDE DEF h
        <4> QED
          BY <3>2, <4>2, <4>3
      <3>3. CASE k # n + 1 /\ k = 0
        <4>1. h[0] = g[0] /\ g[0] = RtTimeout
          BY <2>1, <3>3
        <4> QED
          BY <3>3, <4>1
      <3> QED
        BY <3>1, <3>2, <3>3
    <2>3. Doubles(h, n + 1)
      BY <2>2
    <2> HIDE DEF Doubles, h
    <2> QED
      BY <2>3
  <1>4. \E g : Doubles(g, N)
    <2>1. Nat \subseteq T
      <3> HIDE DEF T
      <3> QED
        BY <1>2, <1>3, NP!Induction
    <2> HIDE DEF Doubles
    <2> QED
      BY <1>1, <2>1
  <1>5. Doubled = CHOOSE g : Doubles(g, N)
    BY DEF Doubled
  <1>6. Doubles(Doubled, N)
    <2> HIDE DEF Doubles
    <2> QED
      BY <1>4, <1>5
  <1>7. DOMAIN Doubled = 0..N /\ Doubled[0] = RtTimeout
    BY <1>1, <1>6
  <1>8. ASSUME NEW k \in 0..MAX_RETX_ATTEMPTS
        PROVE  Doubled[k + 1] = 2 * Doubled[k]
    <2>1. k + 1 \in 0..N /\ k + 1 # 0 /\ (k + 1) - 1 = k
      BY <1>1
    <2> QED
      BY <1>6, <2>1
  <1> DEFINE U == {n \in Nat : n <= N => Doubled[n] \in Nat \ {0}}
  <1>9. 0 \in U
    BY <1>1, <1>7
  <1>10. ASSUME NEW n \in Nat, n \in U
         PROVE  n + 1 \in U
    <2> SUFFICES ASSUME n + 1 <= N
                 PROVE  Doubled[n + 1] \in Nat \ {0}
      OBVIOUS
    <2>1. n \in 0..MAX_RETX_ATTEMPTS /\ n <= N
      BY <1>1
    <2>2. Doubled[n + 1] = 2 * Doubled[n] /\ Doubled[n] \in Nat \ {0}
      BY <1>8, <1>10, <2>1
    <2> QED
      BY <2>2
  <1>11. \A k \in 0..N : Doubled[k] \in Nat \ {0}
    <2>1. Nat \subseteq U
      <3> HIDE DEF U
      <3> QED
        BY <1>9, <1>10, NP!Induction
    <2> QED
      BY <1>1, <2>1
  <1> QED
    BY <1>7, <1>8, <1>11 DEF N

\* The numbers this sender uses fit into an unsigned int.
LEMMA Small ==
    ASSUME NEW x \in 0..MaxBytes + MaxWin + 3
    PROVE  x % Mod32 = x
  <1>1. x \in Nat /\ Mod32 \in Nat \ {0} /\ x < Mod32
    BY SenderAssumption, ShortStream
  <1> QED
    BY <1>1

\* Every number in use is less than half of an unsigned int away from every other.
LEMMA Half ==
    /\ Mod32 \div 2 \in Int
    /\ MaxBytes + MaxWin + 3 <= Mod32 \div 2
    /\ (Mod32 \div 2) - Mod32 <= -(MaxBytes + MaxWin + 3)
  <1> DEFINE h == Mod32 \div 2
             b == MaxBytes + MaxWin + 3
  <1>1. Mod32 \in Nat \ {0} /\ b \in Nat /\ 2 * b <= Mod32
    BY SenderAssumption, ShortStream
  <1> HIDE DEF b
  <1>2. h \in Int /\ 2 * h <= Mod32 /\ Mod32 < 2 * h + 2
    BY <1>1
  <1> HIDE DEF h
  <1>3. b <= h /\ h - Mod32 <= -b
    BY <1>1, <1>2
  <1> QED
    BY <1>2, <1>3 DEF b, h

\* unwrap finds the absolute number of every segment and of every acknowledgment.
LEMMA Unwrapped ==
    ASSUME NEW isn \in Int, NEW x \in 0..MaxBytes + 2, NEW c \in 0..MaxBytes + 2
    PROVE  S!W!unwrap(W!wrap(x, isn), isn, c) = x
  <1> DEFINE h == Mod32 \div 2
  <1>1. /\ MaxBytes \in Nat /\ MaxWin \in Nat /\ x \in Nat /\ c \in Nat
        /\ h \in Int /\ Mod32 \in Nat /\ MaxBytes + MaxWin + 3 <= h
        /\ h - Mod32 <= -(MaxBytes + MaxWin + 3)
    BY SenderAssumption, Half
  <1>2. NP!Widths
    BY SenderAssumption DEF NP!Widths
  <1>3. NP!InRange(c)
    <2> DEFINE k == Mod64 \div 2
    <2>1. MaxBytes + 2 + Mod32 <= k /\ k \in Int
      BY ShortStream, SenderAssumption
    <2> HIDE DEF k
    <2>2. c + Mod32 <= k
      BY <1>1, <2>1
    <2> QED
      BY <1>1, <2>2 DEF NP!InRange, k
  <1> HIDE DEF h
  <1>4. h - Mod32 <= x - c /\ x - c < h
    BY <1>1
  <1>5. NP!unwrap(NP!wrap(x, isn), isn, c) = x
    BY <1>1, <1>2, <1>3, <1>4, NP!UnwrapOfWrap DEF h
  <1>6. NP!wrap(x, isn) = W!wrap(x, isn)
    BY DEF NP!wrap, W!wrap
  <1>7. \A n : NP!unwrap(n, isn, c) = S!W!unwrap(n, isn, c)
    BY DEF NP!unwrap, S!W!unwrap, NP!difference, S!W!difference, NP!AsSigned, S!W!AsSigned,
           NP!wrap, S!W!wrap
  <1> QED
    BY <1>5, <1>6, <1>7

-----------------------------------------------------------------------------

\* The members that sending segments leaves alone.
Alike(x, y) ==
    /\ y.isn = x.isn /\ y.initial_retransmission_timeout = x.initial_retransmission_timeout
    /\ y.stream = x.stream /\ y.rcv_base = x.rcv_base
    /\ y.receiver_window_size = x.receiver_window_size
    /\ y.syn_sent = x.syn_sent /\ y.fin_sent = x.fin_sent

\* _segment_handler member by member.
Sent(x, y, segs, n) ==
    /\ IsSender(y) /\ Alike(x, y)
    /\ y.next_seqno = x.next_seqno + n /\ y.bytes_in_flight = x.bytes_in_flight + n
    /\ y.outstanding_segments = x.outstanding_segments \o segs
    /\ y.segments_out = x.segments_out \o segs
    /\ y.RTO = x.RTO /\ y.back_off = x.back_off
    /\ y.consecutive_retransmission = x.consecutive_retransmission
    /\ IF x.timer_running \/ segs = <<>>
       THEN y.timer_running = x.timer_running /\ y.time_elipsed = x.time_elipsed
       ELSE y.timer_running = TRUE /\ y.time_elipsed = 0

\* _segment_handler changes the members Sent names and no other.
LEMMA HandlerMembers ==
    ASSUME NEW x, IsSender(x), NEW segs, NEW n, NEW y, y = S!segment_handler(x, segs, n)
    PROVE  Sent(x, y, segs, n)
  <1> DEFINE z == S!StartTimer(x, segs)
             next == x.next_seqno + n
             bytes == x.bytes_in_flight + n
             out == x.outstanding_segments \o segs
             segments == x.segments_out \o segs
  <1>1. /\ IsSender(z) /\ Alike(x, z)
        /\ z.next_seqno = x.next_seqno /\ z.bytes_in_flight = x.bytes_in_flight
        /\ z.outstanding_segments = x.outstanding_segments /\ z.segments_out = x.segments_out
        /\ z.RTO = x.RTO /\ z.back_off = x.back_off
        /\ z.consecutive_retransmission = x.consecutive_retransmission
        /\ IF x.timer_running \/ segs = <<>>
           THEN z.timer_running = x.timer_running /\ z.time_elipsed = x.time_elipsed
           ELSE z.timer_running = TRUE /\ z.time_elipsed = 0
    <2>1. CASE x.timer_running \/ segs = <<>>
      <3>1. z = x
        BY <2>1 DEF S!StartTimer
      <3> QED
        BY <2>1, <3>1 DEF Alike
    <2>2. CASE ~(x.timer_running \/ segs = <<>>)
      <3>1. z = [x EXCEPT !.timer_running = TRUE, !.time_elipsed = 0]
        BY <2>2 DEF S!StartTimer
      <3> HIDE DEF z
      <3>2. /\ IsSender(z) /\ Alike(x, z)
            /\ z.next_seqno = x.next_seqno /\ z.bytes_in_flight = x.bytes_in_flight
            /\ z.outstanding_segments = x.outstanding_segments /\ z.segments_out = x.segments_out
            /\ z.RTO = x.RTO /\ z.back_off = x.back_off
            /\ z.consecutive_retransmission = x.consecutive_retransmission
            /\ z.timer_running = TRUE /\ z.time_elipsed = 0
        BY <3>1 DEF IsSender, SenderMembers, Alike
      <3> QED
        BY <2>2, <3>2
    <2> QED
      BY <2>1, <2>2
  <1>2. y = [z EXCEPT !.bytes_in_flight = z.bytes_in_flight + n, !.next_seqno = z.next_seqno + n,
                      !.outstanding_segments = z.outstanding_segments \o segs,
                      !.segments_out = z.segments_out \o segs]
    BY DEF S!segment_handler
  <1> HIDE DEF z
  <1>3. y = [z EXCEPT !.bytes_in_flight = bytes, !.next_seqno = next,
                      !.outstanding_segments = out, !.segments_out = segments]
    BY <1>1, <1>2
  <1> HIDE DEF bytes, next, out, segments
  <1>4. /\ IsSender(y) /\ Alike(z, y)
        /\ y.next_seqno = next /\ y.bytes_in_flight = bytes
        /\ y.outstanding_segments = out /\ y.RTO = z.RTO /\ y.back_off = z.back_off
        /\ y.segments_out = segments
        /\ y.consecutive_retransmission = z.consecutive_retransmission
        /\ y.timer_running = z.timer_running /\ y.time_elipsed = z.time_elipsed
    BY <1>1, <1>3 DEF IsSender, SenderMembers, Alike
  <1>5. Alike(x, y)
    BY <1>1, <1>4 DEF Alike
  <1> QED
    BY <1>1, <1>4, <1>5 DEF bytes, next, out, segments, Sent

\* Segments that start at next_seqno join the chain.
Extended(x, y, e, f, segs) ==
    /\ IsSender(y) /\ Chain(y, Joined(e, f)) /\ Timed(y) /\ Alike(x, y)
    /\ y.next_seqno = f[Len(f)]
    /\ y.outstanding_segments = x.outstanding_segments \o segs
    /\ y.segments_out = x.segments_out \o segs
    /\ y.consecutive_retransmission = x.consecutive_retransmission

\* _segment_handler keeps the chain and the timer.
LEMMA Handled ==
    ASSUME NEW x, IsSender(x), NEW e, Chain(x, e), Timed(x),
           NEW segs, NEW f, Edges(x.isn, f, segs), f[1] = x.next_seqno,
           NEW n, n = f[Len(f)] - f[1], NEW y, y = S!segment_handler(x, segs, n)
    PROVE  Extended(x, y, e, f, segs)
  <1> DEFINE a == x.outstanding_segments
             g == Joined(e, f)
             c == a \o segs
  <1>1. /\ IsSender(y) /\ Alike(x, y)
        /\ y.next_seqno = x.next_seqno + n /\ y.bytes_in_flight = x.bytes_in_flight + n
        /\ y.outstanding_segments = c /\ y.segments_out = x.segments_out \o segs
        /\ y.RTO = x.RTO /\ y.back_off = x.back_off
        /\ y.consecutive_retransmission = x.consecutive_retransmission
        /\ IF x.timer_running \/ segs = <<>>
           THEN y.timer_running = x.timer_running /\ y.time_elipsed = x.time_elipsed
           ELSE y.timer_running = TRUE /\ y.time_elipsed = 0
    <2>1. Sent(x, y, segs, n)
      BY HandlerMembers
    <2> QED
      BY <2>1 DEF Sent
  <1>2. /\ Edges(x.isn, e, a) /\ x.next_seqno = e[Len(e)] /\ x.bytes_in_flight = e[Len(e)] - e[1]
        /\ x.rcv_base \in Nat /\ e[1] <= x.rcv_base
        /\ IF a = <<>> THEN x.rcv_base = x.next_seqno ELSE x.rcv_base < e[2]
    BY DEF Chain
  <1>3. /\ Edges(x.isn, g, c) /\ Len(g) = Len(a) + Len(segs) + 1
        /\ g[Len(a) + Len(segs) + 1] = f[Len(f)]
        /\ \A i \in 1..Len(a) + 1 : g[i] = e[i]
        /\ \A i \in 1..Len(segs) + 1 : g[Len(a) + i] = f[i]
    <2>1. AreJoined(x.isn, Joined(e, f), e, f, a, segs)
      BY <1>2, EdgesJoin
    <2> QED
      BY <2>1 DEF AreJoined
  <1>4. /\ a \in Seq(SegmentSet) /\ segs \in Seq(SegmentSet)
        /\ Len(a) \in Nat /\ Len(segs) \in Nat /\ e \in Seq(Nat) /\ f \in Seq(Nat)
        /\ Len(e) = Len(a) + 1 /\ Len(f) = Len(segs) + 1
    BY <1>2 DEF Edges
  <1>5. e[1] \in Nat /\ e[Len(e)] \in Nat /\ f[1] \in Nat /\ f[Len(f)] \in Nat
    <2>1. 1 \in 1..Len(e) /\ Len(e) \in 1..Len(e) /\ 1 \in 1..Len(f) /\ Len(f) \in 1..Len(f)
      BY <1>4
    <2> QED
      BY <1>4, <2>1, ElementOfSeq
  <1>6. /\ a = <<>> <=> Len(a) = 0
        /\ segs = <<>> <=> Len(segs) = 0
        /\ c = <<>> <=> Len(a) + Len(segs) = 0
    <2>1. c \in Seq(SegmentSet) /\ Len(c) = Len(a) + Len(segs)
      BY <1>4
    <2> HIDE DEF c
    <2>2. \A q \in Seq(SegmentSet) : q = <<>> <=> Len(q) = 0
      OBVIOUS
    <2> QED
      BY <1>4, <2>1, <2>2
  <1>7. y.next_seqno = f[Len(f)] /\ y.bytes_in_flight = f[Len(f)] - e[1]
    <2>1. x.next_seqno = f[1] /\ x.bytes_in_flight = f[1] - e[1] /\ n = f[Len(f)] - f[1]
      BY <1>2
    <2>2. y.next_seqno = x.next_seqno + n /\ y.bytes_in_flight = x.bytes_in_flight + n
      BY <1>1
    <2> QED
      BY <1>5, <2>1, <2>2
  <1>8. g[1] = e[1] /\ y.rcv_base = x.rcv_base
    BY <1>1, <1>3, <1>4 DEF Alike
  <1>9. IF c = <<>> THEN y.rcv_base = y.next_seqno ELSE y.rcv_base < g[2]
    <2>1. CASE a # <<>>
      <3>1. 2 \in 1..Len(a) + 1 /\ c # <<>>
        BY <1>4, <1>6, <2>1
      <3> QED
        BY <1>2, <1>3, <1>8, <2>1, <3>1
    <2>2. CASE a = <<>> /\ segs = <<>>
      <3>1. Len(f) = 1 /\ c = <<>>
        BY <1>4, <1>6, <2>2
      <3> QED
        BY <1>2, <1>7, <1>8, <2>2, <3>1
    <2>3. CASE a = <<>> /\ segs # <<>>
      <3>1. 1 \in 1..Len(segs) /\ 2 \in 1..Len(segs) + 1 /\ c # <<>> /\ Len(a) + 2 = 2
        BY <1>4, <1>6, <2>3
      <3>2. f[1 + 1] = f[1] + Length(segs[1]) /\ Length(segs[1]) >= 1
        BY <3>1 DEF Edges, Carries
      <3>3. Length(segs[1]) \in Nat
        BY <1>4, <3>1, ElementOfSeq, LengthType
      <3>4. g[2] = f[2]
        BY <1>3, <3>1
      <3> QED
        BY <1>2, <1>5, <1>8, <2>3, <3>1, <3>2, <3>3, <3>4
    <2> QED
      BY <2>1, <2>2, <2>3
  <1>10. Chain(y, g)
    <2>1. Edges(y.isn, g, y.outstanding_segments)
      BY <1>1, <1>3 DEF Alike
    <2> HIDE DEF g, c, a
    <2> QED
      BY <1>1, <1>2, <1>3, <1>7, <1>8, <1>9, <2>1 DEF Chain
  <1>11. Timed(y)
    <2>0. /\ x.consecutive_retransmission \in 0..MAX_RETX_ATTEMPTS + 1
          /\ x.RTO = Doubled[x.consecutive_retransmission]
      BY Zenon DEF Timed
    <2>1. x.RTO \in Nat \ {0}
      BY <2>0, DoubledFacts, Zenon
    <2>2. y.outstanding_segments # <<>> <=> a # <<>> \/ segs # <<>>
      <3>1. y.outstanding_segments = c /\ Len(a) \in Nat /\ Len(segs) \in Nat
        BY <1>1, <1>4
      <3> HIDE DEF a, c
      <3> QED
        BY <1>6, <3>1
    <2>3. CASE x.timer_running \/ segs = <<>>
      BY <1>1, <2>2, <2>3 DEF Timed
    <2>4. CASE ~(x.timer_running \/ segs = <<>>)
      <3>1. y.timer_running = TRUE /\ y.time_elipsed = 0 /\ y.outstanding_segments # <<>>
        BY <1>1, <2>2, <2>4
      <3>2. /\ y.RTO \in Nat \ {0} /\ y.RTO = Doubled[y.consecutive_retransmission]
            /\ y.consecutive_retransmission \in 0..MAX_RETX_ATTEMPTS + 1
            /\ y.back_off \in BOOLEAN
        BY <1>1, <2>1 DEF Timed
      <3>3. y.timer_running \in BOOLEAN /\ (y.timer_running <=> y.outstanding_segments # <<>>)
        BY <3>1
      <3>4. y.time_elipsed \in Nat /\ y.time_elipsed < y.RTO
        BY <3>1, <3>2
      <3> QED
        BY <3>2, <3>3, <3>4, Zenon DEF Timed
    <2> QED
      BY <2>3, <2>4
  <1> QED
    BY <1>1, <1>7, <1>10, <1>11 DEF Extended

-----------------------------------------------------------------------------

\* Cutting n bytes into pieces of m: all but the last are full, the last is not empty.
Chunked(n, m, c) ==
    /\ c \in Nat /\ (n = 0 <=> c = 0)
    /\ \A k \in 1..c :
           /\ (k - 1) * m \in Nat /\ (k - 1) * m < n
           /\ k < c => k * m < n
           /\ k = c => n <= (k - 1) * m + m

\* Rounding n / m up gives the number of such pieces.
LEMMA Chunks ==
    ASSUME NEW n \in Nat, NEW m \in Nat \ {0}, NEW c, c = (n + m - 1) \div m
    PROVE  Chunked(n, m, c)
  <1> DEFINE r == (n + m - 1) % m
             z == n + m - 1
  <1>1. c \in Int /\ r \in 0..m - 1 /\ z = m * c + r /\ z \in Int
    <2>1. z \in Int /\ c = z \div m /\ r = z % m
      OBVIOUS
    <2> HIDE DEF z, r
    <2> QED
      BY <2>1, NP!DivMod
  <1> HIDE DEF r
  <1>2. m * c <= n + m - 1 /\ n <= m * c /\ m * c \in Int
    BY <1>1
  <1>3. c \in Nat
    <2>1. CASE c <= -1
      <3>1. m * c <= -m
        BY <1>1, <2>1
      <3> QED
        BY <1>2, <3>1
    <2> QED
      BY <1>1, <2>1
  <1>4. n = 0 <=> c = 0
    <2>1. c = 0 => n = 0
      BY <1>2
    <2>2. ASSUME c >= 1 PROVE n # 0
      <3>1. m * c >= m
        BY <1>1, <2>2
      <3> QED
        BY <1>2, <3>1
    <2> QED
      BY <1>3, <2>1, <2>2
  <1>5. ASSUME NEW k \in 1..c
        PROVE  /\ (k - 1) * m \in Nat /\ (k - 1) * m < n
               /\ k < c => k * m < n
               /\ k = c => n <= (k - 1) * m + m
    <2>1. k \in Nat /\ k - 1 \in Nat /\ k * m = (k - 1) * m + m /\ (k - 1) * m \in Nat
          /\ k * m \in Nat
      BY <1>3
    <2>2. m * c = (c - 1) * m + m /\ (c - 1) * m \in Int
      BY <1>1
    <2>3. (c - 1) * m < n
      BY <1>2, <2>2
    <2>4. k < c => k * m <= (c - 1) * m
      <3> SUFFICES ASSUME k < c PROVE k * m <= (c - 1) * m
        OBVIOUS
      <3>1. (c - 1) - k \in Nat
        BY <1>1, <2>1
      <3>2. ((c - 1) - k) * m >= 0
        BY <3>1
      <3>3. (c - 1) * m = k * m + ((c - 1) - k) * m
        BY <1>1, <2>1
      <3> QED
        BY <2>1, <2>2, <3>2, <3>3
    <2>5. k = c => n <= k * m
      BY <1>2
    <2> QED
      BY <2>1, <2>2, <2>3, <2>4, <2>5
  <1> QED
    BY <1>3, <1>4, <1>5 DEF Chunked

\* One of the pieces, of l bytes from a.
IsPiece(n, m, k, c, a, b, l) ==
    /\ l \in Nat /\ l >= 1 /\ a + l <= n
    /\ k < c => l = m /\ b = a + l
    /\ k = c => n = a + l
LEMMA Piece ==
    ASSUME NEW n \in Nat, NEW m \in Nat \ {0}, NEW k \in Nat, NEW c \in Nat, NEW a \in Nat,
           NEW b, b = a + m, a < n, k < c => b < n, k = c => n <= a + m,
           NEW l, l = S!BS!AtMost(n - a, m)
    PROVE  IsPiece(n, m, k, c, a, b, l)
  BY DEF S!BS!AtMost, IsPiece



\* The segments of one call of fill_window: they start at next_seqno, carry the first n
\* bytes of the stream, and the last of them may end it.
HasFin(segs) == \E k \in DOMAIN segs : segs[k].fin
IsCut(isn, segs, f, next, n, stream) ==
    /\ Edges(isn, f, segs) /\ f[1] = next /\ f[Len(f)] = next + n + Bit(HasFin(segs))
    /\ \A i \in 1..Len(segs) :
           f[i] + Len(segs[i].payload) <= next + n /\ next <= f[i] /\ segs[i].syn = FALSE
    /\ n >= 1 => segs # <<>>
    /\ HasFin(segs) => n = Len(stream.buffer) /\ stream.input_end

\* Taking n bytes from a stream.
IsPopped(b, d, n) ==
    /\ IsStream(d) /\ d.capacity = b.capacity /\ d.input_end = b.input_end
    /\ d.write_bytes = b.write_bytes /\ d.read_bytes = b.read_bytes + n
    /\ d.buffer = SubSeq(b.buffer, n + 1, Len(b.buffer))
    /\ Len(d.buffer) = Len(b.buffer) - n
    /\ S!BS!eof(d) <=> n = Len(b.buffer) /\ b.input_end
LEMMA PopMembers ==
    ASSUME NEW b, IsStream(b), b.buffer \in Seq(Nat), NEW n \in 0..Len(b.buffer),
           NEW d, d = S!BS!pop_output(b, n)
    PROVE  IsPopped(b, d, n)
  <1> DEFINE rest == SubSeq(b.buffer, n + 1, Len(b.buffer))
             read == b.read_bytes + n
  <1>1. Len(b.buffer) \in Nat /\ n \in Nat /\ n <= Len(b.buffer)
    OBVIOUS
  <1>2. d = [b EXCEPT !.buffer = rest, !.read_bytes = read]
    BY <1>1 DEF S!BS!pop_output, S!BS!AtMost, S!BS!buffer_size
  <1>3. Len(rest) = Len(b.buffer) - n
    BY <1>1
  <1> HIDE DEF rest, read
  <1>4. /\ IsStream(d) /\ d.capacity = b.capacity /\ d.input_end = b.input_end
        /\ d.write_bytes = b.write_bytes /\ d.read_bytes = read /\ d.buffer = rest
    BY <1>2 DEF IsStream, StreamMembers
  <1>5. S!BS!eof(d) <=> Len(d.buffer) = 0 /\ d.input_end
    BY DEF S!BS!eof, S!BS!buffer_empty, S!BS!buffer_size, S!BS!input_ended
  <1> QED
    BY <1>1, <1>3, <1>4, <1>5 DEF rest, read, IsPopped

\* The segments fill_window cuts the stream into.
LEMMA Cut ==
    ASSUME NEW x, Fixed(x), Numbered(x), x.syn_sent, ~x.fin_sent, NEW win, NEW free \in Nat,
           NEW n, n = S!BS!AtMost(free, Len(x.stream.buffer)),
           NEW segs, segs = S!Segments(x, win, free)
    PROVE  \E f : IsCut(x.isn, segs, f, x.next_seqno, n, x.stream)
  <1> DEFINE b == x.stream
             m == MAX_PAYLOAD_SIZE
             c == (n + m - 1) \div m
             ended == S!BS!eof(S!BS!pop_output(b, n))
             first(k) == (k - 1) * m
             length(k) == S!BS!AtMost(n - first(k), m)
             fin(k) == k = c /\ ended /\ length(k) < win
             piece(k) == SubSeq(b.buffer, first(k) + 1, first(k) + length(k))
             q(k) == S!Segment(S!W!wrap(x.next_seqno + first(k), x.isn), FALSE, fin(k), piece(k))
             next == x.next_seqno
             any == \E k \in 1..c : fin(k)
             f == [i \in 1..c + 1 |-> IF i <= c THEN next + first(i) ELSE next + n + Bit(any)]
  <1>1. segs = [k \in 1..c |-> q(k)]
    BY DEF S!Segments, S!BS!buffer_size
  <1>2. /\ IsStream(b) /\ b.buffer \in Seq(Nat) /\ Len(b.buffer) \in Nat
        /\ n \in 0..Len(b.buffer) /\ n \in Nat
        /\ b.read_bytes \in Nat /\ next = b.read_bytes + 1 /\ next \in Nat
        /\ \A i \in 1..Len(b.buffer) : b.buffer[i] = b.read_bytes + i
    <2>1. b.buffer \in Seq(Nat) /\ Len(b.buffer) \in Nat /\ IsStream(b) /\ b.read_bytes \in Nat
          /\ \A i \in 1..Len(b.buffer) : b.buffer[i] = b.read_bytes + i
      BY DEF Numbered, Streamed
    <2>2. n \in 0..Len(b.buffer)
      BY <2>1 DEF S!BS!AtMost
    <2>3. next = b.read_bytes + 1
      BY <2>1 DEF Numbered, Bit
    <2> QED
      BY <2>1, <2>2, <2>3
  <1>3. m \in Nat \ {0} /\ x.isn \in Int
    BY SenderAssumption DEF Fixed
  <1>4. ended <=> n = Len(b.buffer) /\ b.input_end
    BY <1>2, PopMembers DEF IsPopped
  <1> HIDE DEF ended, b, m
  <1>5. /\ c \in Nat /\ (n = 0 <=> c = 0)
        /\ \A k \in 1..c :
               /\ first(k) \in Nat /\ first(k) < n
               /\ k < c => k * m < n
               /\ k = c => n <= first(k) + m
    <2>1. Chunked(n, m, c)
      BY <1>2, <1>3, Chunks
    <2> HIDE DEF c
    <2> QED
      BY <2>1 DEF Chunked
  <1>6. ASSUME NEW k \in 1..c
        PROVE  /\ length(k) \in Nat /\ length(k) >= 1 /\ first(k) + length(k) <= n
               /\ k < c => length(k) = m /\ first(k + 1) = first(k) + length(k)
               /\ k = c => n = first(k) + length(k)
    <2>1. k \in Nat /\ k * m = first(k) + m /\ first(k + 1) = k * m
      BY <1>3, <1>5
    <2>2. first(k) \in Nat /\ first(k) < n /\ (k < c => k * m < n) /\ (k = c => n <= first(k) + m)
      BY <1>5
    <2> HIDE DEF c
    <2> DEFINE a == first(k)
               a2 == first(k + 1)
               l == length(k)
    <2>3. l = S!BS!AtMost(n - a, m)
      OBVIOUS
    <2>4. /\ a2 = a + m /\ a \in Nat /\ a < n /\ (k < c => a2 < n) /\ (k = c => n <= a + m)
      BY <2>1, <2>2
    <2>5. c \in Nat /\ n \in Nat /\ k \in Nat
      BY <1>2, <1>5, <2>1
    <2> HIDE DEF a, a2, l
    <2>6. IsPiece(n, m, k, c, a, a2, l)
      BY <1>3, <2>3, <2>4, <2>5, Piece
    <2> QED
      BY <2>6 DEF a, a2, l, IsPiece
  <1> HIDE DEF c, first, length
  <1>7. \A k : fin(k) \in BOOLEAN
    OBVIOUS
  <1>8. ASSUME NEW k \in 1..c
        PROVE  /\ piece(k) \in Seq(Nat) /\ Len(piece(k)) = length(k)
               /\ \A j \in 1..length(k) : piece(k)[j] = (next + first(k)) + j - 1
    <2> DEFINE a == first(k)
               l == length(k)
    <2>1. a \in Nat /\ l \in Nat /\ a + l <= n /\ l >= 1
      BY <1>5, <1>6
    <2> HIDE DEF a, l
    <2>2. /\ piece(k) \in Seq(Nat) /\ Len(piece(k)) = l
          /\ \A j \in 1..l : piece(k)[j] = b.buffer[a + j]
      <3> DEFINE t == SubSeq(b.buffer, a + 1, a + l)
      <3>1. piece(k) = t
        BY DEF a, l
      <3>2. a + l <= Len(b.buffer)
        BY <1>2, <2>1
      <3>3. IsPart(t, b.buffer, a, l, Nat)
        BY <1>2, <2>1, <3>2, PieceOf
      <3> HIDE DEF t, piece
      <3> QED
        BY <3>1, <3>3 DEF IsPart
    <2>3. ASSUME NEW j \in 1..l
          PROVE  piece(k)[j] = (next + a) + j - 1
      <3>1. a + j \in 1..Len(b.buffer)
        BY <1>2, <2>1
      <3>2. piece(k)[j] = b.read_bytes + (a + j)
        BY <1>2, <2>2, <3>1
      <3>3. next = b.read_bytes + 1 /\ b.read_bytes \in Nat /\ j \in Nat
        BY <1>2, <2>1
      <3> HIDE DEF next, piece
      <3> QED
        BY <2>1, <3>2, <3>3
    <2> QED
      BY <2>2, <2>3 DEF a, l
  <1> HIDE DEF piece, fin
  <1>9. ASSUME NEW k \in 1..c
        PROVE  /\ segs[k] \in SegmentSet
               /\ Carries(x.isn, segs[k], next + first(k)) /\ segs[k].fin = fin(k)
               /\ segs[k].payload = piece(k) /\ segs[k].syn = FALSE
               /\ Length(segs[k]) = length(k) + Bit(fin(k))
    <2>1. segs[k] = S!Segment(S!W!wrap(next + first(k), x.isn), FALSE, fin(k), piece(k))
      BY <1>1, <1>3
    <2> DEFINE w == S!W!wrap(next + first(k), x.isn)
    <2>2. w \in Int /\ w = W!wrap(next + first(k), x.isn)
      <3> DEFINE v == next + first(k)
      <3>1. v \in Int
        BY <1>2, <1>5
      <3> HIDE DEF v
      <3>2. S!W!wrap(v, x.isn) \in Int
        BY <1>3, <3>1, SenderAssumption DEF S!W!wrap
      <3>3. S!W!wrap(v, x.isn) = W!wrap(v, x.isn)
        BY DEF S!W!wrap, W!wrap
      <3> QED
        BY <3>2, <3>3 DEF v
    <2> HIDE DEF w
    <2>3. segs[k] = S!Segment(w, FALSE, fin(k), piece(k))
      BY <2>1 DEF w
    <2>4. /\ segs[k] \in SegmentSet /\ segs[k].seqno = w /\ segs[k].syn = FALSE
          /\ segs[k].fin = fin(k) /\ segs[k].payload = piece(k)
          /\ Length(segs[k]) = Len(piece(k)) + Bit(FALSE) + Bit(fin(k))
      <3>1. fin(k) \in BOOLEAN /\ piece(k) \in Seq(Nat) /\ FALSE \in BOOLEAN
        BY <1>7, <1>8
      <3>2. IsSegment(segs[k], w, FALSE, fin(k), piece(k))
        BY <2>2, <2>3, <3>1, SegmentMembers
      <3> QED
        BY <3>2 DEF IsSegment
    <2>5. Bit(FALSE) = 0 /\ Bit(fin(k)) \in Nat /\ length(k) \in Nat /\ length(k) >= 1
      BY <1>6, BitType DEF Bit
    <2>6. Length(segs[k]) = length(k) + Bit(fin(k)) /\ Length(segs[k]) >= 1
      <3> DEFINE L == Length(segs[k])
                 B == Bit(fin(k))
                 Z == Bit(FALSE)
                 P == Len(piece(k))
      <3>1. L = P + Z + B /\ P = length(k) /\ Z = 0 /\ B \in Nat
        BY <1>8, <2>4, <2>5
      <3>2. length(k) \in Nat /\ length(k) >= 1
        BY <2>5
      <3> HIDE DEF L, B, Z, P
      <3>3. L = length(k) + B /\ L >= 1
        BY <3>1, <3>2
      <3> QED
        BY <3>3 DEF L, B
    <2>7. Carries(x.isn, segs[k], next + first(k))
      BY <1>7, <1>8, <2>2, <2>4, <2>6 DEF Carries
    <2> QED
      BY <2>4, <2>6, <2>7
  <1>10. segs \in Seq(SegmentSet) /\ Len(segs) = c /\ DOMAIN segs = 1..c
    <2>1. \A k \in 1..c : segs[k] \in SegmentSet
      BY <1>9
    <2> HIDE DEF q
    <2>2. segs = [k \in 1..c |-> segs[k]]
      BY <1>1
    <2> QED
      BY <1>5, <2>1, <2>2
  <1>11. HasFin(segs) <=> any
    BY <1>9, <1>10 DEF HasFin
  <1>12. \A k \in 1..c : fin(k) => k = c /\ ended
    BY DEF fin
  <1>13. f \in Seq(Nat) /\ Len(f) = c + 1
    <2> DEFINE v(i) == IF i <= c THEN next + first(i) ELSE next + n + Bit(any)
    <2>1. ASSUME NEW i \in 1..c + 1 PROVE v(i) \in Nat
      <3>1. i <= c => i \in 1..c
        BY <1>5
      <3> HIDE DEF any
      <3>2. Bit(any) \in Nat
        BY BitType
      <3> QED
        BY <1>2, <1>5, <3>1, <3>2
    <2>2. f = [i \in 1..c + 1 |-> v(i)] /\ c + 1 \in Nat
      BY <1>5
    <2> HIDE DEF v, f
    <2> QED
      BY <2>1, <2>2
  <1>14. /\ \A i \in 1..c : f[i] = next + first(i)
         /\ f[c + 1] = next + n + Bit(any)
    <2> HIDE DEF any
    <2> QED
      BY <1>5
  <1> HIDE DEF f
  <1>15. ASSUME NEW i \in 1..c
         PROVE  f[i + 1] = f[i] + Length(segs[i])
    <2>1. CASE i < c
      <3>1. i + 1 \in 1..c /\ ~fin(i)
        BY <1>5, <1>12, <2>1
      <3>2. Bit(fin(i)) = 0
        BY <3>1 DEF Bit
      <3>3. f[i + 1] = next + first(i + 1) /\ f[i] = next + first(i)
        BY <1>14, <3>1
      <3>4. first(i + 1) = first(i) + length(i) /\ Length(segs[i]) = length(i) + Bit(fin(i))
        BY <1>6, <1>9, <2>1
      <3>5. first(i) \in Nat /\ length(i) \in Nat
        BY <1>5, <1>6
      <3> QED
        BY <1>2, <3>2, <3>3, <3>4, <3>5
    <2>2. CASE i = c
      <3>1. Bit(fin(i)) = Bit(any) /\ Bit(any) \in Nat
        <4>1. any <=> fin(i)
          BY <1>12, <2>2
        <4> QED
          BY <4>1 DEF Bit
      <3>2. f[i + 1] = next + n + Bit(any) /\ f[i] = next + first(i)
        BY <1>14, <2>2
      <3>3. n = first(i) + length(i) /\ Length(segs[i]) = length(i) + Bit(fin(i))
        BY <1>6, <1>9, <2>2
      <3>4. first(i) \in Nat /\ length(i) \in Nat
        BY <1>5, <1>6
      <3> HIDE DEF any
      <3> QED
        BY <1>2, <3>1, <3>2, <3>3, <3>4
    <2> QED
      BY <1>5, <2>1, <2>2
  <1>16. Edges(x.isn, f, segs)
    BY <1>9, <1>10, <1>13, <1>14, <1>15 DEF Edges
  <1>17. f[1] = next
    <2>1. CASE c = 0
      <3>1. n = 0 /\ ~any
        BY <1>5, <2>1
      <3>2. Bit(any) = 0
        BY <3>1 DEF Bit
      <3> HIDE DEF any
      <3> QED
        BY <1>2, <1>14, <2>1, <3>1, <3>2
    <2>2. CASE c # 0
      <3>1. 1 \in 1..c
        BY <1>5, <2>2
      <3>2. first(1) = 0
        BY <1>3 DEF first
      <3> QED
        BY <1>2, <1>14, <3>1, <3>2
    <2> QED
      BY <2>1, <2>2
  <1>18. ASSUME NEW i \in 1..c
         PROVE  f[i] + Len(segs[i].payload) <= next + n /\ next <= f[i] /\ segs[i].syn = FALSE
    <2>1. f[i] = next + first(i) /\ Len(segs[i].payload) = length(i)
      BY <1>8, <1>9, <1>14
    <2>2. first(i) \in Nat /\ length(i) \in Nat /\ first(i) + length(i) <= n
      BY <1>5, <1>6
    <2>3. segs[i].syn = FALSE
      BY <1>9
    <2> QED
      BY <1>2, <2>1, <2>2, <2>3
  <1>19. n >= 1 => segs # <<>>
    BY <1>2, <1>5, <1>10
  <1>20. HasFin(segs) => n = Len(b.buffer) /\ b.input_end
    BY <1>4, <1>11, <1>12
  <1>21. f[Len(f)] = next + n + Bit(HasFin(segs))
    <2>1. Bit(HasFin(segs)) = Bit(any)
      BY <1>11 DEF Bit
    <2> QED
      BY <1>13, <1>14, <2>1
  <1>22. IsCut(x.isn, segs, f, next, n, b)
    BY <1>10, <1>16, <1>17, <1>18, <1>19, <1>20, <1>21 DEF IsCut
  <1> QED
    BY <1>22 DEF b

-----------------------------------------------------------------------------

\* The members that Chain and Timed read.
SameQueue(x, y) ==
    /\ y.isn = x.isn
    /\ y.next_seqno = x.next_seqno /\ y.outstanding_segments = x.outstanding_segments
    /\ y.bytes_in_flight = x.bytes_in_flight /\ y.rcv_base = x.rcv_base
    /\ y.timer_running = x.timer_running /\ y.back_off = x.back_off
    /\ y.consecutive_retransmission = x.consecutive_retransmission
    /\ y.RTO = x.RTO /\ y.time_elipsed = x.time_elipsed

\* The chain and the timer stay as they are when their members do.
LEMMA QueueKept ==
    ASSUME NEW x, NEW y, NEW e, SameQueue(x, y), Chain(x, e), Timed(x)
    PROVE  Chain(y, e) /\ Timed(y)
  <1>1. Chain(y, e)
    BY DEF SameQueue, Chain
  <1>2. Timed(y)
    BY DEF SameQueue, Timed
  <1> QED
    BY <1>1, <1>2

\* A segment with nothing but a SYN or a FIN.
IsFlag(isn, q, f, start, syn) ==
    /\ Edges(isn, f, <<q>>) /\ Len(f) = 2 /\ f[1] = start /\ f[2] = start + 1
    /\ q.payload = <<>> /\ q.syn = syn /\ q.seqno = W!wrap(start, isn) /\ q \in SegmentSet
LEMMA Flag ==
    ASSUME NEW isn \in Int, NEW start \in Nat, NEW syn \in BOOLEAN, NEW fin \in BOOLEAN, Bit(syn) + Bit(fin) = 1,
           NEW q, q = S!Segment(S!W!wrap(start, isn), syn, fin, <<>>),
           NEW f, f = <<start, start + 1>>
    PROVE  IsFlag(isn, q, f, start, syn)
  <1> DEFINE w == S!W!wrap(start, isn)
  <1>1. w \in Int /\ w = W!wrap(start, isn)
    <2>1. S!W!wrap(start, isn) \in Int
      BY SenderAssumption DEF S!W!wrap
    <2> QED
      BY <2>1 DEF S!W!wrap, W!wrap
  <1> HIDE DEF w
  <1>2. q = S!Segment(w, syn, fin, <<>>)
    BY DEF w
  <1>3. <<>> \in Seq(Nat) /\ Len(<<>>) = 0
    OBVIOUS
  <1>4. IsSegment(q, w, syn, fin, <<>>)
    BY <1>1, <1>2, <1>3, SegmentMembers
  <1>5. q \in SegmentSet /\ q.payload = <<>> /\ Length(q) = 1 /\ q.syn = syn
        /\ q.seqno = w /\ q.syn \in BOOLEAN /\ q.fin \in BOOLEAN
    <2>1. Bit(syn) \in Nat /\ Bit(fin) \in Nat
      BY BitType
    <2>2. Length(q) = 0 + Bit(syn) + Bit(fin)
      BY <1>3, <1>4 DEF IsSegment
    <2>3. Length(q) = 1
      BY <2>1, <2>2
    <2> QED
      BY <1>4, <2>3 DEF IsSegment
  <1>6. Carries(isn, q, start)
    <2>1. Length(q) >= 1
      BY <1>5
    <2>2. q.payload = <<>>
      BY <1>5
    <2>3. q.payload \in Seq(Nat) /\ Len(q.payload) = 0 /\ Length(q) >= 1
      BY <1>3, <2>1, <2>2, Zenon
    <2>4. 1..Len(q.payload) = {}
      BY <2>3
    <2>5. \A j \in 1..Len(q.payload) : q.payload[j] = start + j - 1
      BY <2>4
    <2> QED
      BY <1>1, <1>5, <2>3, <2>5 DEF Carries
  <1>7. f \in Seq(Nat) /\ Len(f) = 2 /\ f[1] = start /\ f[2] = start + 1
    OBVIOUS
  <1>8. <<q>> \in Seq(SegmentSet) /\ Len(<<q>>) = 1 /\ <<q>>[1] = q
    BY <1>5
  <1>9. Edges(isn, f, <<q>>)
    <2>1. ASSUME NEW i \in 1..Len(<<q>>)
          PROVE  Carries(isn, <<q>>[i], f[i]) /\ f[i + 1] = f[i] + Length(<<q>>[i])
      <3>1. i = 1 /\ <<q>>[i] = q /\ f[i] = start /\ f[i + 1] = start + 1
        BY <1>7, <1>8
      <3> QED
        BY <1>5, <1>6, <3>1
    <2> QED
      BY <1>7, <1>8, <2>1 DEF Edges
  <1> QED
    BY <1>1, <1>5, <1>7, <1>9 DEF IsFlag

\* The payload of a longer chain.
Fits(e, a, edge) == \A i \in 1..Len(a) : e[i] + Len(a[i].payload) <= edge
LEMMA FitsJoin ==
    ASSUME NEW isn, NEW a, NEW e, Edges(isn, e, a), NEW b, NEW f, Edges(isn, f, b), f[1] = e[Len(e)],
           NEW edge, Fits(e, a, edge), Fits(f, b, edge)
    PROVE  Fits(Joined(e, f), a \o b, edge)
  <1> DEFINE g == Joined(e, f)
             c == a \o b
  <1>1. AreJoined(isn, g, e, f, a, b)
    BY EdgesJoin
  <1>2. a \in Seq(SegmentSet) /\ b \in Seq(SegmentSet) /\ Len(a) \in Nat /\ Len(b) \in Nat
    BY DEF Edges
  <1>3. /\ Len(c) = Len(a) + Len(b)
        /\ \A i \in 1..Len(a) : c[i] = a[i]
        /\ \A i \in 1..Len(b) : c[Len(a) + i] = b[i]
    BY <1>2
  <1> HIDE DEF g, c
  <1>4. ASSUME NEW i \in 1..Len(c)
        PROVE  g[i] + Len(c[i].payload) <= edge
    <2>1. CASE i <= Len(a)
      <3>1. i \in 1..Len(a) /\ i \in 1..Len(a) + 1
        BY <1>2, <1>3, <2>1
      <3>2. c[i] = a[i] /\ g[i] = e[i]
        BY <1>1, <1>3, <3>1 DEF AreJoined
      <3> QED
        BY <3>1, <3>2 DEF Fits
    <2>2. CASE i > Len(a)
      <3> DEFINE j == i - Len(a)
      <3>1. j \in 1..Len(b) /\ j \in 1..Len(b) + 1 /\ i = Len(a) + j
        BY <1>2, <1>3, <2>2
      <3> HIDE DEF j
      <3>2. c[i] = b[j] /\ g[i] = f[j]
        BY <1>1, <1>3, <3>1 DEF AreJoined
      <3> QED
        BY <3>1, <3>2 DEF Fits
    <2> QED
      BY <1>2, <1>3, <2>1, <2>2
  <1> QED
    BY <1>4 DEF Fits, g, c

\* The numbering once the SYN is sent.
LEMMA NumberedIs ==
    ASSUME NEW y, Streamed(y.stream), y.syn_sent, y.syn_sent \in BOOLEAN,
           y.fin_sent \in BOOLEAN, y.fin_sent => Exhausted(y.stream),
           y.next_seqno = y.stream.read_bytes + 1 + Bit(y.fin_sent),
           y.receiver_window_size \in 0..MaxWin + 1
    PROVE  Numbered(y)
  BY Zenon DEF Numbered

\* What fill_window promises.
Filled(x, y, e) ==
    /\ \E g : Good(y, g) /\ \A edge : Within(x, e, edge) => Within(y, g, edge)
    /\ Moving(y)
    /\ y.rcv_base = x.rcv_base /\ y.next_seqno >= x.next_seqno
    /\ Goes(x, y) /\ y.syn_sent
    /\ Spoken(x) => Spoken(y)

\* The window that is probed is never empty.
LEMMA Probe ==
    ASSUME NEW win \in 0..MaxWin + 1
    PROVE  S!ProbeWindow(win) \in 1..MaxWin + 1
           /\ S!ProbeWindow(S!ProbeWindow(win)) = S!ProbeWindow(win)
  BY SenderAssumption DEF S!ProbeWindow
\* Sending segments that start at next_seqno keeps the chain; what is left to show is
\* that the stream and the window agree.
SendKeeps(x, y, z, e, f, segs) ==
    /\ Fixed(y) /\ Chain(y, Joined(e, f)) /\ Timed(y) /\ Alike(z, y)
    /\ y.next_seqno = f[Len(f)] /\ y.rcv_base = x.rcv_base
    /\ y.outstanding_segments = x.outstanding_segments \o segs
    /\ y.segments_out = z.segments_out \o segs
    /\ y.consecutive_retransmission = x.consecutive_retransmission
    /\ segs # <<>> => y.outstanding_segments # <<>>
    /\ \A edge : Fits(e, x.outstanding_segments, edge) /\ Fits(f, segs, edge)
           => Fits(Joined(e, f), y.outstanding_segments, edge)

\* Sending a run of segments that starts at next_seqno.
LEMMA SendGood ==
    ASSUME NEW x, NEW e, Good(x, e), NEW z, Fixed(z), SameQueue(x, z),
           NEW segs, NEW f, Edges(x.isn, f, segs), f[1] = x.next_seqno,
           NEW n, n = f[Len(f)] - f[1], NEW y, y = S!segment_handler(z, segs, n)
    PROVE  SendKeeps(x, y, z, e, f, segs)
  <1>1. Chain(z, e) /\ Timed(z) /\ IsSender(z) /\ z.next_seqno = x.next_seqno
        /\ z.outstanding_segments = x.outstanding_segments /\ z.rcv_base = x.rcv_base
        /\ z.isn = x.isn /\ z.consecutive_retransmission = x.consecutive_retransmission
    <2>1. Chain(z, e) /\ Timed(z)
      BY QueueKept DEF Good
    <2> QED
      BY <2>1 DEF Fixed, SameQueue
  <1>2. /\ IsSender(y) /\ Chain(y, Joined(e, f)) /\ Timed(y) /\ Alike(z, y)
        /\ y.next_seqno = f[Len(f)]
        /\ y.outstanding_segments = z.outstanding_segments \o segs
        /\ y.segments_out = z.segments_out \o segs
        /\ y.consecutive_retransmission = z.consecutive_retransmission
    <2>1. f[1] = z.next_seqno /\ Edges(z.isn, f, segs)
      BY <1>1
    <2>2. Extended(z, y, e, f, segs)
      BY <1>1, <2>1, Handled
    <2> QED
      BY <2>2 DEF Extended
  <1>3. Fixed(y)
    BY <1>2 DEF Fixed, Alike
  <1>4. ASSUME NEW edge, Fits(e, x.outstanding_segments, edge), Fits(f, segs, edge)
        PROVE  Fits(Joined(e, f), y.outstanding_segments, edge)
    <2> DEFINE a == x.outstanding_segments
    <2>1. Edges(x.isn, e, a) /\ f[1] = e[Len(e)]
      BY DEF Good, Chain
    <2> HIDE DEF a
    <2>2. Fits(Joined(e, f), a \o segs, edge)
      BY <1>4, <2>1, FitsJoin DEF a
    <2> QED
      BY <1>1, <1>2, <2>2 DEF a
  <1>5. y.rcv_base = x.rcv_base
    BY <1>1, <1>2 DEF Alike
  <1>6. segs # <<>> => y.outstanding_segments # <<>>
    <2>1. x.outstanding_segments \in Seq(SegmentSet) /\ segs \in Seq(SegmentSet)
      BY DEF Good, Chain, Edges
    <2>2. segs # <<>> => x.outstanding_segments \o segs # <<>>
      BY <2>1
    <2> QED
      BY <1>1, <1>2, <2>2
  <1> QED
    BY <1>1, <1>2, <1>3, <1>4, <1>5, <1>6 DEF SendKeeps

\* Sending segments that say what they should.
LEMMA SpeaksMore ==
    ASSUME NEW x, NEW y, NEW segs, y.isn = x.isn,
           y.stream.write_bytes = x.stream.write_bytes,
           segs \in Seq(Said(x.isn, x.stream.write_bytes)),
           y.outstanding_segments = x.outstanding_segments \o segs,
           y.segments_out = x.segments_out \o segs, Spoken(x)
    PROVE  Spoken(y)
  <1> DEFINE T == Said(x.isn, x.stream.write_bytes)
             a == x.outstanding_segments
             b == x.segments_out
  <1>1. a \in Seq(T) /\ b \in Seq(T) /\ segs \in Seq(T)
    BY DEF Spoken
  <1> HIDE DEF T, a, b
  <1>2. a \o segs \in Seq(T) /\ b \o segs \in Seq(T)
    BY <1>1
  <1> QED
    BY <1>2 DEF Spoken, T, a, b

\* A segment with nothing but a SYN or a FIN says what it should.
LEMMA FlagSays ==
    ASSUME NEW isn, NEW w \in Nat, NEW q, NEW f, NEW start \in 0..w + 2, NEW syn,
           IsFlag(isn, q, f, start, syn), syn <=> start = 0
    PROVE  <<q>> \in Seq(Said(isn, w))
  <1>1. q \in SegmentSet /\ q.payload = <<>> /\ q.syn = syn /\ q.seqno = W!wrap(start, isn)
    BY DEF IsFlag
  <1>2. Len(q.payload) = 0
    BY <1>1
  <1>3. \A j \in 1..Len(q.payload) : q.payload[j] = start + j - 1
    BY <1>2
  <1>4. Says(isn, q, w)
    BY <1>1, <1>3 DEF Says
  <1>5. q \in Said(isn, w)
    BY <1>1, <1>4 DEF Said
  <1> QED
    BY <1>5

\* The numbers a stream has written and read.
LEMMA WrittenIs ==
    ASSUME NEW b, Streamed(b)
    PROVE  b.write_bytes \in Nat /\ b.read_bytes \in Nat /\ b.buffer \in Seq(Nat)
           /\ Len(b.buffer) \in Nat /\ b.write_bytes = b.read_bytes + Len(b.buffer)
  <1>1. b.write_bytes \in Nat /\ b.read_bytes \in Nat /\ b.buffer \in Seq(Nat)
        /\ Len(b.buffer) = b.write_bytes - b.read_bytes
    BY SenderAssumption DEF Streamed
  <1>2. Len(b.buffer) \in Nat
    BY <1>1
  <1> QED
    BY <1>1, <1>2

\* The first call sends the SYN.
LEMMA FillSyn ==
    ASSUME NEW x, NEW e, Good(x, e), x.syn_sent = FALSE, NEW y, y = S!SendSyn(x)
    PROVE  Filled(x, y, e)
  <1> DEFINE z == [x EXCEPT !.syn_sent = TRUE]
             q == S!Segment(S!W!wrap(x.next_seqno, x.isn), TRUE, FALSE, <<>>)
             f == <<0, 0 + 1>>
             g == Joined(e, f)
  <1>1. /\ x.next_seqno = 0 /\ x.stream.read_bytes = 0 /\ x.fin_sent = FALSE
        /\ IsSender(x) /\ x.isn \in Int
    <2>1. x.fin_sent \in BOOLEAN /\ ~x.fin_sent
      BY DEF Good, Numbered
    <2>2. x.fin_sent = FALSE
      BY <2>1
    <2> QED
      BY <2>2 DEF Good, Numbered, Fixed
  <1>2. /\ Fixed(z) /\ SameQueue(x, z) /\ z.stream = x.stream /\ z.fin_sent = FALSE
        /\ z.syn_sent = TRUE /\ z.receiver_window_size = x.receiver_window_size
        /\ z.segments_out = x.segments_out
    <2>1. Fixed(x)
      BY DEF Good
    <2> QED
      BY <1>1, <2>1 DEF Fixed, IsSender, SenderMembers, SameQueue
  <1>3. y = S!segment_handler(z, <<q>>, 1)
    BY <1>1 DEF S!SendSyn
  <1> HIDE DEF z
  <1>4. IsFlag(x.isn, q, f, 0, TRUE)
    <2>1. Bit(TRUE) + Bit(FALSE) = 1
      BY DEF Bit
    <2>2. q = S!Segment(S!W!wrap(0, x.isn), TRUE, FALSE, <<>>) /\ x.isn \in Int
      BY <1>1
    <2> HIDE DEF q
    <2> QED
      BY <2>1, <2>2, Flag
  <1> HIDE DEF q, f, g
  <1>5. Edges(x.isn, f, <<q>>) /\ f[1] = x.next_seqno /\ 1 = f[Len(f)] - f[1] /\ f[Len(f)] = 1
    BY <1>1, <1>4 DEF IsFlag
  <1>6. SendKeeps(x, y, z, e, f, <<q>>)
    BY <1>2, <1>3, <1>5, SendGood
  <1>7. /\ y.stream = x.stream /\ y.syn_sent = TRUE /\ y.fin_sent = FALSE
        /\ y.receiver_window_size = x.receiver_window_size /\ y.rcv_base = x.rcv_base
        /\ y.next_seqno = 1
    BY <1>2, <1>5, <1>6 DEF SendKeeps, Alike
  <1>8. Bit(y.fin_sent) = 0 /\ Bit(x.fin_sent) = 0
    BY <1>1, <1>7 DEF Bit
  <1>9. Numbered(y)
    <2>1. Streamed(x.stream) /\ x.receiver_window_size \in 0..MaxWin + 1
      BY DEF Good, Numbered
    <2>2. y.syn_sent /\ y.syn_sent \in BOOLEAN /\ y.fin_sent \in BOOLEAN /\ ~y.fin_sent
      BY <1>7
    <2>3. y.next_seqno = y.stream.read_bytes + 1 + Bit(y.fin_sent)
      BY <1>1, <1>7, <1>8
    <2>4. Streamed(y.stream) /\ y.receiver_window_size \in 0..MaxWin + 1
      BY <1>7, <2>1
    <2> QED
      BY <2>2, <2>3, <2>4, NumberedIs
  <1>10. Moving(y)
    BY <1>6 DEF Moving, SendKeeps
  <1>11. ASSUME NEW edge, Within(x, e, edge)
         PROVE  Within(y, g, edge)
    <2>1. x.receiver_window_size \in 0..MaxWin + 1 /\ x.rcv_base \in Nat
      BY DEF Good, Numbered, Chain
    <2>2. S!ProbeWindow(x.receiver_window_size) \in 1..MaxWin + 1
      BY <2>1, Probe
    <2>3. edge = x.rcv_base + S!ProbeWindow(x.receiver_window_size)
      BY <1>11 DEF Within
    <2>4. edge \in Nat /\ 1 <= edge
      BY <2>1, <2>2, <2>3, SenderAssumption
    <2>5. Fits(f, <<q>>, edge)
      <3>1. Len(<<q>>) = 1 /\ <<q>>[1] = q /\ Len(q.payload) = 0 /\ f[1] = 0
        BY <1>4 DEF IsFlag
      <3>2. \A i \in 1..Len(<<q>>) : i = 1
        BY <3>1
      <3> QED
        BY <2>4, <3>1, <3>2 DEF Fits
    <2>6. Fits(e, x.outstanding_segments, edge)
      BY <1>11 DEF Within, Fits
    <2>7. Fits(g, y.outstanding_segments, edge)
      BY <1>6, <2>5, <2>6 DEF SendKeeps, g
    <2> QED
      BY <1>7, <1>8, <2>3, <2>4, <2>7 DEF Within, Fits
  <1>12. Good(y, g)
    BY <1>6, <1>9 DEF Good, SendKeeps, g
  <1>13. y.isn = x.isn /\ y.segments_out = x.segments_out \o <<q>>
         /\ y.outstanding_segments = x.outstanding_segments \o <<q>>
    BY <1>2, <1>6 DEF SendKeeps, Alike, SameQueue
  <1>14. Spoken(x) => Spoken(y)
    <2>1. x.stream.write_bytes \in Nat
      BY WrittenIs DEF Good, Numbered
    <2> DEFINE w == x.stream.write_bytes
    <2> HIDE DEF w
    <2>3. w \in Nat /\ 0 \in 0..w + 2
      BY <2>1 DEF w
    <2>2. <<q>> \in Seq(Said(x.isn, x.stream.write_bytes))
      BY <1>4, <2>3, FlagSays DEF w
    <2> QED
      BY <1>7, <1>13, <2>2, SpeaksMore
  <1>15. Goes(x, y) /\ y.syn_sent
    BY <1>6, <1>7, <1>13 DEF Goes, SendKeeps
  <1> QED
    BY <1>1, <1>7, <1>10, <1>11, <1>12, <1>14, <1>15 DEF Filled

\* How far the numbers go.
LEMMA Bounds ==
    ASSUME NEW x, NEW e, Good(x, e)
    PROVE  /\ x.next_seqno \in Nat /\ x.next_seqno <= MaxBytes + 2
           /\ x.rcv_base \in Nat /\ x.rcv_base <= x.next_seqno
  <1>1. x.stream.read_bytes \in Nat /\ x.stream.read_bytes <= MaxBytes
    BY SenderAssumption DEF Good, Numbered, Streamed
  <1>2. x.next_seqno = 0 \/ x.next_seqno = x.stream.read_bytes + 1 + Bit(x.fin_sent)
    BY DEF Good, Numbered
  <1>3. Bit(x.fin_sent) \in {0, 1}
    BY BitType
  <1>4. x.next_seqno \in Nat /\ x.next_seqno <= MaxBytes + 2
    BY <1>1, <1>2, <1>3, SenderAssumption
  <1> DEFINE a == x.outstanding_segments
  <1>5. /\ Edges(x.isn, e, a) /\ x.next_seqno = e[Len(e)] /\ x.rcv_base \in Nat
        /\ IF a = <<>> THEN x.rcv_base = x.next_seqno ELSE x.rcv_base < e[2]
    BY DEF Good, Chain
  <1>6. x.rcv_base <= x.next_seqno
    <2>1. CASE a = <<>>
      BY <1>4, <1>5, <2>1
    <2>2. CASE a # <<>>
      <3>1. e \in Seq(Nat) /\ Len(e) = Len(a) + 1 /\ a \in Seq(SegmentSet)
        BY <1>5 DEF Edges
      <3>2. 2 \in 1..Len(e) /\ Len(e) \in 2..Len(e)
        BY <2>2, <3>1
      <3>3. e[2] <= e[Len(e)]
        BY <1>5, <3>2, EdgesGrow
      <3>4. e[2] \in Nat
        BY <3>1, <3>2, ElementOfSeq
      <3> QED
        BY <1>4, <1>5, <2>2, <3>3, <3>4
    <2> QED
      BY <2>1, <2>2
  <1> QED
    BY <1>4, <1>5, <1>6

\* What fill_window does when the stream is finished and the window has room.
LEMMA FillFin ==
    ASSUME NEW x, NEW e, Good(x, e), x.syn_sent, x.fin_sent = FALSE, Exhausted(x.stream),
           NEW y, y = S!SendFin(x)
    PROVE  Filled(x, y, e)
  <1> DEFINE z == [x EXCEPT !.fin_sent = TRUE]
             next == x.next_seqno
             q == S!Segment(S!W!wrap(next, x.isn), FALSE, TRUE, <<>>)
             f == <<next, next + 1>>
             g == Joined(e, f)
  <1>1. /\ next \in Nat /\ x.isn \in Int /\ Bit(x.fin_sent) = 0
        /\ next = x.stream.read_bytes + 1 /\ x.stream.read_bytes \in Nat
    <2>1. next \in Nat
      BY Bounds
    <2>2. Bit(x.fin_sent) = 0
      BY DEF Bit
    <2>3. x.stream.read_bytes \in Nat /\ next = x.stream.read_bytes + 1 + Bit(x.fin_sent)
      BY DEF Good, Numbered, Streamed
    <2>4. x.isn \in Int
      BY DEF Good, Fixed
    <2> QED
      BY <2>1, <2>2, <2>3, <2>4
  <1>2. /\ Fixed(z) /\ SameQueue(x, z) /\ z.stream = x.stream /\ z.fin_sent = TRUE
        /\ z.syn_sent = x.syn_sent /\ z.receiver_window_size = x.receiver_window_size
        /\ z.segments_out = x.segments_out
    <2>1. Fixed(x)
      BY DEF Good
    <2> QED
      BY <2>1 DEF Fixed, IsSender, SenderMembers, SameQueue
  <1>3. y = S!segment_handler(z, <<q>>, 1)
    BY <1>1 DEF S!SendFin
  <1> HIDE DEF z
  <1>4. IsFlag(x.isn, q, f, next, FALSE)
    <2>1. Bit(FALSE) + Bit(TRUE) = 1
      BY DEF Bit
    <2> HIDE DEF next
    <2> QED
      BY <1>1, <2>1, Flag
  <1> HIDE DEF q, f, g
  <1>5. Edges(x.isn, f, <<q>>) /\ f[1] = x.next_seqno /\ 1 = f[Len(f)] - f[1] /\ f[Len(f)] = next + 1
    BY <1>1, <1>4 DEF IsFlag
  <1>6. SendKeeps(x, y, z, e, f, <<q>>)
    BY <1>2, <1>3, <1>5, SendGood
  <1>7. /\ y.stream = x.stream /\ y.syn_sent = x.syn_sent /\ y.fin_sent = TRUE
        /\ y.receiver_window_size = x.receiver_window_size /\ y.rcv_base = x.rcv_base
        /\ y.next_seqno = next + 1
    BY <1>2, <1>5, <1>6 DEF SendKeeps, Alike
  <1>8. Bit(y.fin_sent) = 1
    BY <1>7 DEF Bit
  <1>9. Numbered(y)
    <2>1. Streamed(x.stream) /\ x.receiver_window_size \in 0..MaxWin + 1 /\ x.syn_sent \in BOOLEAN
      BY DEF Good, Numbered
    <2>2. y.syn_sent /\ y.syn_sent \in BOOLEAN /\ y.fin_sent \in BOOLEAN
      BY <1>7, <2>1
    <2>3. y.next_seqno = y.stream.read_bytes + 1 + Bit(y.fin_sent)
      BY <1>1, <1>7, <1>8
    <2>4. Streamed(y.stream) /\ y.receiver_window_size \in 0..MaxWin + 1 /\ Exhausted(y.stream)
      BY <1>7, <2>1
    <2> QED
      BY <2>2, <2>3, <2>4, NumberedIs
  <1>10. Moving(y)
    BY <1>6 DEF Moving, SendKeeps
  <1>11. ASSUME NEW edge, Within(x, e, edge)
         PROVE  Within(y, g, edge)
    <2>1. x.receiver_window_size \in 0..MaxWin + 1 /\ x.rcv_base \in Nat
      BY DEF Good, Numbered, Chain
    <2>2. S!ProbeWindow(x.receiver_window_size) \in 1..MaxWin + 1
      BY <2>1, Probe
    <2>3. edge = x.rcv_base + S!ProbeWindow(x.receiver_window_size)
          /\ next <= edge + Bit(x.fin_sent)
      BY <1>11 DEF Within
    <2>4. edge \in Nat /\ next <= edge
      BY <1>1, <2>1, <2>2, <2>3, SenderAssumption
    <2>5. Fits(f, <<q>>, edge)
      <3>1. Len(<<q>>) = 1 /\ <<q>>[1] = q /\ Len(q.payload) = 0 /\ f[1] = next
        BY <1>4 DEF IsFlag
      <3>2. \A i \in 1..Len(<<q>>) : i = 1
        BY <3>1
      <3> QED
        BY <1>1, <2>4, <3>1, <3>2 DEF Fits
    <2>6. Fits(e, x.outstanding_segments, edge)
      BY <1>11 DEF Within, Fits
    <2>7. Fits(g, y.outstanding_segments, edge)
      BY <1>6, <2>5, <2>6 DEF SendKeeps, g
    <2>8. y.next_seqno <= edge + Bit(y.fin_sent)
      BY <1>1, <1>7, <1>8, <2>4
    <2> QED
      BY <1>7, <2>3, <2>7, <2>8 DEF Within, Fits
  <1>12. Good(y, g)
    BY <1>6, <1>9 DEF Good, SendKeeps, g
  <1>13. y.next_seqno >= x.next_seqno
    BY <1>1, <1>7
  <1>14. y.isn = x.isn /\ y.segments_out = x.segments_out \o <<q>>
         /\ y.outstanding_segments = x.outstanding_segments \o <<q>>
    BY <1>2, <1>6 DEF SendKeeps, Alike, SameQueue
  <1>15. Spoken(x) => Spoken(y)
    <2>1. x.stream.write_bytes \in Nat /\ next \in 0..x.stream.write_bytes + 2 /\ next # 0
      <3>1. Streamed(x.stream)
        BY DEF Good, Numbered
      <3>2. x.stream.write_bytes \in Nat /\ Len(x.stream.buffer) \in Nat
            /\ x.stream.write_bytes = x.stream.read_bytes + Len(x.stream.buffer)
        BY <3>1, WrittenIs
      <3> QED
        BY <1>1, <3>2
    <2>2. <<q>> \in Seq(Said(x.isn, x.stream.write_bytes))
      BY <1>4, <2>1, FlagSays
    <2> QED
      BY <1>7, <1>14, <2>2, SpeaksMore
  <1>16. Goes(x, y) /\ y.syn_sent
    BY <1>6, <1>7, <1>14 DEF Goes, SendKeeps
  <1> QED
    BY <1>7, <1>10, <1>11, <1>12, <1>13, <1>15, <1>16 DEF Filled

\* Taking n bytes from a stream leaves a stream.
Taken(b, d, n) ==
    /\ Streamed(d) /\ d.read_bytes = b.read_bytes + n /\ Len(d.buffer) = Len(b.buffer) - n
    /\ d.input_end = b.input_end /\ d.write_bytes = b.write_bytes
LEMMA TakenFrom ==
    ASSUME NEW b, Streamed(b), NEW n \in 0..Len(b.buffer), NEW d, d = S!BS!pop_output(b, n)
    PROVE  Taken(b, d, n)
  <1>1. /\ IsStream(b) /\ b.capacity = Capacity /\ b.input_end \in BOOLEAN
        /\ b.read_bytes \in Nat /\ b.write_bytes \in 0..MaxBytes
        /\ b.buffer \in Seq(Nat) /\ Len(b.buffer) <= Capacity
        /\ Len(b.buffer) = b.write_bytes - b.read_bytes
        /\ \A i \in 1..Len(b.buffer) : b.buffer[i] = b.read_bytes + i
    BY DEF Streamed
  <1>2. /\ IsStream(d) /\ d.capacity = b.capacity /\ d.input_end = b.input_end
        /\ d.write_bytes = b.write_bytes /\ d.read_bytes = b.read_bytes + n
        /\ d.buffer = SubSeq(b.buffer, n + 1, Len(b.buffer))
        /\ Len(d.buffer) = Len(b.buffer) - n
    <2>1. IsPopped(b, d, n)
      BY <1>1, PopMembers
    <2> QED
      BY <2>1 DEF IsPopped
  <1>3. n \in Nat /\ Len(b.buffer) \in Nat /\ n <= Len(b.buffer) /\ b.write_bytes \in Nat
    BY <1>1
  <1>4. d.buffer \in Seq(Nat) /\ \A i \in 1..Len(b.buffer) - n : d.buffer[i] = b.buffer[n + i]
    <2> DEFINE l == Len(b.buffer) - n
    <2>1. l \in Nat /\ n + l = Len(b.buffer) /\ n + l <= Len(b.buffer)
      BY <1>3
    <2> HIDE DEF l
    <2>2. d.buffer = SubSeq(b.buffer, n + 1, n + l)
      <3>1. d.buffer = SubSeq(b.buffer, n + 1, Len(b.buffer))
        BY <1>2
      <3> QED
        BY <2>1, <3>1, Zenon
    <2>3. IsPart(d.buffer, b.buffer, n, l, Nat)
      <3>1. b.buffer \in Seq(Nat)
        BY <1>1
      <3> QED
        BY <1>3, <2>1, <2>2, <3>1, PieceOf
    <2> QED
      BY <2>3 DEF IsPart, l
  <1>5. ASSUME NEW i \in 1..Len(d.buffer)
        PROVE  d.buffer[i] = d.read_bytes + i
    <2>1. i \in 1..Len(b.buffer) - n /\ n + i \in 1..Len(b.buffer) /\ i \in Nat
      BY <1>2, <1>3
    <2>2. d.buffer[i] = b.read_bytes + (n + i)
      BY <1>1, <1>4, <2>1
    <2> QED
      BY <1>1, <1>2, <1>3, <2>1, <2>2
  <1>6. Len(d.buffer) <= Capacity /\ Len(d.buffer) = d.write_bytes - d.read_bytes
    <2>1. /\ Len(d.buffer) = Len(b.buffer) - n /\ Len(b.buffer) = b.write_bytes - b.read_bytes
          /\ d.write_bytes = b.write_bytes /\ d.read_bytes = b.read_bytes + n
          /\ Len(b.buffer) <= Capacity /\ Capacity \in Nat /\ b.read_bytes \in Nat
      BY <1>1, <1>2, SenderAssumption
    <2> QED
      BY <1>3, <2>1
  <1>7. d.read_bytes \in Nat /\ d.write_bytes \in 0..MaxBytes /\ d.capacity = Capacity
        /\ d.input_end \in BOOLEAN
    <2>1. d.read_bytes \in Nat
      <3>1. d.read_bytes = b.read_bytes + n /\ b.read_bytes \in Nat
        BY <1>1, <1>2
      <3> QED
        BY <1>3, <3>1
    <2>2. d.input_end \in BOOLEAN
      BY <1>1, <1>2, Zenon
    <2>3. d.write_bytes \in 0..MaxBytes /\ d.capacity = Capacity
      BY <1>1, <1>2, Zenon
    <2> QED
      BY <2>1, <2>2, <2>3
  <1>8. Streamed(d)
    BY <1>2, <1>4, <1>5, <1>6, <1>7 DEF Streamed
  <1> QED
    BY <1>2, <1>8 DEF Taken
\* The room for payload, as long as what was sent is within the window.
Room(x, edge, free) ==
    free \in Nat /\ (x.next_seqno <= edge => free = edge - x.next_seqno)
LEMMA FreeRoom ==
    ASSUME NEW x, NEW e, Good(x, e), NEW win \in 1..MaxWin + 1,
           NEW edge, edge = x.rcv_base + win,
           NEW right_edge, right_edge = edge % Mod32,
           NEW free, free = S!FreeBytes(x, right_edge)
    PROVE  right_edge = edge /\ edge \in Nat /\ Room(x, edge, free)
  <1> DEFINE next == x.next_seqno
  <1>1. next \in Nat /\ next <= MaxBytes + 2 /\ x.rcv_base \in Nat /\ x.rcv_base <= next
    BY Bounds
  <1>2. edge \in 0..MaxBytes + MaxWin + 3 /\ edge \in Nat
    BY <1>1, SenderAssumption
  <1>3. right_edge = edge
    BY <1>2, Small
  <1>4. free = (edge - next) % Mod32
    BY <1>3 DEF S!FreeBytes
  <1> HIDE DEF next
  <1>5. Mod32 \in Nat \ {0}
    BY SenderAssumption
  <1>6. free \in Nat
    <2> DEFINE d == edge - next
    <2>1. d \in Int
      BY <1>1, <1>2
    <2> HIDE DEF d
    <2>2. d % Mod32 \in Nat
      BY <1>5, <2>1
    <2> QED
      BY <1>4, <2>2 DEF d
  <1>7. ASSUME next <= edge
        PROVE  free = edge - next
    <2> DEFINE d == edge - next
    <2>1. d \in 0..MaxBytes + MaxWin + 3
      BY <1>1, <1>2, <1>7, SenderAssumption
    <2> HIDE DEF d
    <2>2. d % Mod32 = d
      BY <2>1, Small
    <2> QED
      BY <1>4, <2>2 DEF d
  <1> QED
    BY <1>2, <1>3, <1>6, <1>7 DEF Room, next

\* The segments the stream is cut into say what they should.
LEMMA CutSays ==
    ASSUME NEW isn, NEW b, Streamed(b), NEW n \in 0..Len(b.buffer), NEW segs, NEW f, NEW next,
           next = b.read_bytes + 1, IsCut(isn, segs, f, next, n, b)
    PROVE  segs \in Seq(Said(isn, b.write_bytes))
  <1> DEFINE w == b.write_bytes
             T == Said(isn, w)
  <1>1. /\ w \in Nat /\ b.read_bytes \in Nat /\ Len(b.buffer) \in Nat
        /\ w = b.read_bytes + Len(b.buffer)
    BY WrittenIs
  <1>2. /\ segs \in Seq(SegmentSet) /\ f \in Seq(Nat) /\ Len(f) = Len(segs) + 1
        /\ \A i \in 1..Len(segs) : Carries(isn, segs[i], f[i])
    BY DEF IsCut, Edges
  <1> HIDE DEF w
  <1>3. ASSUME NEW i \in 1..Len(segs)
        PROVE  segs[i] \in T
    <2> DEFINE q == segs[i]
               l == Len(q.payload)
    <2>1. q \in SegmentSet /\ Carries(isn, q, f[i])
      BY <1>2
    <2>2. i \in 1..Len(f)
      BY <1>2
    <2>3. f[i] \in Nat
      BY <1>2, <2>2, ElementOfSeq
    <2>4. f[i] + l <= next + n /\ next <= f[i] /\ q.syn = FALSE
      BY DEF IsCut
    <2>5. q.payload \in Seq(Nat)
      BY <2>1 DEF Carries
    <2> HIDE DEF q
    <2>6. l \in Nat
      BY <2>5
    <2> HIDE DEF l
    <2> DEFINE v == f[i]
               m == Len(b.buffer)
               r == b.read_bytes
    <2>9. /\ v \in Nat /\ v + l <= next + n /\ next <= v /\ next = r + 1 /\ n \in Nat /\ n <= m
          /\ m \in Nat /\ r \in Nat /\ w = r + m
      BY <1>1, <2>3, <2>4
    <2>7. f[i] \in 0..w + 2 /\ f[i] # 0 /\ f[i] + l <= w + 1
      <3> HIDE DEF v, m, r
      <3>1. v \in 0..w + 2 /\ v # 0 /\ v + l <= w + 1
        BY <2>6, <2>9
      <3> QED
        BY <3>1 DEF v
    <2>8. Says(isn, q, w)
      BY <2>1, <2>4, <2>7 DEF Says, Carries, l
    <2> QED
      BY <2>1, <2>8 DEF Said, q
  <1>4. Len(segs) \in Nat /\ segs = [i \in 1..Len(segs) |-> segs[i]]
    BY <1>2
  <1> HIDE DEF T
  <1>5. segs \in Seq(T)
    BY <1>3, <1>4
  <1> QED
    BY <1>5 DEF T, w

\* What fill_window does when there is, or may come, more to send.
LEMMA FillData ==
    ASSUME NEW x, NEW e, Good(x, e), x.syn_sent, x.fin_sent = FALSE, ~Exhausted(x.stream),
           x.receiver_window_size >= 1, NEW free,
           Room(x, x.rcv_base + x.receiver_window_size, free),
           NEW y, y = S!SendData(x, free)
    PROVE  Filled(x, y, e)
  <1> DEFINE b == x.stream
             win == x.receiver_window_size
             next == x.next_seqno
             top == x.rcv_base + win
             segs == S!Segments(x, win, free)
             fin == HasFin(segs)
             n == S!BS!AtMost(free, Len(b.buffer))
             d == S!BS!pop_output(b, n)
             z == [x EXCEPT !.stream = d, !.fin_sent = fin]
             total == n + Bit(fin)
  <1>1. y = S!segment_handler(z, segs, total)
    <2>1. total = IF fin THEN n + 1 ELSE n
      <3>1. free \in Nat /\ Len(b.buffer) \in Nat
        BY DEF Good, Numbered, Streamed, Room
      <3>2. n \in Nat
        BY <3>1 DEF S!BS!AtMost
      <3> HIDE DEF n, fin
      <3> QED
        BY <3>2 DEF Bit
    <2>2. n = S!BS!AtMost(free, S!BS!buffer_size(x.stream))
      BY DEF S!BS!buffer_size
    <2> HIDE DEF total, n
    <2> QED
      BY <2>1, <2>2 DEF S!SendData, HasFin
  <1>2. /\ Fixed(x) /\ Numbered(x) /\ Streamed(b) /\ free \in Nat /\ win \in 0..MaxWin + 1
        /\ b.read_bytes \in Nat /\ b.buffer \in Seq(Nat)
    BY DEF Good, Numbered, Streamed, Room
  <1>3. n \in 0..Len(b.buffer) /\ n \in Nat /\ n <= free /\ (n = free \/ n = Len(b.buffer))
    BY <1>2 DEF S!BS!AtMost
  <1>4. next = b.read_bytes + 1 /\ next \in Nat
    <2>1. Bit(x.fin_sent) = 0
      BY DEF Bit
    <2>2. next = b.read_bytes + 1 + Bit(x.fin_sent)
      BY <1>2 DEF Numbered
    <2> QED
      BY <1>2, <2>1, <2>2
  <1>5. PICK f : IsCut(x.isn, segs, f, next, n, b)
    BY <1>2, Cut
  <1>6. Taken(b, d, n)
    BY <1>2, <1>3, TakenFrom
  <1>7. /\ Fixed(z) /\ SameQueue(x, z) /\ z.stream = d /\ z.fin_sent = fin
        /\ z.syn_sent = x.syn_sent /\ z.receiver_window_size = win
        /\ z.segments_out = x.segments_out
    <2> HIDE DEF d, fin
    <2> QED
      BY <1>2 DEF Fixed, IsSender, SenderMembers, SameQueue
  <1>8. fin \in BOOLEAN /\ Bit(fin) \in Nat
    BY BitType DEF HasFin
  <1> HIDE DEF z, d, fin, segs, n
  <1>9. /\ Edges(x.isn, f, segs) /\ f[1] = next /\ f[Len(f)] = next + n + Bit(fin)
        /\ n >= 1 => segs # <<>>
        /\ fin => n = Len(b.buffer) /\ b.input_end
    BY <1>5 DEF IsCut, fin
  <1>10. total = f[Len(f)] - f[1]
    BY <1>3, <1>4, <1>8, <1>9
  <1> HIDE DEF total
  <1> DEFINE g == Joined(e, f)
  <1>11. SendKeeps(x, y, z, e, f, segs)
    BY <1>1, <1>7, <1>9, <1>10, SendGood
  <1>12. /\ y.stream = d /\ y.syn_sent = x.syn_sent /\ y.fin_sent = fin
         /\ y.receiver_window_size = win /\ y.rcv_base = x.rcv_base
         /\ y.next_seqno = next + n + Bit(fin)
    BY <1>7, <1>9, <1>11 DEF SendKeeps, Alike
  <1>13. Numbered(y)
    <2>1. Streamed(y.stream) /\ y.receiver_window_size \in 0..MaxWin + 1
      BY <1>2, <1>6, <1>12 DEF Taken
    <2>2. y.syn_sent /\ y.syn_sent \in BOOLEAN /\ y.fin_sent \in BOOLEAN
      <3>1. x.syn_sent \in BOOLEAN
        BY <1>2 DEF Numbered
      <3> QED
        BY <1>8, <1>12, <3>1
    <2>3. y.next_seqno = y.stream.read_bytes + 1 + Bit(y.fin_sent)
      <3>1. d.read_bytes = b.read_bytes + n
        BY <1>6 DEF Taken
      <3> QED
        BY <1>2, <1>3, <1>4, <1>8, <1>12, <3>1
    <2>4. y.fin_sent => Exhausted(y.stream)
      <3> SUFFICES ASSUME fin PROVE Exhausted(d)
        BY <1>12
      <3>1. Len(d.buffer) = 0 /\ d.input_end /\ d.buffer \in Seq(Nat)
        BY <1>2, <1>6, <1>9 DEF Taken, Streamed
      <3> QED
        BY <3>1 DEF Exhausted
    <2> QED
      BY <2>1, <2>2, <2>3, <2>4, NumberedIs
  <1>14. Moving(y)
    <2> SUFFICES ASSUME y.outstanding_segments = <<>>
                 PROVE  d.buffer = <<>> /\ ~d.input_end
      BY <1>12 DEF Moving
    <2>1. segs = <<>> /\ x.outstanding_segments = <<>>
      <3>1. x.outstanding_segments \in Seq(SegmentSet) /\ segs \in Seq(SegmentSet)
        BY <1>9 DEF Good, Chain, Edges
      <3>2. x.outstanding_segments \o segs = <<>>
        BY <1>11 DEF SendKeeps
      <3> QED
        BY <3>1, <3>2
    <2>2. x.rcv_base = next
      BY <2>1 DEF Good, Chain
    <2>3. free = win
      BY <1>2, <1>4, <2>2 DEF Room
    <2>4. n = 0 /\ Len(b.buffer) = 0
      BY <1>2, <1>3, <1>9, <2>1, <2>3
    <2>5. b.buffer = <<>> /\ ~b.input_end
      BY <1>2, <2>4 DEF Exhausted
    <2>6. Len(d.buffer) = 0 /\ d.buffer \in Seq(Nat) /\ d.input_end = b.input_end
      BY <1>6, <2>4 DEF Taken, Streamed
    <2> QED
      BY <2>5, <2>6
  <1>15. ASSUME NEW edge, Within(x, e, edge)
         PROVE  Within(y, g, edge)
    <2>1. S!ProbeWindow(win) = win /\ win \in Nat
      BY <1>2, SenderAssumption DEF S!ProbeWindow
    <2>2. edge = top /\ next <= edge + Bit(x.fin_sent)
      BY <1>15, <2>1 DEF Within
    <2>3. Bit(x.fin_sent) = 0
      BY DEF Bit
    <2>4. edge \in Nat /\ next <= edge
      <3>1. x.rcv_base \in Nat
        BY Bounds
      <3> QED
        BY <1>4, <2>1, <2>2, <2>3, <3>1
    <2>5. free = edge - next
      BY <2>2, <2>4 DEF Room
    <2>6. next + n <= edge
      BY <1>3, <1>4, <2>4, <2>5
    <2>7. Fits(f, segs, edge)
      <3> SUFFICES ASSUME NEW i \in 1..Len(segs)
                   PROVE  f[i] + Len(segs[i].payload) <= edge
        BY DEF Fits
      <3>1. f[i] + Len(segs[i].payload) <= next + n
        BY <1>5 DEF IsCut
      <3>2. f[i] + Len(segs[i].payload) \in Nat
        <4>1. segs \in Seq(SegmentSet) /\ f \in Seq(Nat) /\ Len(f) = Len(segs) + 1
              /\ segs[i].payload \in Seq(Nat)
          BY <1>9 DEF Edges, Carries
        <4>2. i \in 1..Len(f)
          BY <4>1
        <4>3. f[i] \in Nat /\ Len(segs[i].payload) \in Nat
          BY <4>1, <4>2, ElementOfSeq
        <4> QED
          BY <4>3
      <3> QED
        BY <1>3, <1>4, <2>4, <2>6, <3>1, <3>2
    <2>8. Fits(e, x.outstanding_segments, edge)
      BY <1>15 DEF Within, Fits
    <2>9. Fits(g, y.outstanding_segments, edge)
      BY <1>11, <2>7, <2>8 DEF SendKeeps
    <2>10. y.next_seqno <= edge + Bit(y.fin_sent)
      BY <1>3, <1>4, <1>8, <1>12, <2>4, <2>6
    <2>11. edge = y.rcv_base + S!ProbeWindow(y.receiver_window_size)
      BY <1>12, <2>1, <2>2
    <2> QED
      BY <2>9, <2>10, <2>11 DEF Within, Fits
  <1>16. Good(y, g)
    BY <1>11, <1>13 DEF Good, SendKeeps
  <1>17. y.next_seqno >= x.next_seqno
    BY <1>3, <1>4, <1>8, <1>12
  <1> HIDE DEF g
  <1>18. /\ y.isn = x.isn /\ y.segments_out = x.segments_out \o segs
         /\ y.outstanding_segments = x.outstanding_segments \o segs
         /\ y.stream.write_bytes = b.write_bytes /\ y.stream.input_end = b.input_end
    <2>1. d.write_bytes = b.write_bytes /\ d.input_end = b.input_end
      BY <1>6 DEF Taken
    <2>2. /\ y.isn = x.isn /\ y.segments_out = x.segments_out \o segs
          /\ y.outstanding_segments = x.outstanding_segments \o segs
      BY <1>7, <1>11 DEF SendKeeps, Alike, SameQueue
    <2> QED
      BY <1>12, <2>1, <2>2
  <1>19. segs \in Seq(Said(x.isn, b.write_bytes))
    BY <1>2, <1>3, <1>4, <1>5, CutSays
  <1>20. Spoken(x) => Spoken(y)
    BY <1>18, <1>19, SpeaksMore
  <1>21. Goes(x, y) /\ y.syn_sent
    BY <1>11, <1>12, <1>18 DEF Goes, SendKeeps
  <1> QED
    BY <1>12, <1>14, <1>15, <1>16, <1>17, <1>20, <1>21 DEF Filled
\* A sender in a good state stays in one through fill_window, and something is in
\* flight afterwards if anything is left to send.
LEMMA FillWindow ==
    ASSUME NEW x, NEW e, Good(x, e), NEW y, y = S!fill_window(x)
    PROVE  Filled(x, y, e)
  <1> DEFINE win == S!ProbeWindow(x.receiver_window_size)
             w == [x EXCEPT !.receiver_window_size = win]
             edge == x.rcv_base + win
             right_edge == edge % Mod32
             free == S!FreeBytes(w, right_edge)
  <1>1. /\ Fixed(x) /\ Numbered(x) /\ x.syn_sent \in BOOLEAN /\ x.fin_sent \in BOOLEAN
        /\ x.next_seqno \in Nat /\ x.receiver_window_size \in 0..MaxWin + 1
    BY Bounds DEF Good, Numbered
  <1>2. win \in 1..MaxWin + 1 /\ S!ProbeWindow(win) = win
    BY <1>1, Probe
  <1>3. CASE ~x.syn_sent
    <2>1. x.syn_sent = FALSE
      BY <1>1, <1>3
    <2>2. y = S!SendSyn(x)
      BY <1>3 DEF S!fill_window
    <2> QED
      BY <2>1, <2>2, FillSyn
  <1>4. CASE x.syn_sent /\ (S!AwaitingSynAck(x) \/ x.fin_sent)
    <2>1. y = x
      BY <1>4 DEF S!fill_window
    <2>2. Moving(x)
      <3>1. CASE S!AwaitingSynAck(x)
        BY <3>1 DEF S!AwaitingSynAck, Moving
      <3>2. CASE x.fin_sent
        BY <1>1, <3>2 DEF Numbered, Exhausted, Moving
      <3> QED
        BY <1>4, <3>1, <3>2
    <2>3. \E g : Good(y, g) /\ \A k : Within(x, e, k) => Within(y, g, k)
      BY <2>1
    <2>4. Goes(x, y) /\ y.syn_sent
      BY <1>4, <2>1 DEF Goes
    <2> QED
      BY <1>1, <2>1, <2>2, <2>3, <2>4 DEF Filled
  <1>5. CASE x.syn_sent /\ ~(S!AwaitingSynAck(x) \/ x.fin_sent)
    <2>1. /\ Fixed(w) /\ SameQueue(x, w) /\ w.receiver_window_size = win
          /\ w.stream = x.stream /\ w.syn_sent = x.syn_sent /\ w.fin_sent = x.fin_sent
          /\ w.segments_out = x.segments_out
      <3> HIDE DEF win
      <3> QED
        BY <1>1 DEF Fixed, IsSender, SenderMembers, SameQueue
    <2>2. w.rcv_base = x.rcv_base /\ w.next_seqno = x.next_seqno
          /\ w.outstanding_segments = x.outstanding_segments /\ w.isn = x.isn
      BY <2>1 DEF SameQueue
    <2>3. y = IF S!BS!eof(w.stream)
              THEN IF right_edge > w.next_seqno THEN S!SendFin(w) ELSE w
              ELSE S!SendData(w, free)
      <3>1. (w.rcv_base + w.receiver_window_size) % Mod32 = right_edge
        BY <2>1, <2>2
      <3> QED
        BY <1>5, <3>1 DEF S!fill_window
    <2> HIDE DEF w, win, right_edge, free
    <2>4. Good(w, e)
      <3>1. Chain(w, e) /\ Timed(w)
        BY <2>1, QueueKept DEF Good
      <3>2. Numbered(w)
        <4>1. Streamed(w.stream) /\ (w.fin_sent => Exhausted(w.stream))
              /\ w.receiver_window_size \in 0..MaxWin + 1
              /\ w.next_seqno = w.stream.read_bytes + 1 + Bit(w.fin_sent)
          BY <1>1, <1>2, <1>5, <2>1, <2>2 DEF Numbered
        <4>2. w.syn_sent /\ w.syn_sent \in BOOLEAN /\ w.fin_sent \in BOOLEAN
          BY <1>1, <1>5, <2>1
        <4> QED
          BY <4>1, <4>2, NumberedIs
      <3> QED
        BY <2>1, <3>1, <3>2 DEF Good
    <2>5. right_edge = edge /\ edge \in Nat /\ Room(w, edge, free)
      BY <1>2, <2>2, <2>4, FreeRoom DEF right_edge, free
    <2>6. w.fin_sent = FALSE /\ w.syn_sent /\ win >= 1
      BY <1>1, <1>2, <1>5, <2>1
    <2>7. S!BS!eof(w.stream) <=> Exhausted(w.stream)
      <3>1. w.stream.buffer \in Seq(Nat)
        BY <2>4 DEF Good, Numbered, Streamed
      <3> QED
        BY <3>1 DEF S!BS!eof, S!BS!buffer_empty, S!BS!buffer_size, S!BS!input_ended, Exhausted
    <2>8. Filled(w, y, e)
      <3>1. CASE S!BS!eof(w.stream) /\ right_edge > w.next_seqno
        <4>1. y = S!SendFin(w)
          BY <2>3, <3>1
        <4> QED
          BY <2>4, <2>6, <2>7, <3>1, <4>1, FillFin
      <3>2. CASE S!BS!eof(w.stream) /\ ~(right_edge > w.next_seqno)
        <4>1. y = w
          BY <2>3, <3>2
        <4>2. w.outstanding_segments # <<>>
          <5> SUFFICES ASSUME w.outstanding_segments = <<>> PROVE FALSE
            OBVIOUS
          <5>1. w.rcv_base = w.next_seqno
            BY <2>4 DEF Good, Chain
          <5>2. right_edge = x.next_seqno + win
            BY <2>2, <2>5, <5>1
          <5> QED
            BY <1>1, <1>2, <2>2, <3>2, <5>2
        <4>3. Moving(w)
          BY <4>2 DEF Moving
        <4>4. \E g : Good(y, g) /\ \A k : Within(w, e, k) => Within(y, g, k)
          BY <2>4, <4>1
        <4> QED
          BY <1>1, <2>2, <2>6, <4>1, <4>3, <4>4 DEF Filled, Goes
      <3>3. CASE ~S!BS!eof(w.stream)
        <4>1. y = S!SendData(w, free)
          BY <2>3, <3>3
        <4>2. Room(w, w.rcv_base + w.receiver_window_size, free)
          BY <2>1, <2>2, <2>5
        <4>3. w.receiver_window_size >= 1
          BY <2>1, <2>6
        <4> QED
          BY <2>4, <2>6, <2>7, <3>3, <4>1, <4>2, <4>3, FillData
      <3> QED
        BY <3>1, <3>2, <3>3
    <2>9. ASSUME NEW k, Within(x, e, k)
          PROVE  Within(w, e, k)
      <3>1. S!ProbeWindow(w.receiver_window_size) = S!ProbeWindow(x.receiver_window_size)
        BY <1>2, <2>1 DEF win
      <3> QED
        BY <2>1, <2>2, <2>9, <3>1 DEF Within
    <2>10. (Spoken(x) => Spoken(w)) /\ (Goes(w, y) => Goes(x, y))
      BY <2>1, <2>2 DEF Spoken, Goes, SameQueue
    <2> QED
      BY <2>2, <2>8, <2>9, <2>10 DEF Filled
  <1> QED
    BY <1>3, <1>4, <1>5

-----------------------------------------------------------------------------



\* fill_window keeps the sender healthy.
LEMMA FillHealthy ==
    ASSUME NEW x, NEW edge, NEW late, Healthy(x, edge, late), NEW y, y = S!fill_window(x)
    PROVE  /\ Healthy(y, edge, late) /\ Moving(y)
           /\ y.rcv_base = x.rcv_base /\ y.next_seqno >= x.next_seqno
           /\ Goes(x, y) /\ y.syn_sent /\ (Spoken(x) => Spoken(y))
  <1>1. PICK e : Good(x, e) /\ (~late => Within(x, e, edge))
    BY DEF Healthy
  <1>2. Filled(x, y, e)
    BY <1>1, FillWindow
  <1> QED
    BY <1>1, <1>2 DEF Filled, Healthy
\* The members that Chain reads.
SameChain(x, y) ==
    /\ y.isn = x.isn
    /\ y.next_seqno = x.next_seqno /\ y.outstanding_segments = x.outstanding_segments
    /\ y.bytes_in_flight = x.bytes_in_flight /\ y.rcv_base = x.rcv_base

\* The stream and the timer may change by themselves.
LEMMA Changed ==
    ASSUME NEW x, NEW edge, NEW late, Healthy(x, edge, late),
           NEW z, Fixed(z), SameChain(x, z), Timed(z), Streamed(z.stream),
           z.stream.read_bytes = x.stream.read_bytes, x.fin_sent => Exhausted(z.stream),
           z.syn_sent = x.syn_sent, z.fin_sent = x.fin_sent,
           z.receiver_window_size = x.receiver_window_size
    PROVE  Healthy(z, edge, late)
  <1>1. PICK e : Good(x, e) /\ (~late => Within(x, e, edge))
    BY DEF Healthy
  <1>2. Chain(z, e)
    BY <1>1 DEF Good, Chain, SameChain
  <1>3. Numbered(z)
    <2>1. /\ x.syn_sent \in BOOLEAN /\ x.fin_sent \in BOOLEAN
          /\ x.fin_sent => x.syn_sent
          /\ IF x.syn_sent
             THEN x.next_seqno = x.stream.read_bytes + 1 + Bit(x.fin_sent)
             ELSE x.next_seqno = 0 /\ x.stream.read_bytes = 0
          /\ x.receiver_window_size \in 0..MaxWin + 1
      BY <1>1 DEF Good, Numbered
    <2>2. z.next_seqno = x.next_seqno
      BY DEF SameChain
    <2> QED
      BY <2>1, <2>2, Zenon DEF Numbered
  <1>4. ~late => Within(z, e, edge)
    BY <1>1 DEF Within, SameChain
  <1> QED
    BY <1>1, <1>2, <1>3, <1>4 DEF Healthy, Good

\* Some facts of a healthy sender.
Facts(x) ==
    /\ Fixed(x) /\ Timed(x) /\ Numbered(x) /\ Streamed(x.stream) /\ IsSender(x)
    /\ x.next_seqno \in Nat /\ x.next_seqno <= MaxBytes + 2
    /\ x.rcv_base \in Nat /\ x.rcv_base <= x.next_seqno
    /\ x.syn_sent \in BOOLEAN /\ x.fin_sent \in BOOLEAN
    /\ x.fin_sent => Exhausted(x.stream)
LEMMA HealthyFacts ==
    ASSUME NEW x, NEW edge, NEW late, Healthy(x, edge, late)
    PROVE  Facts(x)
  <1>1. PICK e : Good(x, e)
    BY DEF Healthy
  <1>2. Fixed(x) /\ Timed(x) /\ Numbered(x)
    BY <1>1 DEF Good
  <1>3. /\ Streamed(x.stream) /\ IsSender(x) /\ x.syn_sent \in BOOLEAN /\ x.fin_sent \in BOOLEAN
        /\ x.fin_sent => Exhausted(x.stream)
    BY <1>2 DEF Numbered, Fixed
  <1> QED
    BY <1>1, <1>2, <1>3, Bounds DEF Facts

\* The owner takes the segments; nothing else changes.
Drains(x, z) ==
    /\ Fixed(z) /\ SameQueue(x, z) /\ z.stream = x.stream /\ z.syn_sent = x.syn_sent
    /\ z.fin_sent = x.fin_sent /\ z.receiver_window_size = x.receiver_window_size
LEMMA Requeued ==
    ASSUME NEW x, NEW edge, NEW late, Healthy(x, edge, late), NEW q,
           NEW z, z = [x EXCEPT !.segments_out = q]
    PROVE  Healthy(z, edge, late) /\ Drains(x, z) /\ z.segments_out = q
  <1>1. Facts(x)
    BY HealthyFacts
  <1>2. Drains(x, z) /\ z.segments_out = q
    <2>1. Fixed(x)
      BY <1>1 DEF Facts
    <2> QED
      BY <2>1 DEF Drains, Fixed, IsSender, SenderMembers, SameQueue
  <1>3. /\ Fixed(z) /\ SameChain(x, z) /\ SameQueue(x, z) /\ z.stream = x.stream
        /\ z.syn_sent = x.syn_sent /\ z.fin_sent = x.fin_sent
        /\ z.receiver_window_size = x.receiver_window_size
    BY <1>2 DEF Drains, SameQueue, SameChain
  <1>4. Timed(z)
    BY <1>1, <1>3 DEF Facts, SameQueue, Timed
  <1>5. Streamed(z.stream) /\ z.stream.read_bytes = x.stream.read_bytes
        /\ (x.fin_sent => Exhausted(z.stream))
    BY <1>1, <1>3 DEF Facts
  <1>6. Healthy(z, edge, late)
    BY <1>3, <1>4, <1>5, Changed
  <1> QED
    BY <1>2, <1>6

\* A healthy sender whose segments are taken is healthy.
LEMMA DrainedHealthy ==
    ASSUME NEW edge, NEW late, Healthy(s, edge, late)
    PROVE  Healthy(Drained, edge, late) /\ Drains(s, Drained)
  BY Requeued DEF Drained

\* The application's calls: a new stream in which nothing was read, then fill_window.
HasStream(x, z, d) ==
    /\ z.rcv_base = x.rcv_base /\ z.next_seqno = x.next_seqno
    /\ z.isn = x.isn /\ z.stream = d /\ z.syn_sent = x.syn_sent
    /\ z.fin_sent = x.fin_sent /\ z.outstanding_segments = x.outstanding_segments
    /\ z.segments_out = x.segments_out
    /\ z.consecutive_retransmission = x.consecutive_retransmission
LEMMA Restreamed ==
    ASSUME NEW x, NEW edge, NEW late, Healthy(x, edge, late),
           NEW d, Streamed(d), d.read_bytes = x.stream.read_bytes,
           x.fin_sent => Exhausted(d),
           NEW z, z = [x EXCEPT !.stream = d]
    PROVE  Healthy(z, edge, late) /\ HasStream(x, z, d)
  <1>1. Facts(x)
    BY HealthyFacts
  <1>2. /\ Fixed(z) /\ SameQueue(x, z) /\ z.stream = d /\ z.syn_sent = x.syn_sent
        /\ z.fin_sent = x.fin_sent /\ z.receiver_window_size = x.receiver_window_size
        /\ z.segments_out = x.segments_out
    <2>1. Fixed(x)
      BY <1>1 DEF Facts
    <2> QED
      BY <2>1 DEF Fixed, IsSender, SenderMembers, SameQueue
  <1>3. Timed(z)
    BY <1>1, <1>2 DEF Facts, SameQueue, Timed
  <1>4. SameChain(x, z)
    BY <1>2 DEF SameQueue, SameChain
  <1>5. Streamed(z.stream) /\ z.stream.read_bytes = x.stream.read_bytes
        /\ (x.fin_sent => Exhausted(z.stream))
    BY <1>2
  <1>6. Healthy(z, edge, late)
    BY <1>2, <1>3, <1>4, <1>5, Changed
  <1> QED
    BY <1>2, <1>4, <1>6 DEF SameChain, SameQueue, HasStream

IsJoin(v, t, u) ==
    /\ v \in Seq(Nat) /\ Len(v) = Len(t) + Len(u)
    /\ \A i \in 1..Len(t) : v[i] = t[i]
    /\ \A i \in 1..Len(u) : v[Len(t) + i] = u[i]
\* Concatenation, element by element.
LEMMA JoinOf ==
    ASSUME NEW t \in Seq(Nat), NEW u \in Seq(Nat), NEW v, v = t \o u
    PROVE  IsJoin(v, t, u)
  <1>1. /\ v \in Seq(Nat) /\ Len(v) = Len(t) + Len(u)
        /\ \A i \in 1..Len(t) : v[i] = t[i]
        /\ \A i \in 1..Len(u) : v[Len(t) + i] = u[i]
    OBVIOUS
  <1> QED
    BY <1>1 DEF IsJoin

\* Writing the next n bytes.
LEMMA WriteStream ==
    ASSUME NEW b, Streamed(b), NEW n \in Nat, b.write_bytes + n <= MaxBytes,
           n <= BS!remaining_capacity(b), NEW d,
           d = BS!write(b, [i \in 1..n |-> b.write_bytes + i])
    PROVE  /\ Streamed(d) /\ d.read_bytes = b.read_bytes /\ d.input_end = b.input_end
           /\ d.write_bytes = b.write_bytes + n
  <1> DEFINE data == [i \in 1..n |-> b.write_bytes + i]
             buf == b.buffer \o data
             count == b.write_bytes + n
  <1>1. /\ IsStream(b) /\ b.capacity = Capacity /\ b.input_end \in BOOLEAN
        /\ b.read_bytes \in Nat /\ b.write_bytes \in Nat
        /\ b.buffer \in Seq(Nat) /\ Len(b.buffer) <= Capacity
        /\ Len(b.buffer) = b.write_bytes - b.read_bytes
        /\ \A i \in 1..Len(b.buffer) : b.buffer[i] = b.read_bytes + i
    BY DEF Streamed
  <1>2. data \in Seq(Nat) /\ Len(data) = n /\ \A i \in 1..n : data[i] = b.write_bytes + i
    <2> DEFINE v(i) == b.write_bytes + i
    <2>1. \A i \in 1..n : v(i) \in Nat
      BY <1>1
    <2>2. data = [i \in 1..n |-> v(i)] /\ \A i \in 1..n : v(i) = b.write_bytes + i
      OBVIOUS
    <2> HIDE DEF v, data
    <2> QED
      BY <2>1, <2>2
  <1> HIDE DEF data
  <1>3. n <= Capacity - Len(b.buffer)
    BY <1>1 DEF BS!remaining_capacity, BS!buffer_size
  <1>4. BS!Accepted(b, data) = n
    BY <1>2 DEF BS!Accepted, BS!AtMost
  <1>5. SubSeq(data, 1, n) = data
    BY <1>2
  <1>6. d = [b EXCEPT !.buffer = buf, !.write_bytes = count]
    BY <1>4, <1>5 DEF BS!write, data
  <1>7. /\ buf \in Seq(Nat) /\ Len(buf) = Len(b.buffer) + n
        /\ \A i \in 1..Len(b.buffer) : buf[i] = b.buffer[i]
        /\ \A i \in 1..n : buf[Len(b.buffer) + i] = data[i]
    <2>1. b.buffer \in Seq(Nat) /\ data \in Seq(Nat)
      BY <1>1, <1>2
    <2>2. IsJoin(buf, b.buffer, data)
      BY <2>1, JoinOf
    <2> QED
      BY <1>2, <2>2 DEF IsJoin
  <1> HIDE DEF buf, count
  <1>8. /\ IsStream(d) /\ d.capacity = b.capacity /\ d.input_end = b.input_end
        /\ d.write_bytes = count /\ d.read_bytes = b.read_bytes /\ d.buffer = buf
    BY <1>1, <1>6 DEF IsStream, StreamMembers
  <1>9. Len(b.buffer) \in Nat /\ count = b.write_bytes + n
    BY <1>1 DEF count
  <1>10. ASSUME NEW i \in 1..Len(d.buffer)
         PROVE  d.buffer[i] = d.read_bytes + i
    <2>1. i \in 1..Len(b.buffer) + n
      BY <1>7, <1>8
    <2>2. CASE i <= Len(b.buffer)
      <3>1. i \in 1..Len(b.buffer)
        BY <1>9, <2>1, <2>2
      <3> QED
        BY <1>1, <1>7, <1>8, <3>1
    <2>3. CASE i > Len(b.buffer)
      <3> DEFINE j == i - Len(b.buffer)
      <3>1. j \in 1..n /\ i = Len(b.buffer) + j
        BY <1>9, <2>1, <2>3
      <3> HIDE DEF j
      <3>2. buf[i] = b.write_bytes + j
        BY <1>2, <1>7, <3>1
      <3>3. b.write_bytes = b.read_bytes + Len(b.buffer)
        BY <1>1, <1>9
      <3>4. buf[i] = b.read_bytes + i
        BY <1>1, <1>9, <3>1, <3>2, <3>3
      <3> QED
        BY <1>8, <3>4
    <2> QED
      BY <1>9, <2>1, <2>2, <2>3
  <1>11. Len(d.buffer) <= Capacity /\ Len(d.buffer) = d.write_bytes - d.read_bytes
         /\ d.write_bytes \in 0..MaxBytes
    <2>1. /\ Len(d.buffer) = Len(b.buffer) + n /\ Len(b.buffer) = b.write_bytes - b.read_bytes
          /\ d.write_bytes = b.write_bytes + n /\ d.read_bytes = b.read_bytes
          /\ b.read_bytes \in Nat /\ b.write_bytes \in Nat
      BY <1>1, <1>7, <1>8, <1>9
    <2>2. Len(d.buffer) <= Capacity
      <3>1. Len(d.buffer) = Len(b.buffer) + n
        BY <2>1
      <3> QED
        BY <1>3, <1>9, <3>1, SenderAssumption
    <2>3. Len(d.buffer) = d.write_bytes - d.read_bytes
      BY <2>1
    <2>4. d.write_bytes \in 0..MaxBytes
      BY <2>1, SenderAssumption
    <2> QED
      BY <2>2, <2>3, <2>4
  <1>12. d.read_bytes \in Nat /\ d.capacity = Capacity /\ d.buffer \in Seq(Nat)
    BY <1>1, <1>7, <1>8, Zenon
  <1>13. d.input_end \in BOOLEAN
    BY <1>1, <1>8, Zenon
  <1>14. Streamed(d)
    BY <1>8, <1>10, <1>11, <1>12, <1>13 DEF Streamed
  <1> QED
    BY <1>8, <1>9, <1>14

\* Ending the input changes nothing else.
LEMMA EndStream ==
    ASSUME NEW b, Streamed(b), NEW d, d = BS!end_input(b)
    PROVE  /\ Streamed(d) /\ d.read_bytes = b.read_bytes /\ d.input_end = TRUE
           /\ d.write_bytes = b.write_bytes /\ d.buffer = b.buffer
  <1>1. IsStream(b)
    BY DEF Streamed
  <1>2. d = [b EXCEPT !.input_end = TRUE]
    BY DEF BS!end_input
  <1>3. /\ IsStream(d) /\ d.capacity = b.capacity /\ d.input_end = TRUE
        /\ d.write_bytes = b.write_bytes /\ d.read_bytes = b.read_bytes
        /\ d.buffer = b.buffer
    BY <1>1, <1>2 DEF IsStream, StreamMembers
  <1>4. d.input_end \in BOOLEAN
    BY <1>3
  <1>5. Streamed(d)
    BY <1>3, <1>4, Zenon DEF Streamed
  <1> QED
    BY <1>3, <1>5

\* The acknowledgments under way stay sound while next_seqno grows.
LEMMA StillUnderway ==
    ASSUME NEW q, NEW next \in Nat, Underway(q, next), NEW later \in Nat, later >= next
    PROVE  Underway(q, later)
  BY DEF Underway, Sound

\* A call of fill_window after which nothing else changes.
LEMMA FillStep ==
    ASSUME Inv, NEW z, Healthy(z, seen.edge, seen.late), z.rcv_base = s.rcv_base,
           z.isn = s.isn, z.next_seqno = s.next_seqno, s' = S!fill_window(z), UNCHANGED <<acks, seen>>
    PROVE  Inv'
  <1> DEFINE y == s'
  <1>1. /\ Healthy(y, seen.edge, seen.late) /\ Moving(y)
        /\ y.rcv_base = z.rcv_base /\ y.next_seqno >= z.next_seqno /\ y.isn = z.isn
    BY FillHealthy DEF Goes
  <1>2. s.next_seqno \in Nat /\ y.next_seqno \in Nat
    <2>1. Healthy(s, seen.edge, seen.late)
      BY DEF Inv
    <2>2. Facts(s) /\ Facts(y)
      BY <1>1, <2>1, HealthyFacts
    <2> QED
      BY <2>2 DEF Facts
  <1>3. Underway(acks, y.next_seqno)
    <2>1. Underway(acks, s.next_seqno) /\ y.next_seqno >= s.next_seqno
      BY <1>1 DEF Inv
    <2> HIDE DEF y
    <2> QED
      BY <1>2, <2>1, StillUnderway
  <1>4. Heard(seen, y.rcv_base)
    BY <1>1 DEF Inv
  <1> QED
    BY <1>1, <1>3, <1>4 DEF Inv

\* connect() keeps the invariant.
LEMMA KeepsConnect ==
    ASSUME Inv, Connect
    PROVE  Inv'
  <1> DEFINE z == Drained
  <1>1. Healthy(z, seen.edge, seen.late) /\ Drains(s, z)
    BY DrainedHealthy DEF Inv
  <1>2. z.rcv_base = s.rcv_base /\ z.next_seqno = s.next_seqno /\ z.isn = s.isn
    BY <1>1 DEF Drains, SameQueue
  <1>3. s' = S!fill_window(z) /\ UNCHANGED <<acks, seen>>
    BY DEF Connect
  <1> HIDE DEF z
  <1> QED
    BY <1>1, <1>2, <1>3, FillStep

\* The FIN is sent only after the input ended.
LEMMA OpenIsUnfinished ==
    ASSUME Inv, ~s.stream.input_end
    PROVE  ~s.fin_sent /\ Streamed(s.stream) /\ Drained.stream = s.stream
           /\ Healthy(s, seen.edge, seen.late)
  <1>1. Healthy(s, seen.edge, seen.late)
    BY DEF Inv
  <1>2. Facts(s) /\ Drains(s, Drained)
    BY <1>1, HealthyFacts, DrainedHealthy
  <1> QED
    BY <1>1, <1>2 DEF Facts, Exhausted, Drains

\* write() keeps the invariant.
LEMMA KeepsWrite ==
    ASSUME Inv, NEW n \in 1..MaxBytes, Write(n)
    PROVE  Inv'
  <1> DEFINE d == BS!write(s.stream, [i \in 1..n |-> s.stream.write_bytes + i])
             z == [Drained EXCEPT !.stream = d]
  <1>1. /\ ~s.fin_sent /\ Streamed(s.stream) /\ Drained.stream = s.stream
        /\ Healthy(s, seen.edge, seen.late)
    BY OpenIsUnfinished DEF Write
  <1>2. s' = S!fill_window(z) /\ UNCHANGED <<acks, seen>>
    BY <1>1 DEF Write
  <1>3. Streamed(d) /\ d.read_bytes = s.stream.read_bytes
    <2>1. n \in Nat /\ s.stream.write_bytes + n <= MaxBytes /\ n <= BS!remaining_capacity(s.stream)
      BY DEF Write
    <2> QED
      BY <1>1, <2>1, WriteStream
  <1> HIDE DEF d
  <1>4. Healthy(z, seen.edge, seen.late) /\ z.rcv_base = s.rcv_base /\ z.next_seqno = s.next_seqno
        /\ z.isn = s.isn
    <2> DEFINE x == Drained
    <2>1. Healthy(x, seen.edge, seen.late) /\ Drains(s, x)
      BY <1>1, DrainedHealthy
    <2>2. /\ x.rcv_base = s.rcv_base /\ x.next_seqno = s.next_seqno /\ x.isn = s.isn
          /\ x.stream = s.stream /\ x.fin_sent = s.fin_sent
      BY <2>1 DEF Drains, SameQueue
    <2> HIDE DEF x
    <2>3. z = [x EXCEPT !.stream = d]
      BY DEF x
    <2> HIDE DEF z
    <2> QED
      BY <1>1, <1>3, <2>1, <2>2, <2>3, Restreamed
  <1> HIDE DEF z
  <1> QED
    BY <1>2, <1>4, FillStep

\* end_input_stream() keeps the invariant.
LEMMA KeepsEndInput ==
    ASSUME Inv, EndInput
    PROVE  Inv'
  <1> DEFINE d == BS!end_input(s.stream)
             z == [Drained EXCEPT !.stream = d]
  <1>1. /\ ~s.fin_sent /\ Streamed(s.stream) /\ Drained.stream = s.stream
        /\ Healthy(s, seen.edge, seen.late)
    BY OpenIsUnfinished DEF EndInput
  <1>2. s' = S!fill_window(z) /\ UNCHANGED <<acks, seen>>
    BY <1>1 DEF EndInput
  <1>3. Streamed(d) /\ d.read_bytes = s.stream.read_bytes
    BY <1>1, EndStream
  <1> HIDE DEF d
  <1>4. Healthy(z, seen.edge, seen.late) /\ z.rcv_base = s.rcv_base /\ z.next_seqno = s.next_seqno
        /\ z.isn = s.isn
    <2> DEFINE x == Drained
    <2>1. Healthy(x, seen.edge, seen.late) /\ Drains(s, x)
      BY <1>1, DrainedHealthy
    <2>2. /\ x.rcv_base = s.rcv_base /\ x.next_seqno = s.next_seqno /\ x.isn = s.isn
          /\ x.stream = s.stream /\ x.fin_sent = s.fin_sent
      BY <2>1 DEF Drains, SameQueue
    <2> HIDE DEF x
    <2>3. z = [x EXCEPT !.stream = d]
      BY DEF x
    <2> HIDE DEF z
    <2> QED
      BY <1>1, <1>3, <2>1, <2>2, <2>3, Restreamed
  <1> HIDE DEF z
  <1> QED
    BY <1>2, <1>4, FillStep
\* What tick() may change.
LEMMA TickTimed ==
    ASSUME NEW x, Facts(x), x.consecutive_retransmission <= MAX_RETX_ATTEMPTS,
           NEW y, y = S!tick(x, 1)
    PROVE  /\ Fixed(y) /\ Timed(y) /\ SameChain(x, y) /\ y.stream = x.stream
           /\ y.syn_sent = x.syn_sent /\ y.fin_sent = x.fin_sent
           /\ y.receiver_window_size = x.receiver_window_size
           /\ \/ y.segments_out = x.segments_out
                 /\ y.consecutive_retransmission = x.consecutive_retransmission
              \/ /\ x.outstanding_segments # <<>>
                 /\ y.segments_out = Append(x.segments_out, Head(x.outstanding_segments))
  <1> DEFINE time == x.time_elipsed + 1
             later == [x EXCEPT !.time_elipsed = time]
             queue == Append(later.segments_out, Head(x.outstanding_segments))
             resent == [later EXCEPT !.segments_out = queue, !.time_elipsed = 0]
             count == x.consecutive_retransmission
             RTO == 2 * x.RTO
             counted == [resent EXCEPT !.RTO = RTO, !.consecutive_retransmission = count + 1]
             Rest(z) == /\ Fixed(z) /\ SameChain(x, z) /\ z.stream = x.stream
                        /\ z.syn_sent = x.syn_sent /\ z.fin_sent = x.fin_sent
                        /\ z.receiver_window_size = x.receiver_window_size
                        /\ z.timer_running = x.timer_running /\ z.back_off = x.back_off
  <1>1. /\ Fixed(x) /\ IsSender(x) /\ Timed(x) /\ count \in 0..MAX_RETX_ATTEMPTS
        /\ x.RTO = Doubled[count] /\ x.time_elipsed \in Nat /\ MAX_RETX_ATTEMPTS \in Nat
    BY SenderAssumption DEF Facts, Fixed, Timed
  <1>2. x.RTO \in Nat \ {0} /\ RTO = Doubled[count + 1] /\ RTO \in Nat \ {0}
        /\ count + 1 \in 0..MAX_RETX_ATTEMPTS + 1
    <2>1. count \in 0..MAX_RETX_ATTEMPTS + 1 /\ count + 1 \in 0..MAX_RETX_ATTEMPTS + 1
      BY <1>1
    <2> QED
      BY <1>1, <2>1, DoubledFacts
  <1>3. Rest(later) /\ later.time_elipsed = time /\ later.RTO = x.RTO
        /\ later.consecutive_retransmission = count /\ IsSender(later)
        /\ later.segments_out = x.segments_out
    <2> HIDE DEF time
    <2> QED
      BY <1>1 DEF Fixed, IsSender, SenderMembers, SameChain
  <1>4. time \in Nat
    BY <1>1
  <1>5. y = IF ~x.timer_running THEN x
            ELSE IF time < x.RTO THEN later
            ELSE IF x.back_off THEN counted ELSE resent
    BY <1>3 DEF S!tick, S!BackOff
  <1> HIDE DEF later, time
  <1>6. Rest(resent) /\ resent.time_elipsed = 0 /\ resent.RTO = x.RTO
        /\ resent.consecutive_retransmission = count /\ IsSender(resent)
        /\ resent.segments_out = queue
    <2> HIDE DEF queue
    <2> QED
      BY <1>3 DEF Fixed, IsSender, SenderMembers, SameChain
  <1>7. counted = [resent EXCEPT !.RTO = RTO, !.consecutive_retransmission = count + 1]
    OBVIOUS
  <1> DEFINE more == count + 1
  <1> HIDE DEF resent, RTO, more, queue
  <1>8. Rest(counted) /\ counted.time_elipsed = 0 /\ counted.RTO = RTO
        /\ counted.consecutive_retransmission = more /\ counted.segments_out = queue
    BY <1>6 DEF Fixed, IsSender, SenderMembers, SameChain, more
  <1> HIDE DEF counted
  <1>9. ASSUME NEW z, Rest(z), z.consecutive_retransmission \in 0..MAX_RETX_ATTEMPTS + 1,
               z.RTO = Doubled[z.consecutive_retransmission],
               z.time_elipsed \in Nat, z.time_elipsed < z.RTO
        PROVE  Timed(z)
    <2>1. /\ z.timer_running = x.timer_running /\ z.back_off = x.back_off
          /\ z.outstanding_segments = x.outstanding_segments
      BY <1>9 DEF SameChain
    <2>2. /\ x.timer_running \in BOOLEAN /\ x.back_off \in BOOLEAN
          /\ x.timer_running <=> x.outstanding_segments # <<>>
      BY <1>1 DEF Timed
    <2> QED
      BY <1>9, <2>1, <2>2, Zenon DEF Timed
  <1>14. queue = Append(x.segments_out, Head(x.outstanding_segments))
         /\ (x.timer_running => x.outstanding_segments # <<>>)
    BY <1>1, <1>3 DEF Timed, queue
  <1>10. CASE ~x.timer_running
    BY <1>1, <1>5, <1>10 DEF SameChain
  <1>11. CASE x.timer_running /\ time < x.RTO
    <2>1. y = later
      BY <1>5, <1>11
    <2>2. Timed(later)
      <3>1. count \in 0..MAX_RETX_ATTEMPTS + 1
        BY <1>1
      <3>2. later.time_elipsed \in Nat /\ later.time_elipsed < later.RTO
        BY <1>3, <1>4, <1>11
      <3> HIDE DEF Rest
      <3> QED
        BY <1>1, <1>3, <1>9, <3>1, <3>2
    <2> QED
      BY <1>3, <2>1, <2>2
  <1>12. CASE x.timer_running /\ ~(time < x.RTO) /\ x.back_off
    <2>1. y = counted
      BY <1>5, <1>12
    <2>2. Timed(counted)
      <3>1. counted.time_elipsed \in Nat /\ counted.time_elipsed < counted.RTO
        BY <1>2, <1>8
      <3>2. counted.RTO = Doubled[counted.consecutive_retransmission]
            /\ counted.consecutive_retransmission \in 0..MAX_RETX_ATTEMPTS + 1
        BY <1>2, <1>8 DEF more
      <3> HIDE DEF Rest
      <3> QED
        BY <1>8, <1>9, <3>1, <3>2
    <2> QED
      BY <1>8, <1>12, <1>14, <2>1, <2>2
  <1>13. CASE x.timer_running /\ ~(time < x.RTO) /\ ~x.back_off
    <2>1. y = resent
      BY <1>5, <1>13
    <2>2. Timed(resent)
      <3>1. count \in 0..MAX_RETX_ATTEMPTS + 1
        BY <1>1
      <3>2. resent.time_elipsed \in Nat /\ resent.time_elipsed < resent.RTO
        BY <1>2, <1>6
      <3> HIDE DEF Rest
      <3> QED
        BY <1>1, <1>6, <1>9, <3>1, <3>2
    <2> QED
      BY <1>6, <1>13, <1>14, <2>1, <2>2
  <1> QED
    BY <1>10, <1>11, <1>12, <1>13

\* tick() keeps the invariant.
LEMMA KeepsTick ==
    ASSUME Inv, Tick(1)
    PROVE  Inv'
  <1> DEFINE x == Drained
             y == s'
  <1>1. Healthy(x, seen.edge, seen.late) /\ Drains(s, x)
    BY DrainedHealthy DEF Inv
  <1>2. Facts(x)
    BY <1>1, HealthyFacts
  <1>3. y = S!tick(x, 1) /\ UNCHANGED <<acks, seen>>
    BY DEF Tick
  <1>4. x.consecutive_retransmission <= MAX_RETX_ATTEMPTS
    BY <1>1 DEF Tick, Drains, SameQueue
  <1> HIDE DEF x, y
  <1>5. /\ Fixed(y) /\ Timed(y) /\ SameChain(x, y) /\ y.stream = x.stream
        /\ y.syn_sent = x.syn_sent /\ y.fin_sent = x.fin_sent
        /\ y.receiver_window_size = x.receiver_window_size
    BY <1>2, <1>3, <1>4, TickTimed
  <1>6. Streamed(y.stream) /\ y.stream.read_bytes = x.stream.read_bytes
        /\ (x.fin_sent => Exhausted(y.stream))
    BY <1>2, <1>5 DEF Facts
  <1>7. Healthy(y, seen.edge, seen.late)
    BY <1>1, <1>5, <1>6, Changed
  <1>8. /\ y.next_seqno = s.next_seqno /\ y.rcv_base = s.rcv_base /\ y.isn = s.isn
        /\ y.outstanding_segments = s.outstanding_segments
        /\ y.stream = s.stream /\ y.syn_sent = s.syn_sent /\ y.fin_sent = s.fin_sent
    BY <1>1, <1>5 DEF Drains, SameQueue, SameChain
  <1>9. Moving(y)
    BY <1>8 DEF Inv, Moving
  <1>10. Underway(acks, y.next_seqno) /\ Heard(seen, y.rcv_base)
    BY <1>8 DEF Inv
  <1> QED
    BY <1>3, <1>7, <1>8, <1>9, <1>10 DEF Inv, y

\* The greater of two numbers.
LEMMA MaxOf ==
    ASSUME NEW a \in Int, NEW b \in Int
    PROVE  /\ Max({a, b}) = IF a >= b THEN a ELSE b
           /\ Max({a, b}) \in Int
  <1>1. \E m \in {a, b} : \A k \in {a, b} : m >= k
    OBVIOUS
  <1>2. Max({a, b}) \in {a, b} /\ \A k \in {a, b} : Max({a, b}) >= k
    BY <1>1 DEF Max
  <1> QED
    BY <1>2

\* The last elements of a sequence are elements of it.
IsTail(u, q, T) == u \in Seq(T) /\ \A i \in 1..Len(u) : \E j \in 1..Len(q) : u[i] = q[j]
LEMMA TailOf ==
    ASSUME NEW T, NEW q \in Seq(T), NEW from \in 1..Len(q), NEW u, u = SubSeq(q, from, Len(q))
    PROVE  IsTail(u, q, T)
  <1>1. /\ u \in Seq(T) /\ Len(u) = Len(q) - from + 1
        /\ \A i \in 1..Len(q) - from + 1 : u[i] = q[from + i - 1]
    OBVIOUS
  <1>2. ASSUME NEW i \in 1..Len(u)
        PROVE  \E j \in 1..Len(q) : u[i] = q[j]
    <2>1. from + i - 1 \in 1..Len(q) /\ u[i] = q[from + i - 1]
      BY <1>1
    <2> QED
      BY <2>1
  <1> QED
    BY <1>1, <1>2 DEF IsTail

\* A new acknowledgment under way is sound.
LEMMA KeepsPeerAcks ==
    ASSUME Inv, NEW ack \in 1..MaxBytes + 2, NEW edge \in 1..MaxBytes + MaxWin + 2,
           PeerAcks(ack, edge)
    PROVE  Inv'
  <1> DEFINE r == [ack |-> ack, edge |-> edge]
             all == Append(acks, r)
             from == Max({1, Len(all) - Late + 1})
  <1>1. /\ acks' = SubSeq(all, from, Len(all)) /\ UNCHANGED <<s, seen>>
        /\ ack <= s.next_seqno /\ edge \in ack..ack + MaxWin
    BY DEF PeerAcks
  <1>2. acks \in Seq([ack : Nat, edge : Nat]) /\ \A i \in 1..Len(acks) : Sound(acks[i], s.next_seqno)
    BY DEF Inv, Underway
  <1>3. r \in [ack : Nat, edge : Nat] /\ r.ack = ack /\ r.edge = edge
    BY <1>1
  <1>4. Sound(r, s.next_seqno)
    BY <1>1, <1>3, SenderAssumption DEF Sound
  <1> HIDE DEF r
  <1>5. /\ all \in Seq([ack : Nat, edge : Nat]) /\ Len(all) = Len(acks) + 1
        /\ \A i \in 1..Len(acks) : all[i] = acks[i]
        /\ all[Len(acks) + 1] = r
    BY <1>2, <1>3
  <1> HIDE DEF all
  <1>6. \A i \in 1..Len(all) : Sound(all[i], s.next_seqno)
    <2> SUFFICES ASSUME NEW i \in 1..Len(all) PROVE Sound(all[i], s.next_seqno)
      OBVIOUS
    <2>1. i \in 1..Len(acks) \/ i = Len(acks) + 1
      BY <1>2, <1>5
    <2> QED
      BY <1>2, <1>4, <1>5, <2>1
  <1>7. from \in Int /\ from >= 1 /\ from <= Len(all)
    <2>1. Len(all) \in Nat /\ Late \in Nat \ {0} /\ Len(all) - Late + 1 \in Int /\ Len(all) >= 1
      BY <1>2, <1>5, SenderAssumption
    <2>2. from = IF 1 >= Len(all) - Late + 1 THEN 1 ELSE Len(all) - Late + 1
      BY <2>1, MaxOf
    <2> QED
      BY <2>1, <2>2
  <1> HIDE DEF from
  <1>8. Underway(acks', s.next_seqno)
    <2>1. IsTail(acks', all, [ack : Nat, edge : Nat])
      <3>1. from \in 1..Len(all)
        BY <1>2, <1>5, <1>7
      <3> QED
        BY <1>1, <1>5, <3>1, TailOf
    <2> QED
      BY <1>6, <2>1 DEF Underway, IsTail
  <1> QED
    BY <1>1, <1>8 DEF Inv
-----------------------------------------------------------------------------

\* How many segments an acknowledgment of a takes off the queue: those that end at or
\* before a.
TakesOff(k, e, n, a) ==
    /\ k \in 0..n /\ \A i \in 1..k : e[i + 1] <= a
    /\ k < n => e[k + 2] > a
LEMMA PoppedIs ==
    ASSUME NEW x, NEW out, out = x.outstanding_segments, NEW e, Edges(x.isn, e, out), x.isn \in Int,
           e[Len(e)] <= MaxBytes + 2, NEW a \in 0..MaxBytes + 2, x.rcv_base = a,
           NEW k, k = S!Popped(x, a)
    PROVE  TakesOff(k, e, Len(out), a)
  <1> DEFINE n == Len(out)
             end(i) == S!EndOfSegment(x, out[i])
             P(j) == /\ \A i \in 1..j : end(i) <= a
                     /\ j < n => end(j + 1) > a
  <1>1. /\ n \in Nat /\ e \in Seq(Nat) /\ Len(e) = n + 1 /\ MaxBytes \in Nat /\ MaxWin \in Nat
        /\ \A i \in 1..n : Carries(x.isn, out[i], e[i]) /\ e[i + 1] = e[i] + Length(out[i])
    BY SenderAssumption DEF Edges
  <1>2. \A i \in 1..n + 1 : e[i] \in 0..MaxBytes + 2
    <2> SUFFICES ASSUME NEW i \in 1..n + 1 PROVE e[i] \in 0..MaxBytes + 2
      OBVIOUS
    <2>1. i \in 1..Len(e) /\ Len(e) \in i..Len(e) /\ Len(e) \in 1..Len(e)
      BY <1>1
    <2>2. e[i] <= e[Len(e)]
      BY <2>1, EdgesGrow
    <2>3. e[i] \in Nat /\ e[Len(e)] \in Nat
      BY <1>1, <2>1, ElementOfSeq
    <2>4. e[i] <= MaxBytes + 2
      BY <2>2, <2>3, SenderAssumption
    <2> QED
      BY <2>3, <2>4, SenderAssumption
  <1>3. ASSUME NEW i \in 1..n
        PROVE  end(i) = e[i + 1]
    <2>1. out[i].seqno = W!wrap(e[i], x.isn) /\ e[i + 1] = e[i] + Length(out[i])
      BY <1>1 DEF Carries
    <2>2. e[i] \in 0..MaxBytes + 2 /\ e[i + 1] \in 0..MaxBytes + 2
      <3> HIDE DEF n
      <3>1. i \in 1..n + 1 /\ i + 1 \in 1..n + 1
        BY <1>1
      <3> QED
        BY <1>2, <3>1
    <2>3. S!W!unwrap(out[i].seqno, x.isn, x.rcv_base) = e[i]
      BY <2>1, <2>2, Unwrapped
    <2>4. end(i) = e[i + 1] % Mod32
      BY <2>1, <2>3 DEF S!EndOfSegment, Length
    <2>5. e[i + 1] \in 0..MaxBytes + MaxWin + 3
      <3> DEFINE v == e[i + 1]
      <3> HIDE DEF v
      <3>1. v \in 0..MaxBytes + 2
        BY <2>2 DEF v
      <3>2. v \in 0..MaxBytes + MaxWin + 3
        BY <3>1, SenderAssumption
      <3> QED
        BY <3>2 DEF v
    <2> HIDE DEF end
    <2> QED
      BY <2>4, <2>5, Small
  <1>4. k = CHOOSE j \in 0..n : P(j)
    BY DEF S!Popped
  <1> HIDE DEF end
  <1>5. \E j \in 0..n : P(j)
    <2> DEFINE T == {j \in 0..n : j < n => end(j + 1) > a}
    <2>1. T \subseteq Nat /\ n \in T
      BY <1>1
    <2>2. PICK j \in T : \A m \in T : j <= m
      BY <2>1, NP!LeastNatural
    <2>3. ASSUME NEW i \in 1..j
          PROVE  end(i) <= a
      <3>1. j \in 0..n
        OBVIOUS
      <3>0. n \in Nat
        BY <1>1
      <3>2. i - 1 \in 0..n /\ i - 1 < j /\ (i - 1) + 1 = i /\ i \in 1..n /\ i - 1 < n
        <4> HIDE DEF n, T
        <4> QED
          BY <3>0, <3>1
      <3>3. i - 1 \notin T
        <4> HIDE DEF T
        <4> QED
          BY <2>2, <3>1, <3>2
      <3>4. ~(end(i) > a)
        BY <3>2, <3>3
      <3>5. end(i) \in Int
        <4>1. i + 1 \in 1..n + 1
          BY <1>1, <3>2
        <4> QED
          BY <1>1, <1>2, <1>3, <3>2, <4>1
      <3> QED
        BY <3>4, <3>5
    <2>4. P(j) /\ j \in 0..n
      BY <2>2, <2>3
    <2> HIDE DEF P
    <2> QED
      BY <2>4
  <1>6. k \in 0..n /\ P(k)
    <2> HIDE DEF P
    <2> QED
      BY <1>4, <1>5
  <1>7. ASSUME NEW i \in 1..k
        PROVE  e[i + 1] <= a
    <2>0. n \in Nat /\ k \in 0..n
      BY <1>1, <1>6
    <2>1. i \in 1..n
      <3> HIDE DEF n
      <3> QED
        BY <2>0
    <2> QED
      BY <1>3, <1>6, <2>1
  <1>8. k < n => e[k + 2] > a
    <2> SUFFICES ASSUME k < n PROVE e[k + 2] > a
      OBVIOUS
    <2>0. n \in Nat /\ k \in 0..n
      BY <1>1, <1>6
    <2>1. k + 1 \in 1..n /\ (k + 1) + 1 = k + 2
      <3> HIDE DEF n
      <3> QED
        BY <2>0
    <2>2. end(k + 1) > a
      BY <1>6
    <2> QED
      BY <1>3, <2>1, <2>2
  <1> QED
    BY <1>6, <1>7, <1>8 DEF TakesOff
\* The window an acknowledgment of a with a window of ws offers is not smaller than
\* the one before.
Widens(x, e, y, f, a, ws) ==
    \A old \in Nat, new \in Nat :
        Within(x, e, old) /\ new = a + S!ProbeWindow(ws) /\ new >= old => Within(y, f, new)

\* What setting the window changes.
Windowed(x, y, ws) ==
    /\ Fixed(y) /\ SameChain(x, y) /\ y.stream = x.stream /\ y.syn_sent = x.syn_sent
    /\ y.fin_sent = x.fin_sent /\ y.timer_running = x.timer_running
    /\ y.consecutive_retransmission = x.consecutive_retransmission /\ y.RTO = x.RTO
    /\ y.time_elipsed = x.time_elipsed /\ y.receiver_window_size = ws
    /\ y.back_off \in BOOLEAN /\ y.segments_out = x.segments_out
LEMMA WindowMembers ==
    ASSUME NEW x, Fixed(x), NEW ws, NEW y,
           y = [x EXCEPT !.receiver_window_size = ws, !.back_off = ws # 0]
    PROVE  Windowed(x, y, ws)
  <1> DEFINE flag == ws # 0
  <1>1. flag \in BOOLEAN
    OBVIOUS
  <1>2. y = [x EXCEPT !.receiver_window_size = ws, !.back_off = flag]
    OBVIOUS
  <1> HIDE DEF flag
  <1>3. /\ Fixed(y) /\ SameChain(x, y) /\ y.stream = x.stream /\ y.syn_sent = x.syn_sent
        /\ y.fin_sent = x.fin_sent /\ y.timer_running = x.timer_running
        /\ y.consecutive_retransmission = x.consecutive_retransmission /\ y.RTO = x.RTO
        /\ y.time_elipsed = x.time_elipsed /\ y.receiver_window_size = ws
        /\ y.back_off = flag /\ y.segments_out = x.segments_out
    BY <1>2 DEF Fixed, IsSender, SenderMembers, SameChain
  <1> QED
    BY <1>1, <1>3, Zenon DEF Windowed

\* Numbers do not change when only the queue and the window do.
LEMMA NumberedKept ==
    ASSUME NEW x, Numbered(x), NEW y, y.stream = x.stream, y.syn_sent = x.syn_sent,
           y.fin_sent = x.fin_sent, y.next_seqno = x.next_seqno,
           y.receiver_window_size \in 0..MaxWin + 1
    PROVE  Numbered(y)
  BY Zenon DEF Numbered

\* What fits into a window fits into a greater one.
LEMMA FitsMore ==
    ASSUME NEW isn, NEW e, NEW out, Edges(isn, e, out), NEW old \in Nat, Fits(e, out, old),
           NEW new \in Nat, new >= old
    PROVE  Fits(e, out, new)
  <1> SUFFICES ASSUME NEW i \in 1..Len(out)
               PROVE  e[i] + Len(out[i].payload) <= new
    BY DEF Fits
  <1>1. e[i] + Len(out[i].payload) <= old
    BY DEF Fits
  <1>2. out \in Seq(SegmentSet) /\ e \in Seq(Nat) /\ Len(e) = Len(out) + 1
        /\ out[i].payload \in Seq(Nat)
    BY DEF Edges, Carries
  <1>3. i \in 1..Len(e)
    BY <1>2
  <1>4. e[i] \in Nat
    BY <1>2, <1>3, ElementOfSeq
  <1>5. Len(out[i].payload) \in Nat
    BY <1>2
  <1> QED
    BY <1>1, <1>4, <1>5

\* An acknowledgment of nothing new changes the window only.
LEMMA OldAck ==
    ASSUME NEW x, NEW e, Good(x, e), NEW ws \in 0..MaxWin, NEW y,
           y = [x EXCEPT !.receiver_window_size = ws, !.back_off = ws # 0]
    PROVE  /\ Good(y, e) /\ Windowed(x, y, ws)
           /\ Widens(x, e, y, e, x.rcv_base, ws)
  <1>1. Fixed(x) /\ Chain(x, e) /\ Timed(x) /\ Numbered(x)
    BY DEF Good
  <1>2. Windowed(x, y, ws)
    BY <1>1, WindowMembers
  <1>3. Chain(y, e)
    BY <1>1, <1>2 DEF Windowed, SameChain, Chain
  <1>4. Timed(y)
    <2>1. y.outstanding_segments = x.outstanding_segments
      BY <1>2 DEF Windowed, SameChain
    <2> QED
      BY <1>1, <1>2, <2>1, Zenon DEF Windowed, Timed
  <1>5. Numbered(y)
    <2>1. ws \in 0..MaxWin + 1
      BY SenderAssumption
    <2> QED
      BY <1>1, <1>2, <2>1, NumberedKept DEF Windowed, SameChain
  <1>6. Widens(x, e, y, e, x.rcv_base, ws)
    <2> SUFFICES ASSUME NEW old \in Nat, NEW new \in Nat, Within(x, e, old),
                        new = x.rcv_base + S!ProbeWindow(ws), new >= old
                 PROVE  Within(y, e, new)
      BY DEF Widens
    <2> DEFINE out == x.outstanding_segments
    <2>1. /\ y.rcv_base = x.rcv_base /\ y.receiver_window_size = ws /\ y.fin_sent = x.fin_sent
          /\ y.next_seqno = x.next_seqno /\ y.outstanding_segments = out
      BY <1>2 DEF Windowed, SameChain
    <2>2. x.next_seqno <= new + Bit(x.fin_sent)
      <3>1. x.next_seqno <= old + Bit(x.fin_sent) /\ x.next_seqno \in Nat /\ Bit(x.fin_sent) \in Nat
        BY Bounds, BitType DEF Within
      <3> QED
        BY <3>1
    <2>3. Fits(e, out, new)
      <3>1. Edges(x.isn, e, out) /\ Fits(e, out, old)
        BY <1>1 DEF Chain, Within, Fits
      <3> QED
        BY <3>1, FitsMore
    <2> HIDE DEF out
    <2> QED
      BY <2>1, <2>2, <2>3 DEF Within, Fits
  <1> QED
    BY <1>1, <1>2, <1>3, <1>4, <1>5, <1>6 DEF Good, Windowed

\* The numbers the first k segments occupy together.
LEMMA TotalOfFirst ==
    ASSUME NEW isn, NEW out, NEW e, Edges(isn, e, out), NEW k \in 0..Len(out)
    PROVE  S!TotalLength(SubSeq(out, 1, k)) = e[k + 1] - e[1]
  <1> DEFINE c == SubSeq(out, 1, k)
             g == SubSeq(e, 1, k + 1)
  <1>1. IsFirst(isn, e, k, c, g)
    BY EdgesTake
  <1> HIDE DEF c, g
  <1>2. Edges(isn, g, c) /\ g[1] = e[1] /\ Len(g) = k + 1 /\ g[k + 1] = e[k + 1]
    BY <1>1 DEF IsFirst
  <1>3. S!TotalLength(c) = g[Len(g)] - g[1]
    BY <1>2, TotalIs
  <1> QED
    BY <1>2, <1>3 DEF c

\* The queue after an acknowledgment of something new.
IsLeft(out, e, k, b, f, a) ==
    /\ IF b = <<>> THEN a = f[Len(f)] ELSE a < f[2]
    /\ f[1] <= a /\ f[Len(f)] = e[Len(e)] /\ f[1] = e[k + 1]
    /\ b # <<>> => out # <<>>
    /\ \A edge : Fits(e, out, edge) => Fits(f, b, edge)
LEMMA RestOfQueue ==
    ASSUME NEW isn, NEW out, NEW e, Edges(isn, e, out), NEW a \in Nat, e[1] <= a, a <= e[Len(e)],
           NEW k, TakesOff(k, e, Len(out), a), NEW b, NEW f, IsRest(isn, out, e, k, b, f)
    PROVE  IsLeft(out, e, k, b, f, a)
  <1> DEFINE n == Len(out)
  <1>1. /\ k \in 0..n /\ (\A i \in 1..k : e[i + 1] <= a) /\ (k < n => e[k + 2] > a)
        /\ n \in Nat /\ out \in Seq(SegmentSet) /\ e \in Seq(Nat) /\ Len(e) = n + 1
    BY DEF TakesOff, Edges
  <1>2. /\ Edges(isn, f, b) /\ Len(b) = n - k
        /\ \A i \in 1..n - k : b[i] = out[k + i]
        /\ \A i \in 1..n - k + 1 : f[i] = e[k + i]
    BY DEF IsRest
  <1>3. f \in Seq(Nat) /\ Len(f) = n - k + 1 /\ b \in Seq(SegmentSet)
    BY <1>2 DEF Edges
  <1>4. f[1] = e[k + 1] /\ f[Len(f)] = e[Len(e)]
    <2>1. 1 \in 1..n - k + 1 /\ n - k + 1 \in 1..n - k + 1 /\ k + (n - k + 1) = n + 1
      BY <1>1
    <2> QED
      BY <1>1, <1>2, <1>3, <2>1
  <1>5. e[1] \in Nat /\ e[k + 1] \in Nat /\ e[Len(e)] \in Nat
    <2>1. 1 \in 1..Len(e) /\ k + 1 \in 1..Len(e) /\ Len(e) \in 1..Len(e)
      BY <1>1
    <2> QED
      BY <1>1, <2>1, ElementOfSeq
  <1>6. f[1] <= a
    <2>1. CASE k = 0
      BY <1>4, <2>1
    <2>2. CASE k # 0
      <3>1. k \in 1..k
        BY <1>1, <2>2
      <3> QED
        BY <1>1, <1>4, <3>1
    <2> QED
      BY <2>1, <2>2
  <1>7. (b = <<>> <=> k = n) /\ (out = <<>> <=> n = 0)
    BY <1>1, <1>2, <1>3
  <1>8. IF b = <<>> THEN a = f[Len(f)] ELSE a < f[2]
    <2>1. CASE k = n
      <3>1. Len(f) = 1 /\ b = <<>>
        BY <1>1, <1>3, <1>7, <2>1
      <3>2. f[1] = e[Len(e)] /\ f[1] \in Nat
        BY <1>4, <1>5, <3>1
      <3>3. a = f[1]
        BY <1>6, <3>2
      <3> QED
        BY <3>1, <3>3
    <2>2. CASE k # n
      <3>1. k < n /\ 2 \in 1..n - k + 1
        BY <1>1, <2>2
      <3>2. f[2] = e[k + 2] /\ e[k + 2] > a
        BY <1>1, <1>2, <3>1
      <3>3. e[k + 2] \in Nat
        <4>1. k + 2 \in 1..Len(e)
          BY <1>1, <3>1
        <4> QED
          BY <1>1, <4>1, ElementOfSeq
      <3>4. a < f[2]
        BY <3>2, <3>3
      <3> QED
        BY <1>7, <2>2, <3>4
    <2> QED
      BY <2>1, <2>2
  <1>9. b # <<>> => out # <<>>
    BY <1>1, <1>7
  <1>10. ASSUME NEW edge, Fits(e, out, edge), NEW i \in 1..Len(b)
         PROVE  f[i] + Len(b[i].payload) <= edge
    <2>1. i \in 1..n - k /\ i \in 1..n - k + 1 /\ k + i \in 1..Len(out)
      BY <1>1, <1>2
    <2>2. f[i] = e[k + i] /\ b[i] = out[k + i]
      BY <1>2, <2>1
    <2> QED
      BY <1>10, <2>1, <2>2 DEF Fits
  <1>11. \A edge : Fits(e, out, edge) => Fits(f, b, edge)
    BY <1>10 DEF Fits
  <1> QED
    BY <1>4, <1>6, <1>8, <1>9, <1>11 DEF IsLeft
\* The members besides the timer's.
SameRest(x, y) ==
    /\ Fixed(y) /\ SameChain(x, y) /\ y.stream = x.stream /\ y.syn_sent = x.syn_sent
    /\ y.fin_sent = x.fin_sent /\ y.receiver_window_size = x.receiver_window_size
    /\ y.segments_out = x.segments_out
    /\ y.consecutive_retransmission \in {0, x.consecutive_retransmission}

\* The timer before it is stopped.
Ticking(x) ==
    /\ x.timer_running \in BOOLEAN /\ x.back_off \in BOOLEAN
    /\ x.outstanding_segments # <<>> => x.timer_running
    /\ x.consecutive_retransmission \in 0..MAX_RETX_ATTEMPTS + 1
    /\ x.RTO = Doubled[x.consecutive_retransmission]
    /\ x.time_elipsed \in Nat /\ x.time_elipsed < x.RTO

\* Resetting the timeout changes only the timer.
LEMMA ResetTicking ==
    ASSUME NEW x, Fixed(x), Ticking(x), NEW y, y = S!ResetRetransmission(x)
    PROVE  SameRest(x, y) /\ Ticking(y)
  <1> DEFINE init == x.initial_retransmission_timeout
  <1>1. y = [x EXCEPT !.RTO = init, !.consecutive_retransmission = 0, !.time_elipsed = 0]
    BY DEF S!ResetRetransmission
  <1>2. init = RtTimeout /\ IsSender(x)
    BY DEF Fixed
  <1> HIDE DEF init
  <1>3. /\ SameRest(x, y) /\ y.timer_running = x.timer_running /\ y.back_off = x.back_off
        /\ y.RTO = init /\ y.consecutive_retransmission = 0 /\ y.time_elipsed = 0
        /\ y.outstanding_segments = x.outstanding_segments
    BY <1>1 DEF Fixed, IsSender, SenderMembers, SameChain, SameRest
  <1>4. /\ 0 \in 0..MAX_RETX_ATTEMPTS + 1 /\ RtTimeout = Doubled[0] /\ 0 \in Nat
        /\ 0 < RtTimeout
    BY DoubledFacts, SenderAssumption
  <1>5. Ticking(y)
    BY <1>2, <1>3, <1>4, Zenon DEF Ticking
  <1> QED
    BY <1>3, <1>5

\* Stopping the timer of an empty queue makes it right.
LEMMA StopTimed ==
    ASSUME NEW x, Fixed(x), Ticking(x), NEW y, y = S!StopTimer(x)
    PROVE  SameRest(x, y) /\ Timed(y)
  <1>1. CASE x.outstanding_segments = <<>>
    <2>1. y = [x EXCEPT !.timer_running = FALSE, !.time_elipsed = 0]
      BY <1>1 DEF S!StopTimer
    <2>2. /\ SameRest(x, y) /\ y.timer_running = FALSE /\ y.back_off = x.back_off
          /\ y.RTO = x.RTO /\ y.consecutive_retransmission = x.consecutive_retransmission
          /\ y.time_elipsed = 0 /\ y.outstanding_segments = <<>>
      BY <1>1, <2>1 DEF Fixed, IsSender, SenderMembers, SameChain, SameRest
    <2>3. 0 \in Nat /\ 0 < x.RTO
      <3>1. x.RTO \in Nat \ {0}
        BY DoubledFacts DEF Ticking
      <3> QED
        BY <3>1
    <2>4. FALSE \in BOOLEAN
      OBVIOUS
    <2>5. y.time_elipsed \in Nat /\ y.time_elipsed < y.RTO
      BY <2>2, <2>3, Zenon
    <2>6. y.timer_running \in BOOLEAN /\ (y.timer_running <=> y.outstanding_segments # <<>>)
      BY <2>2, <2>4, Zenon
    <2>7. /\ y.back_off \in BOOLEAN /\ y.consecutive_retransmission \in 0..MAX_RETX_ATTEMPTS + 1
          /\ y.RTO = Doubled[y.consecutive_retransmission]
      BY <2>2, Zenon DEF Ticking
    <2> QED
      BY <2>2, <2>5, <2>6, <2>7, Zenon DEF Timed
  <1>2. CASE x.outstanding_segments # <<>>
    <2>1. y = x
      BY <1>2 DEF S!StopTimer
    <2>2. SameRest(x, x)
      BY DEF SameRest, SameChain
    <2>3. Timed(x)
      BY <1>2, Zenon DEF Ticking, Timed
    <2> QED
      BY <2>1, <2>2, <2>3
  <1> QED
    BY <1>1, <1>2

\* An acknowledgment of something new, up to the call of fill_window.
Advanced(x, e, y, a, ws) ==
    /\ \E f : Good(y, f) /\ Widens(x, e, y, f, a, ws)
    /\ y.rcv_base = a /\ y.next_seqno = x.next_seqno
    /\ Goes(x, y) /\ (Spoken(x) => Spoken(y))
LEMMA NewAck ==
    ASSUME NEW x, NEW e, Good(x, e), NEW ws \in 0..MaxWin, NEW a \in Nat, x.rcv_base < a,
           a <= x.next_seqno, NEW w, w = [x EXCEPT !.receiver_window_size = ws, !.back_off = ws # 0],
           NEW based, based = S!Base(w, a), NEW k, k = S!Popped(based, a),
           NEW rest, rest = [based EXCEPT
               !.bytes_in_flight = @ - S!TotalLength(SubSeq(x.outstanding_segments, 1, k)),
               !.outstanding_segments = SubSeq(@, k + 1, Len(@))],
           NEW y, y = S!StopTimer(IF k > 0 THEN S!ResetRetransmission(rest) ELSE rest)
    PROVE  Advanced(x, e, y, a, ws)
  <1> DEFINE out == x.outstanding_segments
             b == SubSeq(out, k + 1, Len(out))
             f == SubSeq(e, k + 1, Len(e))
             bytes == x.bytes_in_flight - S!TotalLength(SubSeq(out, 1, k))
             base == a % Mod32
  <1>1. Fixed(x) /\ Chain(x, e) /\ Timed(x) /\ Numbered(x)
    BY DEF Good
  <1>2. /\ x.next_seqno \in Nat /\ x.next_seqno <= MaxBytes + 2 /\ x.rcv_base \in Nat
        /\ MaxBytes \in Nat /\ MaxWin \in Nat /\ a \in 0..MaxBytes + 2
        /\ a \in 0..MaxBytes + MaxWin + 3
    BY Bounds, SenderAssumption
  <1>3. Windowed(x, w, ws)
    BY <1>1, WindowMembers
  <1>4. base = a
    BY <1>2, Small
  <1>5. based = [w EXCEPT !.rcv_base = base]
    BY DEF S!Base
  <1> HIDE DEF base
  <1>6. /\ Fixed(based) /\ based.rcv_base = a /\ based.next_seqno = x.next_seqno
        /\ based.outstanding_segments = out /\ based.bytes_in_flight = x.bytes_in_flight
        /\ based.stream = x.stream /\ based.syn_sent = x.syn_sent /\ based.fin_sent = x.fin_sent
        /\ based.timer_running = x.timer_running /\ based.RTO = x.RTO
        /\ based.consecutive_retransmission = x.consecutive_retransmission
        /\ based.time_elipsed = x.time_elipsed /\ based.receiver_window_size = ws
        /\ based.back_off = w.back_off /\ based.isn = x.isn
        /\ based.segments_out = x.segments_out
    <2>1. /\ Fixed(w) /\ w.next_seqno = x.next_seqno
          /\ w.outstanding_segments = out /\ w.bytes_in_flight = x.bytes_in_flight
          /\ w.stream = x.stream /\ w.syn_sent = x.syn_sent /\ w.fin_sent = x.fin_sent
          /\ w.timer_running = x.timer_running /\ w.RTO = x.RTO
          /\ w.consecutive_retransmission = x.consecutive_retransmission
          /\ w.time_elipsed = x.time_elipsed /\ w.receiver_window_size = ws
          /\ w.isn = x.isn /\ w.segments_out = x.segments_out
      BY <1>3 DEF Windowed, SameChain
    <2> QED
      BY <1>4, <1>5, <2>1 DEF Fixed, IsSender, SenderMembers
  <1>7. Edges(x.isn, e, out) /\ x.next_seqno = e[Len(e)] /\ x.bytes_in_flight = e[Len(e)] - e[1]
        /\ e[1] <= x.rcv_base
    BY <1>1 DEF Chain
  <1>8. TakesOff(k, e, Len(out), a)
    <2>1. /\ based.isn = x.isn /\ based.rcv_base = a /\ out = based.outstanding_segments
          /\ x.isn \in Int /\ Edges(based.isn, e, out)
      BY <1>1, <1>6, <1>7 DEF Fixed
    <2>2. e[Len(e)] <= MaxBytes + 2
      BY <1>2, <1>7
    <2> HIDE DEF out
    <2> QED
      BY <1>2, <1>7, <2>1, <2>2, PoppedIs
  <1>9. k \in 0..Len(out)
    BY <1>8 DEF TakesOff
  <1>10. IsRest(x.isn, out, e, k, b, f)
    <2> HIDE DEF out
    <2> QED
      BY <1>7, <1>9, EdgesDrop
  <1>11. IsLeft(out, e, k, b, f, a)
    <2>1. e[1] \in Nat
      <3>1. e \in Seq(Nat) /\ Len(e) = Len(out) + 1 /\ Len(out) \in Nat
        BY <1>7 DEF Edges
      <3>2. 1 \in 1..Len(e)
        BY <3>1
      <3> QED
        BY <3>1, <3>2, ElementOfSeq
    <2>2. e[1] <= a /\ a <= e[Len(e)]
      BY <1>2, <1>7, <2>1
    <2> HIDE DEF out, b, f
    <2> QED
      BY <1>7, <1>8, <1>10, <2>2, RestOfQueue
  <1>12. rest = [based EXCEPT !.bytes_in_flight = bytes, !.outstanding_segments = b]
    BY <1>6
  <1> HIDE DEF b, f, bytes, out
  <1>13. /\ Fixed(rest) /\ rest.rcv_base = a /\ rest.next_seqno = x.next_seqno
         /\ rest.outstanding_segments = b /\ rest.bytes_in_flight = bytes
         /\ rest.stream = x.stream /\ rest.syn_sent = x.syn_sent /\ rest.fin_sent = x.fin_sent
         /\ rest.timer_running = x.timer_running /\ rest.RTO = x.RTO
         /\ rest.consecutive_retransmission = x.consecutive_retransmission
         /\ rest.time_elipsed = x.time_elipsed /\ rest.receiver_window_size = ws
         /\ rest.back_off = w.back_off /\ rest.isn = x.isn
         /\ rest.segments_out = x.segments_out
    BY <1>6, <1>12 DEF Fixed, IsSender, SenderMembers
  <1>14. Ticking(rest)
    <2>1. w.back_off \in BOOLEAN
      BY <1>3 DEF Windowed
    <2>2. b # <<>> => x.outstanding_segments # <<>>
      BY <1>11 DEF IsLeft, out
    <2> QED
      BY <1>1, <1>13, <2>1, <2>2, Zenon DEF Ticking, Timed
  <1> DEFINE r == IF k > 0 THEN S!ResetRetransmission(rest) ELSE rest
  <1>15. SameRest(rest, r) /\ Ticking(r)
    <2>1. CASE k > 0
      BY <1>13, <1>14, <2>1, ResetTicking
    <2>2. CASE ~(k > 0)
      BY <1>13, <1>14, <2>2 DEF SameRest, SameChain
    <2> QED
      BY <2>1, <2>2
  <1> HIDE DEF r
  <1>16. SameRest(r, y) /\ Timed(y)
    <2>1. Fixed(r) /\ y = S!StopTimer(r)
      BY <1>15 DEF SameRest, r
    <2> QED
      BY <1>15, <2>1, StopTimed
  <1>17. /\ Fixed(y) /\ y.rcv_base = a /\ y.next_seqno = x.next_seqno
         /\ y.outstanding_segments = b /\ y.bytes_in_flight = bytes
         /\ y.stream = x.stream /\ y.syn_sent = x.syn_sent /\ y.fin_sent = x.fin_sent
         /\ y.receiver_window_size = ws /\ y.isn = x.isn /\ y.segments_out = x.segments_out
         /\ y.consecutive_retransmission \in {0, x.consecutive_retransmission}
    BY <1>13, <1>15, <1>16 DEF SameRest, SameChain
  <1>18. bytes = f[Len(f)] - f[1]
    <2>1. S!TotalLength(SubSeq(out, 1, k)) = e[k + 1] - e[1]
      BY <1>7, <1>9, TotalOfFirst
    <2>2. f[Len(f)] = e[Len(e)] /\ f[1] = e[k + 1]
      BY <1>11 DEF IsLeft
    <2>3. e[1] \in Nat /\ e[k + 1] \in Nat /\ e[Len(e)] \in Nat
      <3>1. e \in Seq(Nat) /\ Len(e) = Len(out) + 1 /\ Len(out) \in Nat
        BY <1>7 DEF Edges
      <3>2. 1 \in 1..Len(e) /\ k + 1 \in 1..Len(e) /\ Len(e) \in 1..Len(e)
        BY <1>9, <3>1
      <3> QED
        BY <3>1, <3>2, ElementOfSeq
    <2>4. bytes = (e[Len(e)] - e[1]) - (e[k + 1] - e[1])
      BY <1>7, <2>1 DEF bytes
    <2> QED
      BY <2>2, <2>3, <2>4
  <1>19. Chain(y, f)
    <2>1. Edges(x.isn, f, b)
      BY <1>10 DEF IsRest
    <2>2. /\ IF b = <<>> THEN a = f[Len(f)] ELSE a < f[2]
          /\ f[1] <= a /\ f[Len(f)] = e[Len(e)]
      BY <1>11 DEF IsLeft
    <2> QED
      BY <1>7, <1>17, <1>18, <2>1, <2>2 DEF Chain
  <1>20. Numbered(y)
    <2>1. ws \in 0..MaxWin + 1
      BY SenderAssumption
    <2> QED
      BY <1>1, <1>17, <2>1, NumberedKept
  <1>21. Good(y, f)
    BY <1>16, <1>17, <1>19, <1>20 DEF Good
  <1>22. Widens(x, e, y, f, a, ws)
    <2> SUFFICES ASSUME NEW old \in Nat, NEW new \in Nat, Within(x, e, old),
                        new = a + S!ProbeWindow(ws), new >= old
                 PROVE  Within(y, f, new)
      BY DEF Widens
    <2>1. x.next_seqno <= new + Bit(x.fin_sent)
      <3>1. x.next_seqno <= old + Bit(x.fin_sent) /\ Bit(x.fin_sent) \in Nat
        BY BitType DEF Within
      <3> QED
        BY <1>2, <3>1
    <2>2. Fits(e, out, old)
      BY DEF Within, Fits, out
    <2>3. Fits(e, out, new)
      BY <1>7, <2>2, FitsMore
    <2>4. Fits(f, b, new)
      BY <1>11, <2>3 DEF IsLeft
    <2> QED
      BY <1>17, <2>1, <2>4 DEF Within, Fits
  <1>23. ASSUME Spoken(x)
         PROVE  Spoken(y)
    <2> DEFINE T == Said(x.isn, x.stream.write_bytes)
    <2>1. out \in Seq(T) /\ x.segments_out \in Seq(T)
      BY <1>23 DEF Spoken, out
    <2> HIDE DEF T
    <2>2. b \in Seq(T)
      <3>1. Len(out) \in Nat
        BY <2>1
      <3> QED
        BY <1>9, <2>1, <3>1 DEF b
    <2> QED
      BY <1>17, <2>1, <2>2 DEF Spoken, T
  <1>24. Goes(x, y)
    BY <1>17 DEF Goes
  <1> QED
    BY <1>17, <1>21, <1>22, <1>23, <1>24 DEF Advanced
\* What ack_received does with an acknowledgment of a that offers a window of ws.
Acked(x, e, y, a, ws) ==
    /\ \E g : Good(y, g) /\ (a >= x.rcv_base => Widens(x, e, y, g, a, ws))
    /\ Moving(y) /\ y.next_seqno >= x.next_seqno
    /\ y.rcv_base = IF a <= x.rcv_base THEN x.rcv_base ELSE a
    /\ Goes(x, y) /\ (Spoken(x) => Spoken(y))
LEMMA AckReceived ==
    ASSUME NEW x, NEW e, Good(x, e), Moving(x), NEW a \in Nat, a <= x.next_seqno,
           NEW ws \in 0..MaxWin, NEW y, y = S!ack_received(x, W!wrap(a, x.isn), ws)
    PROVE  Acked(x, e, y, a, ws)
  <1> DEFINE w == [x EXCEPT !.receiver_window_size = ws, !.back_off = ws # 0]
             based == S!Base(w, a)
             k == S!Popped(based, a)
             rest == [based EXCEPT
                 !.bytes_in_flight = @ - S!TotalLength(SubSeq(x.outstanding_segments, 1, k)),
                 !.outstanding_segments = SubSeq(@, k + 1, Len(@))]
             timed == S!StopTimer(IF k > 0 THEN S!ResetRetransmission(rest) ELSE rest)
  <1>1. /\ x.next_seqno \in Nat /\ x.next_seqno <= MaxBytes + 2 /\ x.rcv_base \in Nat
        /\ x.rcv_base <= x.next_seqno /\ x.isn \in Int
    BY Bounds DEF Good, Fixed
  <1>2. S!W!unwrap(W!wrap(a, x.isn), x.isn, x.rcv_base) = a
    <2>1. a \in 0..MaxBytes + 2 /\ x.rcv_base \in 0..MaxBytes + 2
      BY <1>1, SenderAssumption
    <2> QED
      BY <1>1, <2>1, Unwrapped
  <1>3. y = IF a > x.next_seqno THEN x
            ELSE IF a <= x.rcv_base THEN w ELSE S!fill_window(timed)
    BY <1>2 DEF S!ack_received
  <1>4. CASE a <= x.rcv_base
    <2>1. y = w
      BY <1>1, <1>3, <1>4
    <2> HIDE DEF w
    <2>2. Good(w, e) /\ Windowed(x, w, ws) /\ Widens(x, e, w, e, x.rcv_base, ws)
      BY OldAck DEF w
    <2>3. Moving(w)
      BY <2>2 DEF Windowed, SameChain, Moving
    <2>4. w.rcv_base = x.rcv_base /\ w.next_seqno = x.next_seqno
      BY <2>2 DEF Windowed, SameChain
    <2>5. a >= x.rcv_base => Widens(x, e, w, e, a, ws)
      <3>1. a >= x.rcv_base => a = x.rcv_base
        BY <1>1, <1>4
      <3> QED
        BY <2>2, <3>1
    <2>6. Goes(x, w) /\ (Spoken(x) => Spoken(w))
      BY <2>2 DEF Windowed, SameChain, Goes, Spoken
    <2> QED
      BY <1>1, <1>4, <2>1, <2>2, <2>3, <2>4, <2>5, <2>6 DEF Acked
  <1>5. CASE ~(a <= x.rcv_base)
    <2>1. y = S!fill_window(timed) /\ x.rcv_base < a
      BY <1>1, <1>3, <1>5
    <2>2. Advanced(x, e, timed, a, ws)
      <3> HIDE DEF w, based, k, rest, timed
      <3> QED
        BY <2>1, NewAck DEF w, based, k, rest, timed
    <2> HIDE DEF timed
    <2>3. PICK f : Good(timed, f) /\ Widens(x, e, timed, f, a, ws)
      BY <2>2 DEF Advanced
    <2>4. timed.rcv_base = a /\ timed.next_seqno = x.next_seqno
      BY <2>2 DEF Advanced
    <2>5. Filled(timed, y, f)
      BY <2>1, <2>3, FillWindow
    <2>6. PICK g : Good(y, g) /\ \A edge : Within(timed, f, edge) => Within(y, g, edge)
      BY <2>5 DEF Filled
    <2>7. Widens(x, e, y, g, a, ws)
      BY <2>3, <2>6 DEF Widens
    <2>8. Moving(y) /\ y.rcv_base = a /\ y.next_seqno >= x.next_seqno
      BY <2>4, <2>5 DEF Filled
    <2>9. Goes(x, y) /\ (Spoken(x) => Spoken(y))
      BY <2>2, <2>5 DEF Advanced, Filled, Goes
    <2> QED
      BY <1>5, <2>6, <2>7, <2>8, <2>9 DEF Acked
  <1> QED
    BY <1>4, <1>5

\* The window edge the sender has heard of, unless the acknowledgment came late.
LEMMA HeardEdge ==
    ASSUME NEW ack \in Nat, NEW edge \in Nat, ack <= edge, NEW old \in Nat,
           NEW top, top = Max({edge, ack + 1}), NEW new, new = Max({old, top})
    PROVE  /\ new \in Nat
           /\ ~(top < old) => new = ack + S!ProbeWindow(edge - ack) /\ new >= old
  <1>1. top = IF edge >= ack + 1 THEN edge ELSE ack + 1
    BY MaxOf
  <1>2. top \in Nat
    BY <1>1
  <1>3. new = IF old >= top THEN old ELSE top
    BY <1>2, MaxOf
  <1>4. S!ProbeWindow(edge - ack) = IF edge - ack = 0 THEN 1 ELSE edge - ack
    BY DEF S!ProbeWindow
  <1> QED
    BY <1>1, <1>2, <1>3, <1>4

\* An acknowledgment, in order or late or again, keeps the invariant.
LEMMA KeepsAckArrives ==
    ASSUME Inv, NEW i \in DOMAIN acks, AckArrives(i)
    PROVE  Inv'
  <1> DEFINE x == Drained
             y == s'
             ack == acks[i].ack
             edge == acks[i].edge
             ws == edge - ack
             top == Max({edge, ack + 1})
             new == Max({seen.edge, top})
             base == Max({seen.ack, ack})
             late == seen.late \/ ack < seen.ack \/ top < seen.edge
  <1>1. /\ Healthy(s, seen.edge, seen.late) /\ Moving(s) /\ Underway(acks, s.next_seqno)
        /\ seen.ack = s.rcv_base /\ seen.edge \in Nat /\ seen.late \in BOOLEAN
    BY DEF Inv, Heard
  <1>2. Healthy(x, seen.edge, seen.late) /\ Drains(s, x)
    BY <1>1, DrainedHealthy
  <1>3. /\ y = S!ack_received(x, W!wrap(ack, x.isn), ws) /\ x.isn = Isn
        /\ seen' = [ack |-> base, edge |-> new, late |-> late] /\ acks' = acks
    <2>1. x.isn = Isn
      BY <1>2 DEF Inv, Drains, SameQueue
    <2> HIDE DEF x
    <2> QED
      BY <2>1 DEF AckArrives, x
  <1>4. /\ ack \in Nat /\ edge \in Nat /\ ack <= s.next_seqno /\ ack <= edge
        /\ edge <= ack + MaxWin
    <2>1. i \in 1..Len(acks)
      BY <1>1 DEF Underway
    <2> QED
      BY <1>1, <2>1 DEF Underway, Sound
  <1>5. ws \in 0..MaxWin
    BY <1>4, SenderAssumption
  <1>6. Facts(s) /\ Facts(x)
    BY <1>1, <1>2, HealthyFacts
  <1>7. /\ x.next_seqno = s.next_seqno /\ x.rcv_base = s.rcv_base
        /\ s.next_seqno \in Nat /\ s.rcv_base \in Nat
    BY <1>2, <1>6 DEF Drains, SameQueue, Facts
  <1>8. Moving(x)
    BY <1>1, <1>2 DEF Drains, SameQueue, Moving
  <1>9. PICK e : Good(x, e) /\ (~seen.late => Within(x, e, seen.edge))
    BY <1>2 DEF Healthy
  <1> HIDE DEF x, y, ws
  <1>10. Acked(x, e, y, ack, ws)
    BY <1>3, <1>4, <1>5, <1>7, <1>8, <1>9, AckReceived
  <1>11. PICK g : Good(y, g) /\ (ack >= x.rcv_base => Widens(x, e, y, g, ack, ws))
    BY <1>10 DEF Acked
  <1>12. /\ new \in Nat
         /\ ~(top < seen.edge) => new = ack + S!ProbeWindow(ws) /\ new >= seen.edge
    BY <1>1, <1>4, HeardEdge DEF ws
  <1>13. base = IF ack <= s.rcv_base THEN s.rcv_base ELSE ack
    BY <1>1, <1>4, <1>7, MaxOf
  <1> HIDE DEF new, top, base, ack, edge
  <1>14. ~late => Within(y, g, new)
    <2> SUFFICES ASSUME ~late PROVE Within(y, g, new)
      OBVIOUS
    <2>1. ~seen.late /\ ~(ack < seen.ack) /\ ~(top < seen.edge)
      OBVIOUS
    <2>2. ack >= x.rcv_base
      BY <1>1, <1>4, <1>7, <2>1
    <2>3. Within(x, e, seen.edge)
      BY <1>9, <2>1
    <2> QED
      BY <1>1, <1>11, <1>12, <2>1, <2>2, <2>3 DEF Widens
  <1>15. late \in BOOLEAN
    OBVIOUS
  <1> HIDE DEF late
  <1>16. seen'.ack = base /\ seen'.edge = new /\ seen'.late = late
    BY <1>3
  <1>17. Healthy(y, seen'.edge, seen'.late)
    BY <1>11, <1>14, <1>16 DEF Healthy
  <1>18. Moving(y) /\ y.next_seqno >= x.next_seqno /\ y.rcv_base = base
    BY <1>7, <1>10, <1>13 DEF Acked
  <1>19. Underway(acks, y.next_seqno)
    <2>1. y.next_seqno \in Nat
      BY <1>17, HealthyFacts DEF Facts
    <2> QED
      BY <1>1, <1>7, <1>18, <2>1, StillUnderway
  <1>20. Heard(seen', y.rcv_base)
    BY <1>12, <1>15, <1>16, <1>18 DEF Heard
  <1>21. y.isn = Isn
    BY <1>3, <1>10 DEF Acked, Goes
  <1> QED
    BY <1>3, <1>17, <1>18, <1>19, <1>20, <1>21 DEF Inv, y

-----------------------------------------------------------------------------

\* A new sender: nothing is sent, the stream is empty.
IsNew(x, isn) ==
    /\ Good(x, <<0>>) /\ Within(x, <<0>>, 1) /\ Moving(x) /\ Spoken(x)
    /\ x.isn = isn /\ x.next_seqno = 0 /\ x.rcv_base = 0 /\ x.consecutive_retransmission = 0
    /\ x.segments_out = <<>> /\ x.stream.write_bytes = 0
LEMMA NewIsGood ==
    ASSUME NEW isn \in 0..Mod32 - 1, NEW x, x = S!New(Capacity, RtTimeout, isn)
    PROVE  IsNew(x, isn)
  <1> DEFINE e == <<0>>
  <1>1. x = S!New(Capacity, RtTimeout, isn)
    OBVIOUS
  <1>2. /\ Fixed(x) /\ x.outstanding_segments = <<>> /\ x.next_seqno = 0
        /\ x.bytes_in_flight = 0 /\ x.rcv_base = 0 /\ x.RTO = RtTimeout
        /\ x.consecutive_retransmission = 0 /\ x.time_elipsed = 0
        /\ x.receiver_window_size = 1 /\ x.stream = S!BS!New(Capacity)
    BY <1>1, SenderAssumption DEF S!New, Fixed, IsSender, SenderMembers
  <1>3. x.timer_running = FALSE /\ x.back_off = TRUE /\ x.syn_sent = FALSE /\ x.fin_sent = FALSE
    BY <1>1 DEF S!New
  <1>4. /\ IsStream(x.stream) /\ x.stream.capacity = Capacity /\ x.stream.buffer = <<>>
        /\ x.stream.read_bytes = 0 /\ x.stream.write_bytes = 0 /\ x.stream.input_end = FALSE
    BY <1>2 DEF S!BS!New, IsStream, StreamMembers
  <1>5. Streamed(x.stream)
    <2> DEFINE b == x.stream
    <2> HIDE DEF b
    <2>1. /\ b.buffer \in Seq(Nat) /\ Len(b.buffer) = 0 /\ b.read_bytes \in Nat
          /\ b.write_bytes \in 0..MaxBytes
          /\ Len(b.buffer) <= Capacity /\ Len(b.buffer) = b.write_bytes - b.read_bytes
      BY <1>4, SenderAssumption DEF b
    <2>2. 1..Len(b.buffer) = {}
      BY <2>1
    <2>3. \A i \in 1..Len(b.buffer) : b.buffer[i] = b.read_bytes + i
      BY <2>2
    <2>4. b.input_end \in BOOLEAN /\ IsStream(b) /\ b.capacity = Capacity
      BY <1>4 DEF b
    <2>5. Streamed(b)
      BY <2>1, <2>3, <2>4 DEF Streamed
    <2> QED
      BY <2>5 DEF b
  <1>6. Edges(x.isn, e, <<>>) /\ Len(e) = 1 /\ e[1] = 0
    BY DEF Edges
  <1> HIDE DEF e
  <1>7. Chain(x, e)
    BY <1>2, <1>6 DEF Chain
  <1>8. Timed(x)
    <2>1. x.timer_running \in BOOLEAN /\ x.back_off \in BOOLEAN
          /\ (x.timer_running <=> x.outstanding_segments # <<>>)
      BY <1>2, <1>3
    <2>2. /\ x.consecutive_retransmission \in 0..MAX_RETX_ATTEMPTS + 1
          /\ x.RTO = Doubled[x.consecutive_retransmission]
          /\ x.time_elipsed \in Nat /\ x.time_elipsed < x.RTO
      BY <1>2, DoubledFacts, SenderAssumption
    <2> QED
      BY <2>1, <2>2, Zenon DEF Timed
  <1>9. Numbered(x)
    <2>1. x.syn_sent \in BOOLEAN /\ x.fin_sent \in BOOLEAN /\ ~x.syn_sent /\ ~x.fin_sent
      BY <1>3
    <2>2. x.receiver_window_size \in 0..MaxWin + 1
      BY <1>2, SenderAssumption
    <2> QED
      BY <1>2, <1>4, <1>5, <2>1, <2>2, Zenon DEF Numbered
  <1>10. Good(x, e)
    BY <1>2, <1>7, <1>8, <1>9 DEF Good
  <1>11. Within(x, e, 1)
    <2>1. Bit(x.fin_sent) = 0 /\ S!ProbeWindow(x.receiver_window_size) = 1
      BY <1>2, <1>3 DEF Bit, S!ProbeWindow
    <2>2. Len(x.outstanding_segments) = 0
      BY <1>2
    <2> QED
      BY <1>2, <2>1, <2>2 DEF Within
  <1>12. Moving(x)
    BY <1>3 DEF Moving
  <1>13. x.isn = isn /\ x.segments_out = <<>>
    BY <1>1 DEF S!New
  <1>14. Spoken(x)
    BY <1>2, <1>13 DEF Spoken
  <1> QED
    BY <1>2, <1>4, <1>10, <1>11, <1>12, <1>13, <1>14 DEF IsNew, e

\* The initial state.
LEMMA InitInv == Init => Inv
  <1> SUFFICES ASSUME Init PROVE Inv
    OBVIOUS
  <1>1. /\ s = S!New(Capacity, RtTimeout, Isn) /\ acks = <<>>
        /\ seen = [ack |-> 0, edge |-> 1, late |-> FALSE]
    BY DEF Init
  <1>2. IsNew(s, Isn)
    BY <1>1, SenderAssumption, NewIsGood
  <1>3. seen.edge = 1 /\ seen.ack = 0 /\ seen.late = FALSE
    BY <1>1
  <1>4. Healthy(s, seen.edge, seen.late)
    BY <1>2, <1>3 DEF Healthy, IsNew
  <1>5. Underway(acks, s.next_seqno)
    BY <1>1 DEF Underway
  <1>6. Heard(seen, s.rcv_base)
    <2>1. seen.late \in BOOLEAN
      BY <1>3
    <2>2. seen.ack = s.rcv_base /\ seen.edge \in Nat
      BY <1>2, <1>3 DEF IsNew
    <2> QED
      BY <2>1, <2>2 DEF Heard
  <1> QED
    BY <1>2, <1>4, <1>5, <1>6 DEF Inv, IsNew

\* Every step keeps the invariant.
LEMMA NextInv == Inv /\ [Next]_vars => Inv'
  <1> SUFFICES ASSUME Inv, [Next]_vars PROVE Inv'
    OBVIOUS
  <1>1. CASE Connect
    BY <1>1, KeepsConnect
  <1>2. CASE \E n \in 1..MaxBytes : Write(n)
    BY <1>2, KeepsWrite
  <1>3. CASE EndInput
    BY <1>3, KeepsEndInput
  <1>4. CASE Tick(1)
    BY <1>4, KeepsTick
  <1>5. CASE \E ack \in 1..MaxBytes + 2, edge \in 1..MaxBytes + MaxWin + 2 : PeerAcks(ack, edge)
    BY <1>5, KeepsPeerAcks
  <1>6. CASE \E i \in DOMAIN acks : AckArrives(i)
    BY <1>6, KeepsAckArrives
  <1>7. CASE UNCHANGED vars
    BY <1>7 DEF vars, Inv
  <1> QED
    BY <1>1, <1>2, <1>3, <1>4, <1>5, <1>6, <1>7 DEF Next

\* The inductive invariant.
LEMMA AlwaysInv == Spec => []Inv
  BY InitInv, NextInv, PTL DEF Spec
-----------------------------------------------------------------------------

\* Counting back from next_seqno gives the edges.
LEMMA StartIsEdge ==
    ASSUME NEW e, Good(s, e), NEW i \in 1..Len(Out)
    PROVE  StartOf(i) = e[i]
  <1> DEFINE k == i - 1
             b == SubSeq(Out, k + 1, Len(Out))
             f == SubSeq(e, k + 1, Len(e))
  <1>1. Edges(s.isn, e, Out) /\ s.next_seqno = e[Len(e)]
    BY DEF Good, Chain, Out
  <1>2. Out \in Seq(SegmentSet) /\ Len(Out) \in Nat /\ e \in Seq(Nat) /\ Len(e) = Len(Out) + 1
    BY <1>1 DEF Edges
  <1>3. k \in 0..Len(Out) /\ k + 1 = i
    BY <1>2
  <1> HIDE DEF k
  <1>4. IsRest(s.isn, Out, e, k, b, f)
    BY <1>1, <1>3, EdgesDrop
  <1>5. StartOf(i) = s.next_seqno - S!TotalLength(b)
    BY <1>3 DEF StartOf
  <1> HIDE DEF b, f
  <1>6. Edges(s.isn, f, b) /\ Len(b) = Len(Out) - k
        /\ \A j \in 1..Len(Out) - k + 1 : f[j] = e[k + j]
    BY <1>4 DEF IsRest
  <1>7. Len(f) = Len(Out) - k + 1
    BY <1>6 DEF Edges
  <1>8. f[1] = e[i] /\ f[Len(f)] = e[Len(e)]
    <2>1. 1 \in 1..Len(Out) - k + 1 /\ Len(f) \in 1..Len(Out) - k + 1 /\ k + Len(f) = Len(e)
      BY <1>2, <1>3, <1>7
    <2> QED
      BY <1>3, <1>6, <2>1
  <1>9. S!TotalLength(b) = f[Len(f)] - f[1]
    BY <1>6, TotalIs
  <1>10. e[i] \in Nat /\ e[Len(e)] \in Nat
    <2>1. i \in 1..Len(e) /\ Len(e) \in 1..Len(e)
      BY <1>2
    <2> QED
      BY <1>2, <2>1, ElementOfSeq
  <1> QED
    BY <1>1, <1>5, <1>8, <1>9, <1>10

\* The retransmission timer runs exactly while a segment is outstanding, so that
\* tick() never takes the front of an empty queue and no segment is left without a
\* timer, whatever the application, the peer and the network do.
THEOREM TimerWhileOutstanding == Spec => []TimerIffOutstanding
  <1>1. Inv => TimerIffOutstanding
    BY HealthyFacts DEF Inv, Facts, Timed, TimerIffOutstanding, Out
  <1> QED
    BY <1>1, AlwaysInv, PTL

\* The timeout is the initial one doubled once for every retransmission counted since
\* the last acknowledgment of new data, and it has never passed unnoticed.
THEOREM BackoffIsDoubling == Spec => []BackoffMatchesCount
  <1>1. Inv => BackoffMatchesCount
    BY HealthyFacts, DoubledFacts DEF Inv, Facts, Timed, BackoffMatchesCount
  <1> QED
    BY <1>1, AlwaysInv, PTL

\* bytes_in_flight() counts the outstanding segments, which follow each other without
\* a gap up to next_seqno; the oldest holds the first number that is not acknowledged.
THEOREM FlightIsOutstanding == Spec => []FlightIsUnacked
  <1>1. ASSUME Inv PROVE FlightIsUnacked
    <2>1. PICK e : Good(s, e)
      BY <1>1 DEF Inv, Healthy
    <2>2. /\ Edges(s.isn, e, Out) /\ s.next_seqno = e[Len(e)] /\ s.bytes_in_flight = e[Len(e)] - e[1]
          /\ e[1] <= s.rcv_base /\ s.isn = Isn
          /\ IF Out = <<>> THEN s.rcv_base = s.next_seqno ELSE s.rcv_base < e[2]
      BY <1>1, <2>1 DEF Good, Chain, Out, Inv
    <2>3. seen.ack = s.rcv_base
      BY <1>1 DEF Inv, Heard
    <2>4. s.bytes_in_flight = S!TotalLength(Out)
      BY <2>2, TotalIs
    <2>5. Out \in Seq(SegmentSet) /\ DOMAIN Out = 1..Len(Out)
      BY <2>2 DEF Edges
    <2>6. ASSUME NEW i \in DOMAIN Out
          PROVE  Out[i].seqno = W!wrap(StartOf(i), Isn)
      <3>1. i \in 1..Len(Out)
        BY <2>5
      <3>2. StartOf(i) = e[i]
        BY <2>1, <3>1, StartIsEdge
      <3> QED
        BY <2>2, <3>1, <3>2 DEF Edges, Carries
    <2>7. CASE Out = <<>>
      BY <2>2, <2>3, <2>4, <2>6, <2>7 DEF FlightIsUnacked
    <2>8. CASE Out # <<>>
      <3>1. 1 \in 1..Len(Out)
        BY <2>5, <2>8
      <3>2. StartOf(1) = e[1]
        BY <2>1, <3>1, StartIsEdge
      <3>3. e[1 + 1] = e[1] + S!length_in_sequence_space(Out[1])
        BY <2>2, <3>1 DEF Edges, Length
      <3>4. StartOf(1) <= seen.ack /\ seen.ack < StartOf(1) + S!length_in_sequence_space(Out[1])
        BY <2>2, <2>3, <2>8, <3>2, <3>3
      <3> QED
        BY <2>4, <2>6, <2>8, <3>4 DEF FlightIsUnacked
    <2> QED
      BY <2>7, <2>8
  <1> QED
    BY <1>1, AlwaysInv, PTL

\* An outstanding segment carries the bytes that belong to its sequence numbers, and
\* what is left in the stream starts at next_seqno.
THEOREM PayloadIsStream == Spec => []DataMatchesSeqno
  <1>1. ASSUME Inv PROVE DataMatchesSeqno
    <2>1. PICK e : Good(s, e)
      BY <1>1 DEF Inv, Healthy
    <2>2. Edges(s.isn, e, Out) /\ Numbered(s)
      BY <2>1 DEF Good, Chain, Out
    <2>3. Out \in Seq(SegmentSet) /\ DOMAIN Out = 1..Len(Out)
      BY <2>2 DEF Edges
    <2>4. ASSUME NEW i \in DOMAIN Out, NEW j \in 1..MAX_PAYLOAD_SIZE, j <= Len(Out[i].payload)
          PROVE  Out[i].payload[j] = StartOf(i) + j - 1
      <3>1. i \in 1..Len(Out)
        BY <2>3
      <3>2. StartOf(i) = e[i]
        BY <2>1, <3>1, StartIsEdge
      <3>3. Carries(s.isn, Out[i], e[i])
        BY <2>2, <3>1 DEF Edges
      <3>4. j \in 1..Len(Out[i].payload)
        <4>1. Out[i].payload \in Seq(Nat)
          BY <3>3 DEF Carries
        <4> QED
          BY <2>4, <4>1, SenderAssumption
      <3> QED
        BY <3>2, <3>3, <3>4 DEF Carries
    <2>5. ASSUME s.syn_sent, ~BS!buffer_empty(s.stream)
          PROVE  s.stream.buffer[1] = s.next_seqno
      <3> DEFINE b == s.stream
      <3>1. Len(b.buffer) # 0 /\ b.buffer \in Seq(Nat) /\ b.read_bytes \in Nat
            /\ \A i \in 1..Len(b.buffer) : b.buffer[i] = b.read_bytes + i
        BY <2>2, <2>5 DEF Numbered, Streamed, BS!buffer_empty, BS!buffer_size
      <3>2. ~s.fin_sent
        BY <2>2, <3>1 DEF Numbered, Exhausted
      <3>3. Bit(s.fin_sent) = 0
        BY <3>2 DEF Bit
      <3>4. s.next_seqno = b.read_bytes + 1 + Bit(s.fin_sent)
        BY <2>2, <2>5 DEF Numbered
      <3>5. 1 \in 1..Len(b.buffer)
        BY <3>1
      <3>6. b.buffer[1] = b.read_bytes + 1
        BY <3>1, <3>5
      <3> QED
        BY <3>1, <3>3, <3>4, <3>6
    <2> QED
      BY <2>4, <2>5 DEF DataMatchesSeqno
  <1> QED
    BY <1>1, AlwaysInv, PTL

\* next_seqno == bytes_written + 2, by which TCPState tells that the FIN is sent, holds
\* exactly when _fin_sent is set, and then the stream has come to its end.
THEOREM FinIsLast == Spec => []FinEndsStream
  <1>1. ASSUME Inv PROVE FinEndsStream
    <2> DEFINE b == s.stream
    <2>1. Numbered(s)
      BY <1>1, HealthyFacts DEF Inv, Facts
    <2>2. /\ b.buffer \in Seq(Nat) /\ b.read_bytes \in Nat /\ b.write_bytes \in Nat
          /\ Len(b.buffer) = b.write_bytes - b.read_bytes
      BY <2>1 DEF Numbered, Streamed
    <2>3. CASE s.fin_sent
      <3>1. s.syn_sent /\ b.buffer = <<>> /\ b.input_end
        BY <2>1, <2>3 DEF Numbered, Exhausted
      <3>2. Bit(s.fin_sent) = 1 /\ s.next_seqno = b.read_bytes + 1 + Bit(s.fin_sent)
        BY <2>1, <2>3, <3>1 DEF Numbered, Bit
      <3>3. Len(b.buffer) = 0
        BY <3>1
      <3>4. s.next_seqno = b.write_bytes + 2
        BY <2>2, <3>2, <3>3
      <3>5. BS!eof(b)
        BY <3>1, <3>3 DEF BS!eof, BS!buffer_empty, BS!buffer_size, BS!input_ended
      <3> QED
        BY <2>3, <3>4, <3>5 DEF FinEndsStream
    <2>4. CASE ~s.fin_sent
      <3>1. Bit(s.fin_sent) = 0
        BY <2>4 DEF Bit
      <3>2. s.next_seqno = b.read_bytes + 1 + Bit(s.fin_sent) \/ s.next_seqno = 0
        BY <2>1 DEF Numbered
      <3>3. Len(b.buffer) \in Nat
        BY <2>2
      <3>4. s.next_seqno # b.write_bytes + 2
        BY <2>2, <3>1, <3>2, <3>3
      <3> QED
        BY <2>4, <3>4 DEF FinEndsStream
    <2> QED
      BY <2>3, <2>4
  <1> QED
    BY <1>1, AlwaysInv, PTL

\* With nothing in flight the sender has nothing left to send: no byte of the stream
\* and no FIN waits for a call that nobody will make.
THEOREM SomethingInFlight == Spec => []NeverStalls
  <1>1. ASSUME Inv PROVE NeverStalls
    <2>1. Moving(s)
      BY <1>1 DEF Inv
    <2>2. s.syn_sent /\ Out = <<>> => s.stream.buffer = <<>> /\ (s.stream.input_end => s.fin_sent)
      BY <2>1 DEF Moving, Out
    <2>3. s.stream.buffer = <<>> => BS!buffer_empty(s.stream)
      BY DEF BS!buffer_empty, BS!buffer_size
    <2> QED
      BY <2>2, <2>3 DEF NeverStalls
  <1> QED
    BY <1>1, AlwaysInv, PTL

\* While acknowledgments come in order, no payload is sent beyond the furthest edge of
\* the window the peer has offered, a window of zero counting as one.
THEOREM WindowRespected == Spec => []PayloadInWindow
  <1>1. ASSUME Inv PROVE PayloadInWindow
    <2> SUFFICES ASSUME ~seen.late, NEW i \in DOMAIN Out
                 PROVE  StartOf(i) + Len(Out[i].payload) <= seen.edge
      BY DEF PayloadInWindow
    <2>1. PICK e : Good(s, e) /\ Within(s, e, seen.edge)
      BY <1>1 DEF Inv, Healthy
    <2>2. Out \in Seq(SegmentSet)
      BY <2>1 DEF Good, Chain, Edges, Out
    <2>3. i \in 1..Len(Out)
      BY <2>2
    <2>4. StartOf(i) = e[i]
      BY <2>1, <2>3, StartIsEdge
    <2> QED
      BY <2>1, <2>3, <2>4 DEF Within, Out
  <1> QED
    BY <1>1, AlwaysInv, PTL

-----------------------------------------------------------------------------

\* A sender between two calls of its connection: what it has queued it may well say.
Talking(x) == Healthy(x, 0, TRUE) /\ Moving(x) /\ Spoken(x)

\* What the connection needs to know of it.
Talk(x) ==
    /\ IsSender(x) /\ IsStream(x.stream) /\ x.isn \in 0..Mod32 - 1
    /\ x.next_seqno \in Nat /\ x.next_seqno <= MaxBytes + 2
    /\ x.stream.write_bytes \in 0..MaxBytes /\ x.next_seqno <= x.stream.write_bytes + 2
    /\ x.syn_sent \in BOOLEAN /\ x.fin_sent \in BOOLEAN
    /\ x.syn_sent <=> x.next_seqno # 0
    /\ x.consecutive_retransmission \in Nat
    /\ x.segments_out \in Seq(Said(x.isn, x.stream.write_bytes))
    /\ x.outstanding_segments \in Seq(Said(x.isn, x.stream.write_bytes))
    /\ x.bytes_in_flight = 0 => x.outstanding_segments = <<>>
LEMMA TalkFacts ==
    ASSUME NEW x, Talking(x)
    PROVE  Talk(x)
  <1> DEFINE w == x.stream.write_bytes
             r == x.stream.read_bytes
             l == Len(x.stream.buffer)
  <1>1. Facts(x)
    BY HealthyFacts DEF Talking
  <1>2. /\ IsSender(x) /\ x.isn \in 0..Mod32 - 1 /\ x.next_seqno \in Nat
        /\ x.next_seqno <= MaxBytes + 2
        /\ x.syn_sent \in BOOLEAN /\ x.fin_sent \in BOOLEAN
    BY <1>1 DEF Facts, Fixed
  <1>3. IsStream(x.stream) /\ w \in 0..MaxBytes /\ r \in Nat /\ l = w - r /\ l \in Nat
    BY <1>1 DEF Facts, Streamed
  <1>4. /\ x.syn_sent => x.next_seqno = r + 1 + Bit(x.fin_sent)
        /\ ~x.syn_sent => x.next_seqno = 0
    BY <1>1 DEF Facts, Numbered
  <1>5. Bit(x.fin_sent) \in {0, 1}
    BY BitType
  <1> HIDE DEF w, r, l
  <1>6. (x.syn_sent <=> x.next_seqno # 0) /\ x.next_seqno <= w + 2
    BY <1>2, <1>3, <1>4, <1>5, SenderAssumption
  <1>7. x.consecutive_retransmission \in Nat
    BY <1>1, SenderAssumption DEF Facts, Timed
  <1>8. ASSUME x.bytes_in_flight = 0
        PROVE  x.outstanding_segments = <<>>
    <2> DEFINE q == x.outstanding_segments
    <2>1. PICK e : Good(x, e)
      BY DEF Talking, Healthy
    <2>2. Edges(x.isn, e, q) /\ e[Len(e)] - e[1] = 0
      BY <1>8, <2>1 DEF Good, Chain
    <2>3. SUFFICES ASSUME q # <<>> PROVE FALSE
      OBVIOUS
    <2>4. q \in Seq(SegmentSet) /\ e \in Seq(Nat) /\ Len(e) = Len(q) + 1
      BY <2>2 DEF Edges
    <2>5. Len(q) \in Nat \ {0}
      BY <2>3, <2>4
    <2>6. 1 \in 1..Len(q) /\ 1 \in 1..Len(e) /\ 2 \in 1..Len(e) /\ Len(e) \in 2..Len(e)
          /\ Len(e) \in 1..Len(e)
      BY <2>4, <2>5
    <2>7. e[1] \in Nat /\ e[2] \in Nat /\ e[Len(e)] \in Nat
      BY <2>4, <2>6, ElementOfSeq
    <2>8. e[2] <= e[Len(e)]
      BY <2>2, <2>6, EdgesGrow
    <2>9. e[1 + 1] = e[1] + Length(q[1]) /\ Length(q[1]) >= 1
      BY <2>2, <2>6 DEF Edges, Carries
    <2>10. Length(q[1]) \in Nat
      BY <2>4, <2>6, ElementOfSeq, LengthType
    <2> QED
      BY <2>2, <2>7, <2>8, <2>9, <2>10
  <1>9. /\ x.segments_out \in Seq(Said(x.isn, w)) /\ x.outstanding_segments \in Seq(Said(x.isn, w))
    BY DEF Talking, Spoken, w
  <1> QED
    BY <1>2, <1>3, <1>6, <1>7, <1>8, <1>9 DEF Talk, w

\* What may be said of a stream may be said of a longer one.
LEMMA SaysMore ==
    ASSUME NEW isn, NEW q, NEW v \in Nat, NEW w \in Nat, v <= w, Says(isn, q, v),
           Len(q.payload) \in Nat
    PROVE  Says(isn, q, w)
  <1> DEFINE l == Len(q.payload)
  <1>1. PICK n \in 0..v + 2 :
            /\ q.seqno = W!wrap(n, isn) /\ (q.syn <=> n = 0)
            /\ q.syn => q.payload = <<>>
            /\ \A j \in 1..Len(q.payload) : q.payload[j] = n + j - 1
            /\ q.payload = <<>> \/ n + Len(q.payload) <= v + 1
    BY DEF Says
  <1>2. q.payload = <<>> \/ n + l <= w + 1
    <2>1. q.payload = <<>> \/ n + l <= v + 1
      BY <1>1
    <2> HIDE DEF l
    <2> QED
      BY <2>1 DEF l
  <1>3. n \in 0..w + 2
    OBVIOUS
  <1> QED
    BY <1>1, <1>2, <1>3 DEF Says

\* unwrap finds a number that wraps to what it was given.
LEMMA Rewrapped ==
    ASSUME NEW isn \in Int, NEW n \in 0..Mod32 - 1, NEW c \in 0..MaxBytes + 2
    PROVE  S!W!unwrap(n, isn, c) \in Nat /\ W!wrap(S!W!unwrap(n, isn, c), isn) = n
  <1> DEFINE k == Mod64 \div 2
  <1>1. NP!Widths
    BY SenderAssumption DEF NP!Widths
  <1>2. NP!InRange(c)
    <2>1. MaxBytes + 2 + Mod32 <= k /\ k \in Int /\ Mod32 \in Nat /\ MaxBytes \in Nat
      BY ShortStream, SenderAssumption
    <2> HIDE DEF k
    <2>2. c \in Nat /\ c + Mod32 <= k
      BY <2>1
    <2> QED
      BY <2>2 DEF NP!InRange, k
  <1>3. NP!unwrap(n, isn, c) \in Nat /\ NP!wrap(NP!unwrap(n, isn, c), isn) = n
    BY <1>1, <1>2, NP!UnwrapValue
  <1>4. \A m : NP!wrap(m, isn) = W!wrap(m, isn)
    BY DEF NP!wrap, W!wrap
  <1>5. NP!unwrap(n, isn, c) = S!W!unwrap(n, isn, c)
    BY DEF NP!unwrap, S!W!unwrap, NP!difference, S!W!difference, NP!AsSigned, S!W!AsSigned,
           NP!wrap, S!W!wrap
  <1> QED
    BY <1>3, <1>4, <1>5

\* A longer stream has said what a shorter one has.
LEMMA SaidMore ==
    ASSUME NEW isn, NEW v \in Nat, NEW w \in Nat, v <= w
    PROVE  Said(isn, v) \subseteq Said(isn, w)
  <1> SUFFICES ASSUME NEW q \in Said(isn, v) PROVE q \in Said(isn, w)
    OBVIOUS
  <1>1. q \in SegmentSet /\ Says(isn, q, v)
    BY DEF Said
  <1>3. Len(q.payload) \in Nat
    BY <1>1 DEF SegmentSet, S!Segment
  <1>2. Says(isn, q, w)
    BY <1>1, <1>3, SaysMore
  <1> QED
    BY <1>1, <1>2 DEF Said

\* The constructor.
LEMMA TalkNew ==
    ASSUME NEW isn \in 0..Mod32 - 1, NEW x, x = S!New(Capacity, RtTimeout, isn)
    PROVE  /\ Talking(x) /\ x.isn = isn /\ x.consecutive_retransmission = 0
           /\ x.segments_out = <<>> /\ x.stream.write_bytes = 0
  <1>1. IsNew(x, isn)
    BY NewIsGood
  <1> QED
    BY <1>1 DEF IsNew, Talking, Healthy

\* What a queue of segments may be replaced by.
Queues(x, z, q) ==
    /\ Talking(z) /\ Goes(x, z) /\ z.segments_out = q /\ z.stream = x.stream
    /\ z.consecutive_retransmission = x.consecutive_retransmission
    /\ z.fin_sent = x.fin_sent /\ z.outstanding_segments = x.outstanding_segments
    /\ z.bytes_in_flight = x.bytes_in_flight /\ z.syn_sent = x.syn_sent
LEMMA TalkQueue ==
    ASSUME NEW x, Talking(x), NEW q \in Seq(Said(x.isn, x.stream.write_bytes)),
           NEW z, z = [x EXCEPT !.segments_out = q]
    PROVE  Queues(x, z, q)
  <1>1. Healthy(z, 0, TRUE) /\ Drains(x, z) /\ z.segments_out = q
    BY Requeued DEF Talking
  <1>2. /\ z.isn = x.isn /\ z.stream = x.stream /\ z.syn_sent = x.syn_sent
        /\ z.fin_sent = x.fin_sent /\ z.outstanding_segments = x.outstanding_segments
        /\ z.consecutive_retransmission = x.consecutive_retransmission
        /\ z.bytes_in_flight = x.bytes_in_flight
    BY <1>1 DEF Drains, SameQueue
  <1>3. Moving(z)
    BY <1>2 DEF Talking, Moving
  <1>4. Spoken(z)
    BY <1>1, <1>2 DEF Talking, Spoken
  <1>5. Goes(x, z)
    BY <1>2 DEF Goes
  <1> QED
    BY <1>1, <1>2, <1>3, <1>4, <1>5 DEF Talking, Queues

\* fill_window, of which it is enough that the queues are what may be said.
LEMMA TalkFill ==
    ASSUME NEW x, Healthy(x, 0, TRUE), Spoken(x), NEW y, y = S!fill_window(x)
    PROVE  Talking(y) /\ Goes(x, y) /\ y.syn_sent
  BY FillHealthy DEF Talking

\* ack_received, whatever the ackno is.
LEMMA TalkAck ==
    ASSUME NEW x, Talking(x), NEW ackno \in 0..Mod32 - 1, NEW ws \in 0..MaxWin,
           NEW y, y = S!ack_received(x, ackno, ws)
    PROVE  Talking(y) /\ Goes(x, y)
  <1> DEFINE a == S!W!unwrap(ackno, x.isn, x.rcv_base)
  <1>1. PICK e : Good(x, e)
    BY DEF Talking, Healthy
  <1>2. /\ x.next_seqno \in Nat /\ x.next_seqno <= MaxBytes + 2 /\ x.rcv_base \in Nat
        /\ x.rcv_base <= x.next_seqno /\ x.isn \in Int
    BY <1>1, Bounds DEF Good, Fixed
  <1>3. a \in Nat /\ W!wrap(a, x.isn) = ackno
    <2>1. x.rcv_base \in 0..MaxBytes + 2
      BY <1>2, SenderAssumption
    <2> QED
      BY <1>2, <2>1, Rewrapped
  <1>4. CASE a > x.next_seqno
    <2>1. y = x
      BY <1>4 DEF S!ack_received
    <2> QED
      BY <2>1 DEF Goes
  <1>5. CASE ~(a > x.next_seqno)
    <2> HIDE DEF a
    <2>1. a <= x.next_seqno
      BY <1>2, <1>3, <1>5
    <2>2. Acked(x, e, y, a, ws)
      <3>1. y = S!ack_received(x, W!wrap(a, x.isn), ws)
        BY <1>3
      <3>2. Moving(x)
        BY DEF Talking
      <3> QED
        BY <1>1, <1>3, <2>1, <3>1, <3>2, AckReceived
    <2> QED
      BY <2>2 DEF Acked, Talking, Healthy
  <1> QED
    BY <1>4, <1>5

\* tick: a retransmission leaves something in the queue.
LEMMA TalkTick ==
    ASSUME NEW x, Talking(x), x.consecutive_retransmission <= MAX_RETX_ATTEMPTS,
           NEW y, y = S!tick(x, 1)
    PROVE  /\ Talking(y) /\ y.isn = x.isn /\ y.stream = x.stream /\ y.syn_sent = x.syn_sent
           /\ y.consecutive_retransmission > MAX_RETX_ATTEMPTS => y.segments_out # <<>>
  <1>1. Facts(x)
    BY HealthyFacts DEF Talking
  <1>2. /\ Fixed(y) /\ Timed(y) /\ SameChain(x, y) /\ y.stream = x.stream
        /\ y.syn_sent = x.syn_sent /\ y.fin_sent = x.fin_sent
        /\ y.receiver_window_size = x.receiver_window_size
        /\ \/ y.segments_out = x.segments_out
              /\ y.consecutive_retransmission = x.consecutive_retransmission
           \/ /\ x.outstanding_segments # <<>>
              /\ y.segments_out = Append(x.segments_out, Head(x.outstanding_segments))
    BY <1>1, TickTimed
  <1>3. Streamed(y.stream) /\ y.stream.read_bytes = x.stream.read_bytes
        /\ (x.fin_sent => Exhausted(y.stream))
    BY <1>1, <1>2 DEF Facts
  <1>4. Healthy(y, 0, TRUE)
    BY <1>2, <1>3, Changed DEF Talking
  <1>5. y.isn = x.isn /\ y.outstanding_segments = x.outstanding_segments
    BY <1>2 DEF SameChain
  <1>6. Moving(y)
    BY <1>2, <1>5 DEF Talking, Moving
  <1> DEFINE T == Said(x.isn, x.stream.write_bytes)
             o == x.outstanding_segments
             q == x.segments_out
  <1>7. o \in Seq(T) /\ q \in Seq(T)
    BY DEF Talking, Spoken
  <1>8. /\ y.segments_out \in Seq(T)
        /\ y.consecutive_retransmission > MAX_RETX_ATTEMPTS => y.segments_out # <<>>
    <2>1. CASE /\ y.segments_out = x.segments_out
               /\ y.consecutive_retransmission = x.consecutive_retransmission
      <3> HIDE DEF T
      <3>1. x.consecutive_retransmission \in Nat /\ MAX_RETX_ATTEMPTS \in Nat
        BY <1>1, SenderAssumption DEF Facts, Timed
      <3> QED
        BY <1>7, <2>1, <3>1
    <2>2. CASE /\ x.outstanding_segments # <<>>
               /\ y.segments_out = Append(x.segments_out, Head(x.outstanding_segments))
      <3>1. o # <<>> /\ y.segments_out = Append(q, Head(o))
        BY <2>2
      <3> HIDE DEF T, o, q
      <3>2. Head(o) \in T
        BY <1>7, <3>1
      <3>3. Append(q, Head(o)) \in Seq(T) /\ Append(q, Head(o)) # <<>>
        BY <1>7, <3>2
      <3> QED
        BY <3>1, <3>3
    <2> QED
      BY <1>2, <2>1, <2>2
  <1>9. Spoken(y)
    BY <1>2, <1>5, <1>7, <1>8 DEF Spoken
  <1> QED
    BY <1>2, <1>4, <1>5, <1>6, <1>8, <1>9 DEF Talking

\* send_empty_segment, once the SYN has been sent.
LEMMA TalkEmpty ==
    ASSUME NEW x, Talking(x), x.syn_sent, NEW y, y = S!send_empty_segment(x)
    PROVE  /\ Talking(y) /\ Goes(x, y) /\ y.segments_out # <<>>
           /\ y.stream = x.stream
  <1> DEFINE n == x.next_seqno
             w == x.stream.write_bytes
             v == S!W!wrap(n, x.isn)
             q == S!Segment(v, FALSE, FALSE, <<>>)
             T == Said(x.isn, w)
             o == x.segments_out
             p == Append(o, q)
  <1>1. /\ n \in Nat /\ n <= w + 2 /\ w \in Nat /\ n # 0 /\ o \in Seq(T) /\ x.isn \in Int
    BY TalkFacts DEF Talk
  <1>2. v \in Int /\ v = W!wrap(n, x.isn)
    <2> HIDE DEF n
    <2>1. S!W!wrap(n, x.isn) \in Int
      BY <1>1, SenderAssumption DEF S!W!wrap
    <2> QED
      BY <2>1 DEF S!W!wrap, W!wrap
  <1> HIDE DEF v
  <1>3. IsSegment(q, v, FALSE, FALSE, <<>>)
    <2>1. <<>> \in Seq(Nat) /\ FALSE \in BOOLEAN
      OBVIOUS
    <2> QED
      BY <1>2, <2>1, SegmentMembers
  <1>4. q \in T
    <2>1. q \in SegmentSet /\ q.seqno = v /\ q.syn = FALSE /\ q.payload = <<>>
      BY <1>3 DEF IsSegment
    <2> HIDE DEF q, n, w
    <2>2. n \in 0..w + 2
      BY <1>1
    <2>3. Len(q.payload) = 0
      BY <2>1
    <2>4. Says(x.isn, q, w)
      BY <1>1, <1>2, <2>1, <2>2, <2>3 DEF Says
    <2> QED
      BY <2>1, <2>4 DEF Said
  <1>5. y = [x EXCEPT !.segments_out = p]
    BY DEF S!send_empty_segment, v
  <1> HIDE DEF q, T, o
  <1>6. p \in Seq(T) /\ p # <<>>
    BY <1>1, <1>4
  <1> HIDE DEF p
  <1>7. Queues(x, y, p)
    BY <1>5, <1>6, TalkQueue DEF T, w
  <1> QED
    BY <1>6, <1>7, Zenon DEF Queues

\* A stream to which something was written, or which has ended or failed.
Streams(x, z, d) ==
    /\ Healthy(z, 0, TRUE) /\ Spoken(z) /\ z.isn = x.isn /\ z.stream = d
    /\ z.syn_sent = x.syn_sent /\ z.fin_sent = x.fin_sent
    /\ z.segments_out = x.segments_out
    /\ z.outstanding_segments = x.outstanding_segments
    /\ z.consecutive_retransmission = x.consecutive_retransmission
LEMMA TalkStream ==
    ASSUME NEW x, Talking(x), NEW d, Streamed(d), d.read_bytes = x.stream.read_bytes,
           x.fin_sent => Exhausted(d), d.write_bytes >= x.stream.write_bytes,
           NEW z, z = [x EXCEPT !.stream = d]
    PROVE  Streams(x, z, d)
  <1>1. Healthy(x, 0, TRUE)
    BY DEF Talking
  <1>2. /\ Healthy(z, 0, TRUE) /\ z.isn = x.isn /\ z.stream = d /\ z.syn_sent = x.syn_sent
        /\ z.fin_sent = x.fin_sent
        /\ z.outstanding_segments = x.outstanding_segments
        /\ z.segments_out = x.segments_out
        /\ z.consecutive_retransmission = x.consecutive_retransmission
    <2>1. Healthy(z, 0, TRUE) /\ HasStream(x, z, d)
      BY <1>1, Restreamed
    <2> QED
      BY <2>1, Zenon DEF HasStream
  <1> DEFINE w == x.stream.write_bytes
             v == d.write_bytes
             T == Said(x.isn, w)
             U == Said(x.isn, v)
             o == x.outstanding_segments
             q == x.segments_out
  <1>3. w \in Nat /\ v \in Nat /\ w <= v
    BY TalkFacts DEF Talk, Streamed
  <1>4. o \in Seq(T) /\ q \in Seq(T)
    BY DEF Talking, Spoken
  <1> HIDE DEF w, v
  <1>5. T \subseteq U
    BY <1>3, SaidMore
  <1> HIDE DEF T, U, o, q
  <1>6. o \in Seq(U) /\ q \in Seq(U)
    BY <1>4, <1>5
  <1>7. Spoken(z)
    BY <1>2, <1>6 DEF Spoken, U, o, q, v
  <1> QED
    BY <1>2, <1>7 DEF Streams

\* An application's bytes, the k-th of which is k.
LEMMA TalkWrite ==
    ASSUME NEW x, Talking(x), ~x.stream.input_end, NEW n \in Nat,
           x.stream.write_bytes + n <= MaxBytes, n <= BS!remaining_capacity(x.stream),
           NEW y, y = S!fill_window([x EXCEPT !.stream =
                          BS!write(@, [i \in 1..n |-> x.stream.write_bytes + i])])
    PROVE  /\ Talking(y) /\ y.isn = x.isn /\ y.syn_sent
           /\ y.stream.write_bytes = x.stream.write_bytes + n
           /\ y.consecutive_retransmission \in {0, x.consecutive_retransmission}
  <1> DEFINE b == x.stream
             d == BS!write(b, [i \in 1..n |-> b.write_bytes + i])
             z == [x EXCEPT !.stream = d]
  <1>1. Facts(x)
    BY HealthyFacts DEF Talking
  <1>2. Streamed(b) /\ b.write_bytes \in Nat
    BY <1>1 DEF Facts, Streamed
  <1>3. /\ Streamed(d) /\ d.read_bytes = b.read_bytes /\ d.input_end = b.input_end
        /\ d.write_bytes = b.write_bytes + n
    BY <1>2, WriteStream
  <1>4. ~x.fin_sent
    BY <1>1 DEF Facts, Exhausted
  <1>5. y = S!fill_window(z)
    OBVIOUS
  <1> HIDE DEF d
  <1>6. d.write_bytes >= b.write_bytes
    BY <1>2, <1>3
  <1>9. Streams(x, z, d)
    BY <1>3, <1>4, <1>6, TalkStream
  <1>7. /\ Healthy(z, 0, TRUE) /\ Spoken(z) /\ z.isn = x.isn /\ z.stream = d
        /\ z.consecutive_retransmission = x.consecutive_retransmission
    BY <1>9, Zenon DEF Streams
  <1> HIDE DEF z
  <1>8. Talking(y) /\ Goes(z, y) /\ y.syn_sent
    BY <1>5, <1>7, TalkFill
  <1> QED
    BY <1>3, <1>7, <1>8 DEF Goes

\* The same, of the sender that write() leaves.
AfterWrite(x, n) ==
    S!fill_window([x EXCEPT !.stream =
                       BS!write(@, [i \in 1..n |-> x.stream.write_bytes + i])])
LEMMA TalkWritten ==
    ASSUME NEW x, Talking(x), ~x.stream.input_end, NEW n \in Nat,
           x.stream.write_bytes + n <= MaxBytes, n <= BS!remaining_capacity(x.stream)
    PROVE  LET y == AfterWrite(x, n)
           IN  /\ Talking(y) /\ y.isn = x.isn /\ y.syn_sent
               /\ y.stream.write_bytes = x.stream.write_bytes + n
               /\ y.consecutive_retransmission \in {0, x.consecutive_retransmission}
  BY TalkWrite DEF AfterWrite

\* The end of an application's stream.
LEMMA TalkEnd ==
    ASSUME NEW x, Talking(x),
           NEW y, y = S!fill_window([x EXCEPT !.stream = BS!end_input(@)])
    PROVE  /\ Talking(y) /\ y.isn = x.isn /\ y.syn_sent
           /\ y.stream.write_bytes = x.stream.write_bytes
           /\ y.consecutive_retransmission \in {0, x.consecutive_retransmission}
  <1> DEFINE b == x.stream
             d == BS!end_input(b)
             z == [x EXCEPT !.stream = d]
  <1>1. Facts(x)
    BY HealthyFacts DEF Talking
  <1>2. Streamed(b) /\ b.write_bytes \in Nat
    BY <1>1 DEF Facts, Streamed
  <1>3. /\ Streamed(d) /\ d.read_bytes = b.read_bytes /\ d.input_end = TRUE
        /\ d.write_bytes = b.write_bytes /\ d.buffer = b.buffer
    BY <1>2, EndStream
  <1>4. x.fin_sent => Exhausted(d)
    BY <1>1, <1>3 DEF Facts, Exhausted
  <1>5. y = S!fill_window(z)
    OBVIOUS
  <1> HIDE DEF d
  <1>6. d.write_bytes >= b.write_bytes
    BY <1>2, <1>3
  <1>9. Streams(x, z, d)
    BY <1>3, <1>4, <1>6, TalkStream
  <1>7. /\ Healthy(z, 0, TRUE) /\ Spoken(z) /\ z.isn = x.isn /\ z.stream = d
        /\ z.consecutive_retransmission = x.consecutive_retransmission
    BY <1>9, Zenon DEF Streams
  <1> HIDE DEF z
  <1>8. Talking(y) /\ Goes(z, y) /\ y.syn_sent
    BY <1>5, <1>7, TalkFill
  <1> QED
    BY <1>3, <1>7, <1>8 DEF Goes

\* A stream that fails.
LEMMA TalkError ==
    ASSUME NEW x, Talking(x), NEW z, z = [x EXCEPT !.stream = BS!set_error(@)]
    PROVE  /\ Talking(z) /\ Goes(x, z) /\ z.segments_out = x.segments_out
           /\ z.consecutive_retransmission = x.consecutive_retransmission
  <1> DEFINE b == x.stream
             d == BS!set_error(b)
  <1>1. Facts(x)
    BY HealthyFacts DEF Talking
  <1>2. Streamed(b) /\ b.write_bytes \in Nat
    BY <1>1 DEF Facts, Streamed
  <1>3. IsStream(d) /\ d.capacity = b.capacity /\ d.input_end = b.input_end
        /\ d.write_bytes = b.write_bytes /\ d.read_bytes = b.read_bytes
        /\ d.buffer = b.buffer
    <2>1. IsStream(b)
      BY <1>2 DEF Streamed
    <2>2. d = [b EXCEPT !.error = TRUE]
      BY DEF BS!set_error
    <2> HIDE DEF b, d
    <2> QED
      BY <2>1, <2>2 DEF IsStream, StreamMembers
  <1>4. z = [x EXCEPT !.stream = d]
    OBVIOUS
  <1> HIDE DEF d
  <1>5. Streamed(d)
    BY <1>2, <1>3, Zenon DEF Streamed
  <1>6. x.fin_sent => Exhausted(d)
    BY <1>1, <1>3 DEF Facts, Exhausted
  <1>7. d.write_bytes >= b.write_bytes
    BY <1>2, <1>3
  <1>8. /\ Healthy(z, 0, TRUE) /\ Spoken(z) /\ z.isn = x.isn /\ z.stream = d
        /\ z.syn_sent = x.syn_sent /\ z.fin_sent = x.fin_sent
        /\ z.segments_out = x.segments_out
        /\ z.outstanding_segments = x.outstanding_segments
        /\ z.consecutive_retransmission = x.consecutive_retransmission
    <2>1. Streams(x, z, d)
      BY <1>3, <1>4, <1>5, <1>6, <1>7, TalkStream
    <2> QED
      BY <2>1, Zenon DEF Streams
  <1>9. Moving(z)
    BY <1>3, <1>8 DEF Moving, Talking
  <1>10. Goes(x, z)
    BY <1>3, <1>8 DEF Goes
  <1> QED
    BY <1>8, <1>9, <1>10 DEF Talking
=============================================================================
