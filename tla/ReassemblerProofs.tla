------------------------- MODULE ReassemblerProofs -------------------------
(***************************************************************************)
(* ReassemblerSpec for every stream and every capacity: the invariants the *)
(* run reassembler checks, and that the class implements the set of        *)
(* positions of ReassemblerAbstract.  Every node holds the bytes of its    *)
(* positions, so that it is known by the two ends of the interval it       *)
(* covers, and merging nodes is merging intervals.                         *)
(***************************************************************************)
EXTENDS ReassemblerSpec, FiniteSetTheorems, SequenceTheorems, TLAPS

NP == INSTANCE NumberProofs WITH Mod32 <- Mod64

-----------------------------------------------------------------------------
\* Bytes: pieces of the stream.

\* A piece of the stream is a sequence of as many bytes as it says.
LEMMA BytesType ==
    ASSUME NEW a \in Nat, NEW n \in Nat
    PROVE  /\ Bytes(a, n) \in Seq(Nat) /\ Len(Bytes(a, n)) = n
           /\ \A i \in 1..n : Bytes(a, n)[i] = a + i
  BY DEF Bytes

\* Two pieces that follow each other are one.
JoinIs(a, m, n) == Bytes(a, m) \o Bytes(a + m, n) = Bytes(a, m + n)

\* Joining two such pieces.
LEMMA BytesJoin ==
    ASSUME NEW a \in Nat, NEW m \in Nat, NEW n \in Nat
    PROVE  JoinIs(a, m, n)
  <1> DEFINE p == Bytes(a, m)
             q == Bytes(a + m, n)
             w == Bytes(a, m + n)
  <1>1. /\ p \in Seq(Nat) /\ Len(p) = m
        /\ \A i \in 1..m : p[i] = a + i
    BY BytesType
  <1>2. /\ q \in Seq(Nat) /\ Len(q) = n
        /\ \A i \in 1..n : q[i] = (a + m) + i
    <2>1. a + m \in Nat
      OBVIOUS
    <2> QED
      BY <2>1, BytesType
  <1>3. /\ w \in Seq(Nat) /\ Len(w) = m + n
        /\ \A i \in 1..m + n : w[i] = a + i
    <2>1. m + n \in Nat
      OBVIOUS
    <2> QED
      BY <2>1, BytesType
  <1> HIDE DEF p, q, w
  <1>4. p \o q \in Seq(Nat) /\ Len(p \o q) = m + n
    BY <1>1, <1>2
  <1>5. ASSUME NEW i \in 1..m + n
        PROVE  (p \o q)[i] = w[i]
    <2>1. CASE i <= m
      <3>1. (p \o q)[i] = p[i] /\ i \in 1..m
        BY <1>1, <1>2, <2>1
      <3> QED
        BY <3>1, <1>1, <1>3
    <2>2. CASE i > m
      <3>1. (p \o q)[i] = q[i - m] /\ i - m \in 1..n
        BY <1>1, <1>2, <2>2
      <3> QED
        BY <3>1, <1>2, <1>3
    <2>3. i <= m \/ i > m
      OBVIOUS
    <2> QED
      BY <2>1, <2>2, <2>3
  <1>6. p \o q = w
    BY <1>3, <1>4, <1>5, SeqEqual
  <1> QED
    BY <1>6 DEF p, q, w, JoinIs

\* What is left of a piece without its first i bytes and behind its j-th.
PartIs(a, n, i, j) == SubSeq(Bytes(a, n), i + 1, j) = Bytes(a + i, j - i)

\* Cutting such a piece out.
LEMMA BytesPart ==
    ASSUME NEW a \in Nat, NEW n \in Nat, NEW i \in Nat, NEW j \in Nat, i <= j, j <= n
    PROVE  PartIs(a, n, i, j)
  <1> DEFINE p == Bytes(a, n)
             q == SubSeq(p, i + 1, j)
             w == Bytes(a + i, j - i)
  <1>1. /\ p \in Seq(Nat) /\ Len(p) = n
        /\ \A k \in 1..n : p[k] = a + k
    BY BytesType
  <1>2. j - i \in Nat /\ a + i \in Nat
    OBVIOUS
  <1>3. /\ w \in Seq(Nat) /\ Len(w) = j - i
        /\ \A k \in 1..j - i : w[k] = (a + i) + k
    BY <1>2, BytesType
  <1> HIDE DEF p, w
  <1>4. /\ q \in Seq(Nat) /\ Len(q) = j - i
        /\ \A k \in 1..j - i : q[k] = p[i + k]
    BY <1>1, SubSeqProperties
  <1> HIDE DEF q
  <1>5. ASSUME NEW k \in 1..j - i
        PROVE  q[k] = w[k]
    <2>1. i + k \in 1..n
      OBVIOUS
    <2> QED
      BY <1>1, <1>3, <1>4, <2>1
  <1>6. q = w
    BY <1>3, <1>4, <1>5, SeqEqual
  <1> QED
    BY <1>6 DEF p, q, w, PartIs

-----------------------------------------------------------------------------
\* Nodes: intervals.

\* The node that covers the positions from a up to b.
Piece(a, b) == SR!Node(a, Bytes(a, b - a))
IsNode(n) == \E a, b \in Nat : a <= b /\ n = Piece(a, b)

Cover(n) == n.idx..SR!EndOf(n) - 1
Size(n) == SR!EndOf(n) - n.idx

\* Bytes are missing between any two of some nodes.
Apart(nodes) ==
    \A n, m \in nodes : n # m => SR!EndOf(n) < m.idx \/ SR!EndOf(m) < n.idx

\* The members of a piece.
LEMMA PieceMembers ==
    ASSUME NEW a \in Nat, NEW b \in Nat, a <= b
    PROVE  /\ Piece(a, b).idx = a /\ Piece(a, b).data = Bytes(a, b - a)
           /\ Len(Piece(a, b).data) = b - a /\ SR!EndOf(Piece(a, b)) = b
           /\ IsNode(Piece(a, b))
  <1>1. b - a \in Nat
    OBVIOUS
  <1>2. Len(Bytes(a, b - a)) = b - a
    BY <1>1, BytesType
  <1>3. Piece(a, b).idx = a /\ Piece(a, b).data = Bytes(a, b - a)
    BY DEF Piece, SR!Node
  <1>4. SR!EndOf(Piece(a, b)) = b
    BY <1>1, <1>2, <1>3 DEF SR!EndOf
  <1> QED
    BY <1>2, <1>3, <1>4 DEF IsNode

\* A node is the piece between its two ends.
LEMMA NodeIsPiece ==
    ASSUME NEW n, IsNode(n)
    PROVE  /\ n.idx \in Nat /\ SR!EndOf(n) \in Nat /\ n.idx <= SR!EndOf(n)
           /\ Len(n.data) = SR!EndOf(n) - n.idx
           /\ n = Piece(n.idx, SR!EndOf(n)) /\ n.data = Bytes(n.idx, SR!EndOf(n) - n.idx)
  <1>1. PICK a \in Nat, b \in Nat : a <= b /\ n = Piece(a, b)
    BY DEF IsNode
  <1> QED
    BY <1>1, PieceMembers

\* merge_to on two intervals.  A gap leaves them alone ...
LEMMA MergeGap ==
    ASSUME NEW n, NEW m, IsNode(n), IsNode(m),
           SR!EndOf(n) < m.idx \/ SR!EndOf(m) < n.idx
    PROVE  SR!merge_to(n, m).overlap = -1
  BY NodeIsPiece DEF SR!merge_to, SR!Gap

\* ... and otherwise the one that starts later only adds what it has behind the
\* other one's end ...
LEMMA JoinNodes ==
    ASSUME NEW p, NEW q, IsNode(p), IsNode(q), p.idx <= q.idx,
           ~(SR!EndOf(p) < q.idx), ~(SR!EndOf(p) >= SR!EndOf(q))
    PROVE  SR!Node(p.idx, p.data \o
                   SubSeq(q.data, SR!EndOf(p) - q.idx + 1, Len(q.data)))
           = Piece(p.idx, SR!EndOf(q))
  <1> DEFINE a == p.idx
             b == SR!EndOf(p)
             c == q.idx
             d == SR!EndOf(q)
             k == Len(q.data)
  <1>1. /\ a \in Nat /\ b \in Nat /\ c \in Nat /\ d \in Nat
        /\ a <= b /\ c <= d /\ a <= c /\ ~(b < c) /\ ~(b >= d) /\ k = d - c
    BY NodeIsPiece
  <1>2. p.data = Bytes(a, b - a) /\ q.data = Bytes(c, d - c)
    BY NodeIsPiece
  <1> HIDE DEF a, b, c, d, k
  <1>3. SubSeq(q.data, b - c + 1, k) = Bytes(b, d - b)
    <2> DEFINE i == b - c
    <2>1. k \in Nat /\ i \in Nat /\ i <= k /\ k <= k /\ c + i = b /\ k - i = d - b
      BY <1>1
    <2>2. q.data = Bytes(c, k)
      BY <1>1, <1>2
    <2> HIDE DEF i
    <2>3. PartIs(c, k, i, k)
      BY <1>1, <2>1, BytesPart
    <2>4. SubSeq(q.data, i + 1, k) = Bytes(b, d - b)
      BY <2>1, <2>2, <2>3, Zenon DEF PartIs
    <2> QED
      BY <2>4 DEF i
  <1>4. p.data \o SubSeq(q.data, b - c + 1, k) = Bytes(a, d - a)
    <2> DEFINE i == b - a
               j == d - b
    <2>1. i \in Nat /\ j \in Nat /\ a + i = b /\ i + j = d - a
      BY <1>1
    <2>2. p.data = Bytes(a, i) /\ SubSeq(q.data, b - c + 1, k) = Bytes(b, j)
      BY <1>2, <1>3
    <2> HIDE DEF i, j
    <2>3. JoinIs(a, i, j)
      BY <1>1, <2>1, BytesJoin
    <2> QED
      BY <2>1, <2>2, <2>3, Zenon DEF JoinIs
  <1>5. SR!Node(a, p.data \o SubSeq(q.data, b - c + 1, k)) = Piece(a, d)
    BY <1>4 DEF Piece
  <1> QED
    BY <1>5 DEF a, b, c, d, k

\* ... so that the union of the two is an interval again, and the bytes they share
\* are the ones its length lacks.
IsMerged(x, n, m) ==
    /\ IsNode(x.node) /\ x.overlap \in Nat
    /\ x.node.idx = IF n.idx <= m.idx THEN n.idx ELSE m.idx
    /\ SR!EndOf(x.node) = IF SR!EndOf(n) >= SR!EndOf(m) THEN SR!EndOf(n) ELSE SR!EndOf(m)
    /\ Size(x.node) = Size(n) + Size(m) - x.overlap

\* The same for the two sorted by idx, as merge_to sorts them.
Joined(p, q) ==
    IF SR!EndOf(p) >= SR!EndOf(q) THEN [node |-> p, overlap |-> Len(q.data)]
    ELSE [node |-> SR!Node(p.idx, p.data \o
                     SubSeq(q.data, SR!EndOf(p) - q.idx + 1, Len(q.data))),
          overlap |-> SR!EndOf(p) - q.idx]
IsJoined(x, p, q) ==
    /\ IsNode(x.node) /\ x.overlap \in Nat /\ x.node.idx = p.idx
    /\ SR!EndOf(x.node) = IF SR!EndOf(p) >= SR!EndOf(q) THEN SR!EndOf(p) ELSE SR!EndOf(q)
    /\ Size(x.node) = Size(p) + Size(q) - x.overlap

\* What merge_to makes of two nodes that overlap or touch, once they are sorted.
LEMMA JoinSorted ==
    ASSUME NEW p, NEW q, IsNode(p), IsNode(q), p.idx <= q.idx, ~(SR!EndOf(p) < q.idx),
           NEW x, x = Joined(p, q)
    PROVE  IsJoined(x, p, q)
  <1> DEFINE a == p.idx
             b == SR!EndOf(p)
             c == q.idx
             d == SR!EndOf(q)
             k == Len(q.data)
  <1>1. /\ a \in Nat /\ b \in Nat /\ c \in Nat /\ d \in Nat
        /\ a <= b /\ c <= d /\ a <= c /\ ~(b < c) /\ k = d - c
    BY NodeIsPiece
  <1>2. Size(p) = b - a /\ Size(q) = d - c
    BY DEF Size
  <1>3. CASE b >= d
    <2>1. x.node = p /\ x.overlap = k
      BY <1>3 DEF Joined
    <2> HIDE DEF a, b, c, d, k
    <2>2. k \in Nat /\ b - a = (b - a) + (d - c) - k
      BY <1>1
    <2>3. Size(x.node) = Size(p) + Size(q) - x.overlap
      BY <1>2, <2>1, <2>2
    <2> QED
      BY <1>3, <2>1, <2>2, <2>3 DEF IsJoined, b, d
  <1>4. CASE ~(b >= d)
    <2>1. x.node = Piece(a, d) /\ x.overlap = b - c
      BY <1>4, JoinNodes DEF Joined
    <2> DEFINE u == x.node
    <2> HIDE DEF a, b, c, d, k, u
    <2>2. a <= d /\ u = Piece(a, d)
      BY <1>1, <2>1 DEF u
    <2>3. u.idx = a /\ SR!EndOf(u) = d /\ IsNode(u)
      BY <1>1, <2>2, PieceMembers
    <2>4. b - c \in Nat /\ d - a = (b - a) + (d - c) - (b - c)
      BY <1>1
    <2>5. Size(u) = d - a
      BY <2>3 DEF Size
    <2>6. Size(u) = Size(p) + Size(q) - x.overlap
      BY <1>2, <2>1, <2>4, <2>5
    <2> QED
      BY <1>4, <2>1, <2>3, <2>4, <2>6 DEF IsJoined, a, b, d, u
  <1> QED
    BY <1>3, <1>4

\* merge_to on two nodes that overlap or touch.
LEMMA MergeTouching ==
    ASSUME NEW n, NEW m, IsNode(n), IsNode(m),
           ~(SR!EndOf(n) < m.idx), ~(SR!EndOf(m) < n.idx)
    PROVE  IsMerged(SR!merge_to(n, m), n, m)
  <1> DEFINE x == SR!merge_to(n, m)
  <1>1. n.idx \in Nat /\ SR!EndOf(n) \in Nat /\ m.idx \in Nat /\ SR!EndOf(m) \in Nat
    BY NodeIsPiece
  <1>2. CASE n.idx <= m.idx
    <2>1. x = Joined(n, m)
      BY <1>2 DEF SR!merge_to, SR!Gap, Joined
    <2> HIDE DEF x
    <2>2. IsJoined(x, n, m)
      BY <1>2, <2>1, JoinSorted
    <2>3. IsMerged(x, n, m)
      BY <1>2, <2>2 DEF IsJoined, IsMerged
    <2> QED
      BY <2>3 DEF x
  <1>3. CASE ~(n.idx <= m.idx)
    <2>1. x = Joined(m, n)
      BY <1>3 DEF SR!merge_to, SR!Gap, Joined
    <2>2. m.idx <= n.idx
      BY <1>1, <1>3
    <2> HIDE DEF x
    <2>3. IsJoined(x, m, n)
      BY <2>1, <2>2, JoinSorted
    <2>4. Size(m) + Size(n) - x.overlap = Size(n) + Size(m) - x.overlap
      <3> DEFINE i == Size(m)
                 j == Size(n)
                 k == x.overlap
      <3>1. i \in Int /\ j \in Int /\ k \in Int
        BY <1>1, <2>3 DEF Size, IsJoined
      <3> HIDE DEF i, j, k
      <3>2. i + j - k = j + i - k
        BY <3>1
      <3> QED
        BY <3>2 DEF i, j, k
    <2>5. (IF SR!EndOf(m) >= SR!EndOf(n) THEN SR!EndOf(m) ELSE SR!EndOf(n))
          = IF SR!EndOf(n) >= SR!EndOf(m) THEN SR!EndOf(n) ELSE SR!EndOf(m)
      BY <1>1
    <2>6. IsNode(x.node) /\ x.overlap \in Nat /\ x.node.idx = m.idx
      BY <2>3 DEF IsJoined
    <2>7. SR!EndOf(x.node) = IF SR!EndOf(n) >= SR!EndOf(m) THEN SR!EndOf(n) ELSE SR!EndOf(m)
      BY <2>3, <2>5, Zenon DEF IsJoined
    <2>8. Size(x.node) = Size(n) + Size(m) - x.overlap
      BY <2>3, <2>4, Zenon DEF IsJoined
    <2>9. IsMerged(x, n, m)
      BY <1>3, <2>6, <2>7, <2>8 DEF IsMerged
    <2> QED
      BY <2>9 DEF x
  <1> QED
    BY <1>2, <1>3

-----------------------------------------------------------------------------
\* The merging loops.

\* Nodes of positions from lo up to hi with bytes missing between any two.
Buffered(nodes, lo, hi) ==
    /\ lo \in Nat /\ hi \in Nat /\ IsFiniteSet(nodes) /\ Apart(nodes)
    /\ \A n \in nodes : IsNode(n) /\ lo <= n.idx /\ SR!EndOf(n) <= hi

\* Some of them are such nodes as well.
LEMMA BufferedSubset ==
    ASSUME NEW nodes, NEW lo, NEW hi, Buffered(nodes, lo, hi), NEW some, some \subseteq nodes
    PROVE  Buffered(some, lo, hi)
  <1>1. IsFiniteSet(some)
    BY FS_Subset DEF Buffered
  <1>2. Apart(some)
    BY DEF Buffered, Apart
  <1> QED
    BY <1>1, <1>2 DEF Buffered

\* The union of two intervals that overlap or touch.
LEMMA CoverUnion ==
    ASSUME NEW a \in Nat, NEW b \in Nat, NEW c \in Nat, NEW d \in Nat, a <= b, c <= d,
           ~(b < c), ~(d < a),
           NEW e, e = IF a <= c THEN a ELSE c,
           NEW f, f = IF b >= d THEN b ELSE d
    PROVE  (a..b - 1) \union (c..d - 1) = e..f - 1
  <1>1. e \in Nat /\ f \in Nat
    OBVIOUS
  <1>2. ASSUME NEW i \in Int
        PROVE  (i \in a..b - 1 \/ i \in c..d - 1) <=> i \in e..f - 1
    OBVIOUS
  <1>3. /\ \A i \in a..b - 1 : i \in Int
        /\ \A i \in c..d - 1 : i \in Int
        /\ \A i \in e..f - 1 : i \in Int
    OBVIOUS
  <1> QED
    BY <1>2, <1>3

\* The positions of finitely many nodes are finitely many.
LEMMA PositionsFinite ==
    ASSUME NEW nodes, NEW lo, NEW hi, Buffered(nodes, lo, hi)
    PROVE  IsFiniteSet(Positions(nodes)) /\ Cardinality(Positions(nodes)) \in Nat
  <1>1. lo \in Nat /\ hi \in Nat
    BY DEF Buffered
  <1>2. Positions(nodes) \subseteq 0..hi
    <2> SUFFICES ASSUME NEW n \in nodes, NEW i \in n.idx..SR!EndOf(n) - 1
                 PROVE  i \in 0..hi
      BY DEF Positions
    <2>1. n.idx \in Nat /\ SR!EndOf(n) \in Nat /\ SR!EndOf(n) <= hi
      BY NodeIsPiece DEF Buffered
    <2> QED
      BY <1>1, <2>1
  <1>3. IsFiniteSet(0..hi)
    BY <1>1, FS_Interval
  <1>4. IsFiniteSet(Positions(nodes))
    BY <1>2, <1>3, FS_Subset
  <1> QED
    BY <1>4, FS_CardinalityType

\* Taking one node out takes out its positions, and no other node has one of them.
LEMMA PositionsWithout ==
    ASSUME NEW nodes, NEW lo, NEW hi, Buffered(nodes, lo, hi), NEW it \in nodes
    PROVE  /\ Positions(nodes) = Positions(nodes \ {it}) \union Cover(it)
           /\ Cardinality(Positions(nodes)) = Cardinality(Positions(nodes \ {it})) + Size(it)
  <1> DEFINE rest == Positions(nodes \ {it})
             a == it.idx
             b == SR!EndOf(it)
  <1>1. a \in Nat /\ b \in Nat /\ a <= b
    BY NodeIsPiece DEF Buffered
  <1>2. Positions(nodes) = rest \union Cover(it)
    BY DEF Positions, Cover
  <1>3. rest \intersect Cover(it) = {}
    <2> SUFFICES ASSUME NEW n \in nodes \ {it}, NEW i \in n.idx..SR!EndOf(n) - 1, i \in a..b - 1
                 PROVE  FALSE
      BY DEF Positions, Cover
    <2>1. n.idx \in Nat /\ SR!EndOf(n) \in Nat
      BY NodeIsPiece DEF Buffered
    <2>2. SR!EndOf(n) < a \/ b < n.idx
      BY DEF Buffered, Apart
    <2> HIDE DEF a, b
    <2> QED
      BY <1>1, <2>1, <2>2
  <1>4. IsFiniteSet(rest) /\ Cardinality(rest) \in Nat
    <2>1. Buffered(nodes \ {it}, lo, hi)
      BY BufferedSubset
    <2> QED
      BY <2>1, PositionsFinite
  <1>5. IsFiniteSet(Cover(it)) /\ Cardinality(Cover(it)) = b - a
    <2> DEFINE c == b - 1
    <2>1. c \in Int /\ a \in Int
      BY <1>1
    <2>2. Cover(it) = a..c
      BY DEF Cover
    <2> HIDE DEF a, b, c
    <2>3. IsFiniteSet(a..c) /\ Cardinality(a..c) = IF a > c THEN 0 ELSE c - a + 1
      BY <2>1, FS_Interval
    <2>4. (IF a > c THEN 0 ELSE c - a + 1) = b - a
      BY <1>1 DEF c
    <2> QED
      BY <2>2, <2>3, <2>4
  <1> HIDE DEF rest, a, b
  <1>6. Cardinality(rest \union Cover(it))
            = Cardinality(rest) + Cardinality(Cover(it)) - Cardinality(rest \intersect Cover(it))
    BY <1>4, <1>5, FS_Union
  <1>7. Cardinality(rest \intersect Cover(it)) = 0
    BY <1>3, FS_EmptySet
  <1>8. Cardinality(Positions(nodes)) = Cardinality(rest) + (b - a)
    BY <1>1, <1>2, <1>4, <1>5, <1>6, <1>7
  <1> QED
    BY <1>2, <1>8 DEF rest, Size, a, b

\* What both loops keep, for the nodes `old` buffered before them: nodes move from
\* the buffer into the block, no position is lost, and the count is right.
Loop(st, old, all, lo, hi) ==
    /\ IsNode(st.block) /\ lo <= st.block.idx /\ SR!EndOf(st.block) <= hi
    /\ st.buf \subseteq old
    /\ Cover(st.block) \union Positions(st.buf) = all
    /\ st.unassembled = Cardinality(Positions(st.buf)) + Size(st.block)

\* The node `it` was merged into the block.
Absorbed(new, st, it) ==
    /\ new.buf = st.buf \ {it}
    /\ new.block.idx = IF st.block.idx <= it.idx THEN st.block.idx ELSE it.idx
    /\ SR!EndOf(new.block) = IF SR!EndOf(st.block) >= SR!EndOf(it)
                             THEN SR!EndOf(st.block) ELSE SR!EndOf(it)

\* An iteration of either loop that finds a node apart from the block.
LEMMA AbsorbApart ==
    ASSUME NEW st, NEW it, IsNode(st.block), IsNode(it),
           SR!EndOf(st.block) < it.idx \/ SR!EndOf(it) < st.block.idx
    PROVE  SR!Absorb(st, it) = st
  BY MergeGap DEF SR!Absorb

\* An iteration of either loop that finds a node to merge.
LEMMA AbsorbTouching ==
    ASSUME NEW st, NEW old, NEW all, NEW lo, NEW hi,
           Buffered(old, lo, hi), Loop(st, old, all, lo, hi), NEW it \in st.buf,
           ~(SR!EndOf(st.block) < it.idx), ~(SR!EndOf(it) < st.block.idx),
           NEW new, new = SR!Absorb(st, it)
    PROVE  Loop(new, old, all, lo, hi) /\ Absorbed(new, st, it)
  <1> DEFINE m == SR!merge_to(st.block, it)
             blk == st.block
             rest == st.buf \ {it}
  <1>1. IsNode(blk) /\ IsNode(it) /\ it \in old
    BY DEF Loop, Buffered
  <1>2. IsMerged(m, blk, it)
    BY <1>1, MergeTouching
  <1>3. ~(m.overlap < 0)
    <2> HIDE DEF m
    <2> QED
      BY <1>2 DEF IsMerged
  <1>4. new = [block |-> m.node, buf |-> rest, unassembled |-> st.unassembled - m.overlap]
    BY <1>3 DEF SR!Absorb
  <1> HIDE DEF m, blk, rest
  <1>5. new.block = m.node /\ new.buf = rest /\ new.unassembled = st.unassembled - m.overlap
    BY <1>4
  <1>6. Absorbed(new, st, it)
    BY <1>2, <1>5 DEF IsMerged, Absorbed, blk, rest
  <1>7. /\ blk.idx \in Nat /\ SR!EndOf(blk) \in Nat /\ blk.idx <= SR!EndOf(blk)
        /\ it.idx \in Nat /\ SR!EndOf(it) \in Nat /\ it.idx <= SR!EndOf(it)
    BY <1>1, NodeIsPiece
  <1>8. /\ lo \in Nat /\ hi \in Nat /\ lo <= blk.idx /\ lo <= it.idx
        /\ SR!EndOf(blk) <= hi /\ SR!EndOf(it) <= hi
    BY <1>1 DEF Loop, Buffered, blk
  <1>9. Buffered(st.buf, lo, hi)
    BY BufferedSubset DEF Loop
  <1>10. /\ Positions(st.buf) = Positions(rest) \union Cover(it)
         /\ Cardinality(Positions(st.buf)) = Cardinality(Positions(rest)) + Size(it)
    BY <1>9, PositionsWithout DEF rest
  <1>11. lo <= m.node.idx /\ SR!EndOf(m.node) <= hi
    BY <1>2, <1>7, <1>8 DEF IsMerged
  <1>12. Cover(m.node) = Cover(blk) \union Cover(it)
    <2>1. ~(SR!EndOf(blk) < it.idx) /\ ~(SR!EndOf(it) < blk.idx)
      BY DEF blk
    <2>2. /\ m.node.idx = IF blk.idx <= it.idx THEN blk.idx ELSE it.idx
          /\ SR!EndOf(m.node) = IF SR!EndOf(blk) >= SR!EndOf(it)
                                THEN SR!EndOf(blk) ELSE SR!EndOf(it)
      BY <1>2 DEF IsMerged
    <2> DEFINE a == blk.idx
               b == SR!EndOf(blk)
               c == it.idx
               d == SR!EndOf(it)
               e == m.node.idx
               f == SR!EndOf(m.node)
    <2>3. /\ a \in Nat /\ b \in Nat /\ c \in Nat /\ d \in Nat /\ a <= b /\ c <= d
          /\ ~(b < c) /\ ~(d < a)
          /\ e = (IF a <= c THEN a ELSE c)
          /\ f = (IF b >= d THEN b ELSE d)
      BY <1>7, <2>1, <2>2
    <2>4. /\ Cover(m.node) = e..f - 1 /\ Cover(blk) = a..b - 1 /\ Cover(it) = c..d - 1
      BY DEF Cover
    <2> HIDE DEF a, b, c, d, e, f
    <2>5. (a..b - 1) \union (c..d - 1) = e..f - 1
      BY <2>3, CoverUnion
    <2> QED
      BY <2>4, <2>5
  <1>13. Cover(m.node) \union Positions(rest) = all
    <2>1. Cover(blk) \union Positions(st.buf) = all
      BY DEF Loop, blk
    <2> QED
      BY <1>10, <1>12, <2>1
  <1>14. new.unassembled = Cardinality(Positions(rest)) + Size(m.node)
    <2> DEFINE u == st.unassembled
               p == Cardinality(Positions(st.buf))
               q == Cardinality(Positions(rest))
               x == Size(it)
               y == Size(blk)
               z == Size(m.node)
               k == m.overlap
    <2>1. u = p + y /\ p = q + x /\ z = y + x - k
      BY <1>2, <1>10 DEF Loop, IsMerged, blk
    <2>2. x \in Int /\ y \in Int /\ k \in Int
      BY <1>2, <1>7 DEF Size, IsMerged
    <2>3. q \in Int
      <3>1. Buffered(rest, lo, hi)
        BY <1>9, BufferedSubset DEF rest
      <3> QED
        BY <3>1, PositionsFinite
    <2>4. new.unassembled = u - k
      BY <1>5
    <2> HIDE DEF u, p, q, x, y, z, k
    <2>5. u - k = q + z
      BY <2>1, <2>2, <2>3
    <2>6. new.unassembled = q + z
      BY <2>4, <2>5
    <2> QED
      BY <2>6 DEF q, z
  <1>15. IsNode(m.node)
    BY <1>2 DEF IsMerged
  <1>16. rest \subseteq old
    BY DEF Loop, rest
  <1> QED
    BY <1>5, <1>6, <1>11, <1>13, <1>14, <1>15, <1>16, Zenon DEF Loop

\* Where the loops stop: the nodes behind the block, and the ones before it, are
\* apart from it.
SuccDone(st) ==
    \A n \in st.buf : n.idx >= st.block.idx => SR!EndOf(st.block) < n.idx
PrevDone(st) ==
    \A n \in st.buf : n.idx < st.block.idx => SR!EndOf(n) < st.block.idx

\* The set of nodes is ordered: it has a first and a last node.
LEMMA FirstNode ==
    ASSUME NEW nodes, \A n \in nodes : IsNode(n), nodes # {}
    PROVE  \E n \in nodes : \A m \in nodes : n.idx <= m.idx
  <1> DEFINE T == {n.idx : n \in nodes}
  <1>1. T \subseteq Nat /\ T # {}
    BY NodeIsPiece
  <1>2. PICK x \in T : \A y \in T : x <= y
    BY <1>1, NP!LeastNatural
  <1>3. PICK n \in nodes : x = n.idx
    BY <1>2
  <1> QED
    BY <1>2, <1>3

\* The last node.
LEMMA LastNode ==
    ASSUME NEW nodes, NEW hi \in Nat, \A n \in nodes : IsNode(n) /\ SR!EndOf(n) <= hi,
           nodes # {}
    PROVE  \E n \in nodes : \A m \in nodes : n.idx >= m.idx
  <1> DEFINE T == {hi - n.idx : n \in nodes}
  <1>1. \A n \in nodes : n.idx \in Nat /\ hi - n.idx \in Nat
    BY NodeIsPiece
  <1>2. T \subseteq Nat /\ T # {}
    BY <1>1
  <1>3. PICK x \in T : \A y \in T : x <= y
    BY <1>2, NP!LeastNatural
  <1>4. PICK n \in nodes : x = hi - n.idx
    BY <1>3
  <1>5. ASSUME NEW m \in nodes
        PROVE  n.idx >= m.idx
    <2>1. hi - n.idx <= hi - m.idx
      BY <1>3, <1>4
    <2>2. n.idx \in Nat /\ m.idx \in Nat
      BY <1>1
    <2> QED
      BY <2>1, <2>2
  <1> QED
    BY <1>5

\* An iteration of the loop over the nodes behind the block.
LEMMA SuccStepKeeps ==
    ASSUME NEW st, NEW old, NEW all, NEW lo, NEW hi,
           Buffered(old, lo, hi), Loop(st, old, all, lo, hi),
           NEW new, new = SR!SuccStep(st)
    PROVE  /\ Loop(new, old, all, lo, hi)
           /\ SuccDone(st) => new = st
           /\ ~SuccDone(st) => \E it \in st.buf : new.buf = st.buf \ {it}
  <1> DEFINE succ == {n \in st.buf : n.idx >= st.block.idx}
             it == CHOOSE n \in succ : \A m \in succ : n.idx <= m.idx
  <1>1. IsNode(st.block) /\ \A n \in st.buf : IsNode(n)
    BY DEF Loop, Buffered
  <1>2. CASE succ = {}
    <2>1. new = st
      BY <1>2 DEF SR!SuccStep
    <2>2. SuccDone(st)
      BY <1>2 DEF SuccDone
    <2> QED
      BY <2>1, <2>2
  <1>3. CASE succ # {}
    <2>1. new = SR!Absorb(st, it)
      BY <1>3 DEF SR!SuccStep
    <2>2. \E n \in succ : \A m \in succ : n.idx <= m.idx
      <3>1. \A n \in succ : IsNode(n)
        BY <1>1
      <3> HIDE DEF succ
      <3> QED
        BY <1>3, <3>1, FirstNode
    <2>3. it \in succ /\ \A m \in succ : it.idx <= m.idx
      <3> HIDE DEF succ
      <3> QED
        BY <2>2
    <2> HIDE DEF it
    <2>4. it \in st.buf /\ it.idx >= st.block.idx /\ IsNode(it)
      BY <1>1, <2>3
    <2>5. /\ st.block.idx \in Nat /\ SR!EndOf(st.block) \in Nat
          /\ it.idx \in Nat /\ SR!EndOf(it) \in Nat /\ it.idx <= SR!EndOf(it)
      BY <1>1, <2>4, NodeIsPiece
    <2>6. CASE SR!EndOf(st.block) < it.idx
      <3>1. new = st
        BY <1>1, <2>1, <2>4, <2>6, AbsorbApart
      <3>2. ASSUME NEW n \in st.buf, n.idx >= st.block.idx
            PROVE  SR!EndOf(st.block) < n.idx
        <4>1. it.idx <= n.idx
          BY <2>3, <3>2
        <4>2. n.idx \in Nat
          BY <1>1, NodeIsPiece
        <4> QED
          BY <2>5, <2>6, <4>1, <4>2
      <3>3. SuccDone(st)
        BY <3>2 DEF SuccDone
      <3> QED
        BY <3>1, <3>3
    <2>7. CASE ~(SR!EndOf(st.block) < it.idx)
      <3>1. ~(SR!EndOf(it) < st.block.idx)
        BY <2>4, <2>5
      <3>2. Loop(new, old, all, lo, hi) /\ Absorbed(new, st, it)
        BY <2>1, <2>4, <2>7, <3>1, AbsorbTouching
      <3>3. ~SuccDone(st)
        BY <2>4, <2>7 DEF SuccDone
      <3> QED
        BY <2>4, <3>2, <3>3 DEF Absorbed
    <2> QED
      BY <2>6, <2>7
  <1> QED
    BY <1>2, <1>3

\* An iteration of the loop over the nodes before the block.
LEMMA PrevStepKeeps ==
    ASSUME NEW st, NEW old, NEW all, NEW lo, NEW hi,
           Buffered(old, lo, hi), Loop(st, old, all, lo, hi), SuccDone(st),
           NEW new, new = SR!PrevStep(st)
    PROVE  /\ Loop(new, old, all, lo, hi) /\ SuccDone(new)
           /\ PrevDone(st) => new = st
           /\ ~PrevDone(st) => \E it \in st.buf : new.buf = st.buf \ {it}
  <1> DEFINE prev == {n \in st.buf : n.idx < st.block.idx}
             it == CHOOSE n \in prev : \A m \in prev : n.idx >= m.idx
  <1>1. /\ IsNode(st.block) /\ hi \in Nat
        /\ \A n \in st.buf : IsNode(n) /\ SR!EndOf(n) <= hi
    BY DEF Loop, Buffered
  <1>2. Apart(st.buf)
    BY DEF Loop, Buffered, Apart
  <1>3. CASE prev = {}
    <2>1. new = st
      BY <1>3 DEF SR!PrevStep
    <2>2. PrevDone(st)
      BY <1>3 DEF PrevDone
    <2> QED
      BY <2>1, <2>2
  <1>4. CASE prev # {}
    <2>1. new = SR!Absorb(st, it)
      BY <1>4 DEF SR!PrevStep
    <2>2. \E n \in prev : \A m \in prev : n.idx >= m.idx
      <3>1. \A n \in prev : IsNode(n) /\ SR!EndOf(n) <= hi
        BY <1>1
      <3> HIDE DEF prev
      <3> QED
        BY <1>1, <1>4, <3>1, LastNode
    <2>3. it \in prev /\ \A m \in prev : it.idx >= m.idx
      <3> HIDE DEF prev
      <3> QED
        BY <2>2
    <2> HIDE DEF it
    <2>4. it \in st.buf /\ it.idx < st.block.idx /\ IsNode(it)
      BY <1>1, <2>3
    <2>5. /\ st.block.idx \in Nat /\ SR!EndOf(st.block) \in Nat
          /\ st.block.idx <= SR!EndOf(st.block)
          /\ it.idx \in Nat /\ SR!EndOf(it) \in Nat /\ it.idx <= SR!EndOf(it)
      BY <1>1, <2>4, NodeIsPiece
    <2>6. ASSUME NEW n \in st.buf, n # it
          PROVE  /\ n.idx \in Nat /\ SR!EndOf(n) \in Nat /\ n.idx <= SR!EndOf(n)
                 /\ SR!EndOf(n) < it.idx \/ SR!EndOf(it) < n.idx
      <3>1. n.idx \in Nat /\ SR!EndOf(n) \in Nat /\ n.idx <= SR!EndOf(n)
        BY <1>1, NodeIsPiece
      <3>2. SR!EndOf(n) < it.idx \/ SR!EndOf(it) < n.idx
        BY <1>2, <2>4, <2>6 DEF Apart
      <3> QED
        BY <3>1, <3>2
    <2>7. CASE SR!EndOf(it) < st.block.idx
      <3>1. new = st
        BY <1>1, <2>1, <2>4, <2>7, AbsorbApart
      <3>2. ASSUME NEW n \in st.buf, n.idx < st.block.idx
            PROVE  SR!EndOf(n) < st.block.idx
        <4>1. CASE n = it
          BY <2>7, <4>1
        <4>2. CASE n # it
          <5>1. it.idx >= n.idx
            BY <2>3, <3>2
          <5>2. /\ n.idx \in Nat /\ SR!EndOf(n) \in Nat
                /\ SR!EndOf(n) < it.idx \/ SR!EndOf(it) < n.idx
            BY <2>6, <4>2
          <5> QED
            BY <2>5, <2>7, <5>1, <5>2
        <4> QED
          BY <4>1, <4>2
      <3>3. PrevDone(st)
        BY <3>2 DEF PrevDone
      <3> QED
        BY <3>1, <3>3
    <2>8. CASE ~(SR!EndOf(it) < st.block.idx)
      <3>1. ~(SR!EndOf(st.block) < it.idx)
        BY <2>4, <2>5
      <3>2. Loop(new, old, all, lo, hi) /\ Absorbed(new, st, it)
        BY <2>1, <2>4, <2>8, <3>1, AbsorbTouching
      <3>3. ~PrevDone(st)
        BY <2>4, <2>8 DEF PrevDone
      <3>4. /\ new.buf = st.buf \ {it} /\ new.block.idx = it.idx
            /\ SR!EndOf(new.block) = IF SR!EndOf(st.block) >= SR!EndOf(it)
                                     THEN SR!EndOf(st.block) ELSE SR!EndOf(it)
        BY <2>4, <2>5, <3>2 DEF Absorbed
      <3>5. ASSUME NEW n \in new.buf, n.idx >= new.block.idx
            PROVE  SR!EndOf(new.block) < n.idx
        <4>1. n \in st.buf /\ n # it /\ n.idx >= it.idx
          BY <3>4, <3>5
        <4>2. /\ n.idx \in Nat /\ SR!EndOf(n) \in Nat /\ n.idx <= SR!EndOf(n)
              /\ SR!EndOf(n) < it.idx \/ SR!EndOf(it) < n.idx
          BY <2>6, <4>1
        <4>3. SR!EndOf(it) < n.idx
          BY <2>5, <4>1, <4>2
        <4>4. ~(n.idx < st.block.idx)
          <5>1. n.idx < st.block.idx => it.idx >= n.idx
            BY <2>3, <4>1
          <5> QED
            BY <2>5, <4>2, <4>3, <5>1
        <4>5. SR!EndOf(st.block) < n.idx
          <5>1. n.idx >= st.block.idx
            BY <2>5, <4>2, <4>4
          <5> QED
            BY <4>1, <5>1 DEF SuccDone
        <4> QED
          BY <3>4, <4>3, <4>5
      <3>6. SuccDone(new)
        BY <3>5 DEF SuccDone
      <3> QED
        BY <2>4, <3>2, <3>3, <3>4, <3>6
    <2> QED
      BY <2>7, <2>8
  <1> QED
    BY <1>3, <1>4

-----------------------------------------------------------------------------
\* MergeAll.
\* The successive states of the loop over the nodes behind the block exist ...
SuccRun(g, st, n) ==
    g = [k \in 0..n |-> IF k = 0 THEN st ELSE SR!SuccStep(g[k - 1])]

\* By induction on the number of iterations.
LEMMA SuccExists ==
    ASSUME NEW st, NEW n \in Nat
    PROVE  \E g : SuccRun(g, st, n)
  <1> DEFINE T == {m \in Nat : \E g : SuccRun(g, st, m)}
  <1>1. 0 \in T
    <2> DEFINE g == [k \in 0..0 |-> st]
    <2>1. SuccRun(g, st, 0)
      BY DEF SuccRun
    <2> QED
      BY <2>1
  <1>2. ASSUME NEW m \in Nat, m \in T
        PROVE  m + 1 \in T
    <2>1. PICK g : SuccRun(g, st, m)
      BY <1>2
    <2> DEFINE h == [k \in 0..m + 1 |-> IF k = m + 1 THEN SR!SuccStep(g[m]) ELSE g[k]]
    <2>2. ASSUME NEW k \in 0..m + 1
          PROVE  h[k] = IF k = 0 THEN st ELSE SR!SuccStep(h[k - 1])
      <3>1. CASE k = 0
        <4>1. h[0] = g[0] /\ g[0] = st
          BY <2>1 DEF SuccRun
        <4> QED
          BY <3>1, <4>1
      <3>2. CASE k # 0 /\ k # m + 1
        <4>1. k \in 0..m /\ k - 1 \in 0..m
          BY <3>2
        <4>2. h[k] = g[k] /\ h[k - 1] = g[k - 1]
          BY <4>1
        <4>3. g[k] = SR!SuccStep(g[k - 1])
          BY <2>1, <3>2, <4>1 DEF SuccRun
        <4> QED
          BY <3>2, <4>2, <4>3, Zenon
      <3>3. CASE k = m + 1
        <4>1. k # 0 /\ k - 1 = m /\ m \in 0..m + 1 /\ m # m + 1
          BY <3>3
        <4>2. h[k] = SR!SuccStep(g[m]) /\ h[m] = g[m]
          BY <3>3, <4>1
        <4> QED
          BY <4>1, <4>2, Zenon
      <3> QED
        BY <3>1, <3>2, <3>3
    <2>3. SuccRun(h, st, m + 1)
      BY <2>2 DEF SuccRun
    <2> QED
      BY <2>3
  <1>3. Nat \subseteq T
    BY <1>1, <1>2, NP!Induction
  <1> QED
    BY <1>3

\* ... and so do the ones of the loop over the nodes before it.
PrevRun(g, st, n) ==
    g = [k \in 0..n |-> IF k = 0 THEN st ELSE SR!PrevStep(g[k - 1])]

\* By induction on the number of iterations.
LEMMA PrevExists ==
    ASSUME NEW st, NEW n \in Nat
    PROVE  \E g : PrevRun(g, st, n)
  <1> DEFINE T == {m \in Nat : \E g : PrevRun(g, st, m)}
  <1>1. 0 \in T
    <2> DEFINE g == [k \in 0..0 |-> st]
    <2>1. PrevRun(g, st, 0)
      BY DEF PrevRun
    <2> QED
      BY <2>1
  <1>2. ASSUME NEW m \in Nat, m \in T
        PROVE  m + 1 \in T
    <2>1. PICK g : PrevRun(g, st, m)
      BY <1>2
    <2> DEFINE h == [k \in 0..m + 1 |-> IF k = m + 1 THEN SR!PrevStep(g[m]) ELSE g[k]]
    <2>2. ASSUME NEW k \in 0..m + 1
          PROVE  h[k] = IF k = 0 THEN st ELSE SR!PrevStep(h[k - 1])
      <3>1. CASE k = 0
        <4>1. h[0] = g[0] /\ g[0] = st
          BY <2>1 DEF PrevRun
        <4> QED
          BY <3>1, <4>1
      <3>2. CASE k # 0 /\ k # m + 1
        <4>1. k \in 0..m /\ k - 1 \in 0..m
          BY <3>2
        <4>2. h[k] = g[k] /\ h[k - 1] = g[k - 1]
          BY <4>1
        <4>3. g[k] = SR!PrevStep(g[k - 1])
          BY <2>1, <3>2, <4>1 DEF PrevRun
        <4> QED
          BY <3>2, <4>2, <4>3, Zenon
      <3>3. CASE k = m + 1
        <4>1. k # 0 /\ k - 1 = m /\ m \in 0..m + 1 /\ m # m + 1
          BY <3>3
        <4>2. h[k] = SR!PrevStep(g[m]) /\ h[m] = g[m]
          BY <3>3, <4>1
        <4> QED
          BY <4>1, <4>2, Zenon
      <3> QED
        BY <3>1, <3>2, <3>3
    <2>3. PrevRun(h, st, m + 1)
      BY <2>2 DEF PrevRun
    <2> QED
      BY <2>3
  <1>3. Nat \subseteq T
    BY <1>1, <1>2, NP!Induction
  <1> QED
    BY <1>3

\* After as many iterations as there are nodes the first loop has stopped ...
LEMMA SuccEnds ==
    ASSUME NEW st, NEW old, NEW all, NEW lo, NEW hi,
           Buffered(old, lo, hi), Loop(st, old, all, lo, hi),
           NEW n \in Nat, Cardinality(st.buf) <= n, NEW g, SuccRun(g, st, n)
    PROVE  Loop(g[n], old, all, lo, hi) /\ SuccDone(g[n])
           /\ Cardinality(g[n].buf) <= n
  <1> DEFINE Left(x) == Cardinality(x.buf)
             Good(k) == /\ Loop(g[k], old, all, lo, hi)
                        /\ Left(g[k]) <= n
                        /\ SuccDone(g[k]) \/ Left(g[k]) <= n - k
             T == {k \in Nat : k <= n => Good(k)}
  <1>1. 0 \in T
    <2>1. g[0] = st
      BY DEF SuccRun
    <2>2. Left(g[0]) <= n /\ n - 0 = n
      BY <2>1
    <2> QED
      BY <2>1, <2>2
  <1>2. ASSUME NEW k \in Nat, k \in T
        PROVE  k + 1 \in T
    <2> SUFFICES ASSUME k + 1 <= n
                 PROVE  Good(k + 1)
      OBVIOUS
    <2> DEFINE x == g[k]
               y == g[k + 1]
    <2>1. Good(k)
      <3>1. k <= n
        OBVIOUS
      <3> QED
        BY <1>2, <3>1
    <2>2. y = SR!SuccStep(x)
      <3>1. k + 1 \in 0..n /\ k + 1 # 0 /\ (k + 1) - 1 = k
        OBVIOUS
      <3> QED
        BY <3>1 DEF SuccRun
    <2>3. /\ Loop(x, old, all, lo, hi) /\ Left(x) <= n
          /\ SuccDone(x) \/ Left(x) <= n - k
      BY <2>1
    <2> HIDE DEF x, y, Left
    <2>4. /\ Loop(y, old, all, lo, hi)
          /\ SuccDone(x) => y = x
          /\ ~SuccDone(x) => \E it \in x.buf : y.buf = x.buf \ {it}
      BY <2>2, <2>3, SuccStepKeeps
    <2>5. Left(y) <= n /\ (SuccDone(y) \/ Left(y) <= n - (k + 1))
      <3>1. CASE SuccDone(x)
        BY <2>3, <2>4, <3>1
      <3>2. CASE ~SuccDone(x)
        <4>1. PICK it \in x.buf : y.buf = x.buf \ {it}
          BY <2>4, <3>2
        <4>2. IsFiniteSet(x.buf)
          BY <2>3, FS_Subset DEF Loop, Buffered
        <4>3. Left(x) \in Nat /\ Left(y) = Left(x) - 1
          BY <4>1, <4>2, FS_CardinalityType, FS_RemoveElement DEF Left
        <4> QED
          BY <2>3, <3>2, <4>3
      <3> QED
        BY <3>1, <3>2
    <2> QED
      BY <2>4, <2>5 DEF x, y
  <1>3. Good(n)
    <2>1. Nat \subseteq T
      <3> HIDE DEF T
      <3> QED
        BY <1>1, <1>2, NP!Induction
    <2> QED
      BY <2>1
  <1>4. CASE Left(g[n]) <= n - n
    <2>1. IsFiniteSet(g[n].buf)
      BY <1>3, FS_Subset DEF Loop, Buffered
    <2>2. Left(g[n]) \in Nat
      BY <2>1, FS_CardinalityType
    <2>3. Left(g[n]) = 0
      BY <1>4, <2>2
    <2>4. g[n].buf = {}
      BY <2>1, <2>3, FS_EmptySet
    <2>5. SuccDone(g[n])
      BY <2>4 DEF SuccDone
    <2> QED
      BY <1>3, <2>5
  <1> QED
    BY <1>3, <1>4

\* ... and so has the second one, which leaves the nodes behind the block apart.
LEMMA PrevEnds ==
    ASSUME NEW st, NEW old, NEW all, NEW lo, NEW hi,
           Buffered(old, lo, hi), Loop(st, old, all, lo, hi), SuccDone(st),
           NEW n \in Nat, Cardinality(st.buf) <= n, NEW g, PrevRun(g, st, n)
    PROVE  Loop(g[n], old, all, lo, hi) /\ SuccDone(g[n]) /\ PrevDone(g[n])
           /\ Cardinality(g[n].buf) <= n
  <1> DEFINE Left(x) == Cardinality(x.buf)
             Good(k) == /\ Loop(g[k], old, all, lo, hi) /\ SuccDone(g[k])
                        /\ Left(g[k]) <= n
                        /\ PrevDone(g[k]) \/ Left(g[k]) <= n - k
             T == {k \in Nat : k <= n => Good(k)}
  <1>1. 0 \in T
    <2>1. g[0] = st
      BY DEF PrevRun
    <2>2. Left(g[0]) <= n /\ n - 0 = n
      BY <2>1
    <2> QED
      BY <2>1, <2>2
  <1>2. ASSUME NEW k \in Nat, k \in T
        PROVE  k + 1 \in T
    <2> SUFFICES ASSUME k + 1 <= n
                 PROVE  Good(k + 1)
      OBVIOUS
    <2> DEFINE x == g[k]
               y == g[k + 1]
    <2>1. Good(k)
      <3>1. k <= n
        OBVIOUS
      <3> QED
        BY <1>2, <3>1
    <2>2. y = SR!PrevStep(x)
      <3>1. k + 1 \in 0..n /\ k + 1 # 0 /\ (k + 1) - 1 = k
        OBVIOUS
      <3> QED
        BY <3>1 DEF PrevRun
    <2>3. /\ Loop(x, old, all, lo, hi) /\ SuccDone(x) /\ Left(x) <= n
          /\ PrevDone(x) \/ Left(x) <= n - k
      BY <2>1
    <2> HIDE DEF x, y, Left
    <2>4. /\ Loop(y, old, all, lo, hi) /\ SuccDone(y)
          /\ PrevDone(x) => y = x
          /\ ~PrevDone(x) => \E it \in x.buf : y.buf = x.buf \ {it}
      BY <2>2, <2>3, PrevStepKeeps
    <2>5. Left(y) <= n /\ (PrevDone(y) \/ Left(y) <= n - (k + 1))
      <3>1. CASE PrevDone(x)
        BY <2>3, <2>4, <3>1
      <3>2. CASE ~PrevDone(x)
        <4>1. PICK it \in x.buf : y.buf = x.buf \ {it}
          BY <2>4, <3>2
        <4>2. IsFiniteSet(x.buf)
          BY <2>3, FS_Subset DEF Loop, Buffered
        <4>3. Left(x) \in Nat /\ Left(y) = Left(x) - 1
          BY <4>1, <4>2, FS_CardinalityType, FS_RemoveElement DEF Left
        <4> QED
          BY <2>3, <3>2, <4>3
      <3> QED
        BY <3>1, <3>2
    <2> QED
      BY <2>4, <2>5 DEF x, y
  <1>3. Good(n)
    <2>1. Nat \subseteq T
      <3> HIDE DEF T
      <3> QED
        BY <1>1, <1>2, NP!Induction
    <2> QED
      BY <2>1
  <1>4. CASE Left(g[n]) <= n - n
    <2>1. IsFiniteSet(g[n].buf)
      BY <1>3, FS_Subset DEF Loop, Buffered
    <2>2. Left(g[n]) \in Nat
      BY <2>1, FS_CardinalityType
    <2>3. Left(g[n]) = 0
      BY <1>4, <2>2
    <2>4. g[n].buf = {}
      BY <2>1, <2>3, FS_EmptySet
    <2>5. PrevDone(g[n])
      BY <2>4 DEF PrevDone
    <2> QED
      BY <1>3, <2>5
  <1> QED
    BY <1>3, <1>4


\* Both loops: no position is lost, the count is right, and the block and the nodes
\* that are left are all apart.
LEMMA MergeAllKeeps ==
    ASSUME NEW st, NEW old, NEW all, NEW lo, NEW hi,
           Buffered(old, lo, hi), Loop(st, old, all, lo, hi),
           NEW new, new = SR!MergeAll(st)
    PROVE  Loop(new, old, all, lo, hi) /\ SuccDone(new) /\ PrevDone(new)
  <1> DEFINE n == Cardinality(st.buf)
             f == CHOOSE g : SuccRun(g, st, n)
             h == CHOOSE g : PrevRun(g, f[n], n)
  <1>1. n \in Nat
    BY FS_Subset, FS_CardinalityType DEF Loop, Buffered
  <1>2. new = h[n]
    <2>1. SR!Cardinality(st.buf) = n
      BY DEF SR!Cardinality, Cardinality
    <2> QED
      BY <2>1 DEF SR!MergeAll, SuccRun, PrevRun
  <1> HIDE DEF n
  <1>3. SuccRun(f, st, n)
    BY <1>1, SuccExists
  <1> HIDE DEF f
  <1>4. PrevRun(h, f[n], n)
    BY <1>1, PrevExists
  <1> HIDE DEF h
  <1>5. Cardinality(st.buf) <= n
    BY <1>1 DEF n
  <1>6. /\ Loop(f[n], old, all, lo, hi) /\ SuccDone(f[n])
        /\ Cardinality(f[n].buf) <= n
    BY <1>1, <1>3, <1>5, SuccEnds
  <1>7. Loop(h[n], old, all, lo, hi) /\ SuccDone(h[n]) /\ PrevDone(h[n])
    BY <1>1, <1>4, <1>6, PrevEnds
  <1> QED
    BY <1>2, <1>7

-----------------------------------------------------------------------------
\* The inductive invariant.

\* An object of the class has its members, and so has its ByteStream.
Members ==
    {"output", "capacity", "data_buffer", "cur_idx", "input_end_idx", "unassembled_bytes"}
StreamMembers == {"capacity", "buffer", "write_bytes", "read_bytes", "input_end", "error"}
IsObject(x) ==
    /\ x = [m \in Members |-> x[m]]
    /\ x.output = [m \in StreamMembers |-> x.output[m]]
    /\ x.capacity = Capacity /\ x.output.capacity = Capacity

\* Where the stream and the window end, whichever is first.
Limit(x) ==
    IF Total <= x.output.read_bytes + Capacity THEN Total ELSE x.output.read_bytes + Capacity

\* The output holds the bytes assembled and not read.
Assembling(x) ==
    /\ x.cur_idx \in 0..Total /\ x.output.read_bytes \in 0..x.cur_idx
    /\ x.output.write_bytes = x.cur_idx
    /\ x.output.buffer = Bytes(x.output.read_bytes, x.cur_idx - x.output.read_bytes)
    /\ x.cur_idx <= x.output.read_bytes + Capacity

\* The buffer holds nodes behind the bytes assembled.
Buffering(x) ==
    /\ Buffered(x.data_buffer, x.cur_idx + 1, Limit(x))
    /\ x.unassembled_bytes = Cardinality(Positions(x.data_buffer))

Ended(x) == x.cur_idx = Total /\ x.input_end_idx = Total => x.output.input_end

\* No eof has come, and the output goes on.
Open(x) == x.input_end_idx = Int32Max /\ ~x.output.input_end

Sound(x) == IsObject(x) /\ Assembling(x) /\ Buffering(x)
Inv == Sound(r) /\ Ended(r)

\* What the abstract specification calls known.
Known(x) == (0..x.cur_idx - 1) \union Positions(x.data_buffer)

\* y differs from x at most in where and whether the stream ends.
Same(y, x) ==
    /\ y.cur_idx = x.cur_idx /\ y.data_buffer = x.data_buffer
    /\ y.unassembled_bytes = x.unassembled_bytes
    /\ y.output.buffer = x.output.buffer /\ y.output.read_bytes = x.output.read_bytes
    /\ y.output.write_bytes = x.output.write_bytes

\* Such an object is as sound, and knows as much.
LEMMA SameIsSound ==
    ASSUME NEW x, NEW y, Sound(x), IsObject(y), Same(y, x)
    PROVE  Sound(y) /\ Known(y) = Known(x)
  <1>1. Limit(y) = Limit(x)
    BY DEF Same, Limit
  <1>2. Assembling(y)
    BY DEF Same, Sound, Assembling
  <1>3. Buffering(y)
    BY <1>1 DEF Same, Sound, Buffering
  <1>4. Known(y) = Known(x)
    BY DEF Same, Known
  <1> QED
    BY <1>2, <1>3, <1>4 DEF Sound

\* Noting where the stream ends.
Noted(y, x, i) == y = [x EXCEPT !.input_end_idx = i]

\* It changes nothing else.
LEMMA NotedIsSame ==
    ASSUME NEW x, Sound(x), NEW i, NEW y, Noted(y, x, i)
    PROVE  IsObject(y) /\ Same(y, x) /\ y.input_end_idx = i /\ y.output = x.output
  BY DEF Noted, Sound, IsObject, Same, Members

\* Ending the output.
LEMMA EndIfIsSame ==
    ASSUME NEW x, Sound(x), NEW cond, NEW y, y = SR!EndIf(x, cond)
    PROVE  /\ IsObject(y) /\ Same(y, x) /\ y.input_end_idx = x.input_end_idx
           /\ x.output.input_end => y.output.input_end
           /\ cond /\ x.unassembled_bytes = 0 => y.output.input_end
           /\ ~cond => y = x
  <1>1. IsObject(x)
    BY DEF Sound
  <1>2. CASE cond /\ x.unassembled_bytes = 0
    <2> DEFINE s == SR!BS!end_input(x.output)
    <2>1. /\ s = [m \in StreamMembers |-> s[m]] /\ s.capacity = x.output.capacity
          /\ s.buffer = x.output.buffer /\ s.read_bytes = x.output.read_bytes
          /\ s.write_bytes = x.output.write_bytes /\ s.input_end = TRUE
      BY <1>1 DEF SR!BS!end_input, IsObject, StreamMembers
    <2>2. y = [x EXCEPT !.output = s]
      BY <1>2 DEF SR!EndIf, SR!empty
    <2> HIDE DEF s
    <2>3. /\ y = [m \in Members |-> y[m]] /\ y.output = s /\ y.capacity = x.capacity
          /\ y.cur_idx = x.cur_idx /\ y.data_buffer = x.data_buffer
          /\ y.unassembled_bytes = x.unassembled_bytes /\ y.input_end_idx = x.input_end_idx
      BY <1>1, <2>2 DEF IsObject, Members
    <2>4. IsObject(y)
      BY <1>1, <2>1, <2>3 DEF IsObject
    <2>5. Same(y, x)
      BY <2>1, <2>3 DEF Same
    <2> QED
      BY <1>2, <2>1, <2>3, <2>4, <2>5
  <1>3. CASE ~(cond /\ x.unassembled_bytes = 0)
    <2>1. y = x
      BY <1>3, Zenon DEF SR!EndIf, SR!empty
    <2> QED
      BY <1>1, <1>3, <2>1, Zenon DEF Same
  <1> QED
    BY <1>2, <1>3, Zenon

\* Once all bytes are assembled nothing is left in the buffer.
LEMMA EmptyAtEnd ==
    ASSUME NEW x, Sound(x), x.cur_idx = Total
    PROVE  x.unassembled_bytes = 0
  <1>1. x.data_buffer = {}
    <2> SUFFICES ASSUME NEW n \in x.data_buffer
                 PROVE  FALSE
      OBVIOUS
    <2>1. IsNode(n) /\ Total + 1 <= n.idx /\ SR!EndOf(n) <= Limit(x)
      BY DEF Sound, Buffering, Buffered
    <2>2. n.idx \in Nat /\ SR!EndOf(n) \in Nat /\ n.idx <= SR!EndOf(n)
      BY <2>1, NodeIsPiece
    <2>3. Limit(x) <= Total /\ Limit(x) \in Nat /\ Total \in Nat
      BY ReassemblerAssumption DEF Limit, Sound, Assembling
    <2> QED
      BY <2>1, <2>2, <2>3
  <1>2. Positions(x.data_buffer) = {}
    BY <1>1 DEF Positions
  <1> QED
    BY <1>2, FS_EmptySet DEF Sound, Buffering

\* Ending the output keeps the invariant.
LEMMA EndIfKeeps ==
    ASSUME NEW x, Sound(x), NEW cond, NEW y, y = SR!EndIf(x, cond)
    PROVE  /\ Sound(y) /\ Same(y, x) /\ Known(y) = Known(x)
           /\ Ended(x) => Ended(y)
           /\ ~cond => y = x
  <1>1. /\ IsObject(y) /\ Same(y, x) /\ y.input_end_idx = x.input_end_idx
        /\ x.output.input_end => y.output.input_end
        /\ ~cond => y = x
    BY EndIfIsSame
  <1>2. Ended(x) => Ended(y)
    BY <1>1 DEF Ended, Same
  <1> QED
    BY <1>1, <1>2, SameIsSound

\* Looking for the end of the stream finds it if it is there.
LEMMA EndIfCompleteKeeps ==
    ASSUME NEW x, Sound(x), NEW y, y = SR!EndIfComplete(x)
    PROVE  /\ Sound(y) /\ Same(y, x) /\ Known(y) = Known(x) /\ Ended(y)
           /\ Open(x) /\ Total < Int32Max => Open(y)
  <1> DEFINE cond == x.cur_idx >= x.input_end_idx
  <1>1. y = SR!EndIf(x, cond)
    BY DEF SR!EndIfComplete
  <1>2. CASE x.cur_idx = Total /\ x.input_end_idx = Total
    <2>1. cond
      BY <1>2, ReassemblerAssumption
    <2>2. x.unassembled_bytes = 0
      BY <1>2, EmptyAtEnd
    <2> HIDE DEF cond
    <2>3. y.output.input_end
      BY <1>1, <2>1, <2>2, EndIfIsSame
    <2>4. Ended(y)
      BY <2>3 DEF Ended
    <2>5. ~(Open(x) /\ Total < Int32Max)
      BY <1>2, ReassemblerAssumption DEF Open
    <2> QED
      BY <1>1, <2>4, <2>5, EndIfKeeps
  <1>3. CASE ~(x.cur_idx = Total /\ x.input_end_idx = Total)
    <2>1. Ended(x)
      BY <1>3 DEF Ended
    <2>2. Open(x) /\ Total < Int32Max => ~cond
      BY ReassemblerAssumption DEF Open, Sound, Assembling
    <2> HIDE DEF cond
    <2> QED
      BY <1>1, <2>1, <2>2, EndIfKeeps
  <1> QED
    BY <1>2, <1>3

-----------------------------------------------------------------------------
\* push_substring.

\* The numbers a sound object has.
LEMMA SoundNumbers ==
    ASSUME NEW x, Sound(x)
    PROVE  /\ x.cur_idx \in Nat /\ x.cur_idx <= Total /\ x.output.read_bytes \in Nat
           /\ x.output.read_bytes <= x.cur_idx /\ x.cur_idx <= x.output.read_bytes + Capacity
           /\ Total \in Nat /\ Capacity \in Nat /\ Limit(x) \in Nat
           /\ x.cur_idx <= Limit(x) /\ Limit(x) <= Total
           /\ Limit(x) <= x.output.read_bytes + Capacity
           /\ Len(x.output.buffer) = x.cur_idx - x.output.read_bytes
  <1> DEFINE c == x.cur_idx
             d == x.output.read_bytes
             k == c - d
  <1>1. /\ c \in 0..Total /\ d \in 0..c /\ c <= d + Capacity
        /\ Total \in Nat /\ Capacity \in Nat
        /\ x.output.buffer = Bytes(d, k)
    BY ReassemblerAssumption DEF Sound, Assembling
  <1>2. Limit(x) = IF Total <= d + Capacity THEN Total ELSE d + Capacity
    BY DEF Limit
  <1> HIDE DEF c, d
  <1>3. /\ c \in Nat /\ c <= Total /\ d \in Nat /\ d <= c /\ k \in Nat
        /\ c <= Limit(x) /\ Limit(x) <= Total /\ Limit(x) <= d + Capacity /\ Limit(x) \in Nat
    BY <1>1, <1>2
  <1>4. Len(x.output.buffer) = k
    <2> HIDE DEF k
    <2> QED
      BY <1>1, <1>3, BytesType
  <1> QED
    BY <1>1, <1>3, <1>4 DEF c, d, k

\* The window ends `Capacity` bytes behind the last byte read.
LEMMA MaxIndex ==
    ASSUME NEW x, Sound(x)
    PROVE  SR!max_idx(x) = x.output.read_bytes + Capacity
  <1> DEFINE c == x.cur_idx
             d == x.output.read_bytes
             k == Len(x.output.buffer)
  <1>1. c \in Nat /\ d \in Nat /\ Capacity \in Nat /\ k = c - d
    BY SoundNumbers
  <1>2. x.capacity = Capacity
    BY DEF Sound, IsObject
  <1>3. SR!max_idx(x) = c - k + Capacity
    BY <1>2 DEF SR!max_idx, SR!BS!buffer_size
  <1> HIDE DEF c, d, k
  <1>4. c - k + Capacity = d + Capacity
    BY <1>1
  <1> QED
    BY <1>3, <1>4 DEF d

\* The part of a substring that is kept is a piece of the stream.
LEMMA TrimmedIs ==
    ASSUME NEW x, NEW first \in Nat, NEW end \in Nat, NEW limit \in Nat,
           x.cur_idx \in Nat, first <= end, x.cur_idx <= end,
           first <= limit, x.cur_idx <= limit,
           NEW a, a = IF first < x.cur_idx THEN x.cur_idx ELSE first,
           NEW b, b = IF end <= limit THEN end ELSE limit
    PROVE  SR!Trimmed(x, Bytes(first, end - first), first, limit) = Piece(a, b)
  <1> DEFINE c == x.cur_idx
             len == end - first
             k == b - first
             off == IF first < c THEN c - first ELSE 0
             data == Bytes(first, len)
             kept == Bytes(first, k)
  <1>1. c \in Nat
    OBVIOUS
  <1>2. /\ a = IF first < c THEN c ELSE first
        /\ c <= end /\ c <= limit
    OBVIOUS
  <1> HIDE DEF c
  <1>3. /\ len \in Nat /\ k \in Nat /\ k <= len /\ off \in Nat /\ off <= k
        /\ first + off = a /\ k - off = b - a
        /\ a \in Nat /\ b \in Nat /\ a <= b /\ 0 \in Nat /\ 0 <= k
        /\ k - 0 = k /\ first + 0 = first /\ 0 + 1 = 1 /\ k <= k
        /\ (IF len <= limit - first THEN len ELSE limit - first) = k
    BY <1>1, <1>2
  <1> HIDE DEF len, k, off
  <1>4. Len(data) = len /\ Len(kept) = k
    BY <1>3, BytesType
  <1>5. SR!BS!AtMost(Len(data), limit - first) = k
    BY <1>3, <1>4 DEF SR!BS!AtMost
  <1>6. SubSeq(data, 1, k) = kept
    <2>1. PartIs(first, len, 0, k)
      BY <1>3, BytesPart
    <2> QED
      BY <1>3, <2>1, Zenon DEF PartIs
  <1>7. SubSeq(kept, off + 1, k) = Bytes(a, b - a)
    <2>1. PartIs(first, k, off, k)
      BY <1>3, BytesPart
    <2> QED
      BY <1>3, <2>1, Zenon DEF PartIs
  <1> HIDE DEF data, kept
  <1>8. SR!Trimmed(x, data, first, limit)
            = SR!Node(first + off, SubSeq(kept, off + 1, Len(kept)))
    BY <1>5, <1>6, Zenon DEF SR!Trimmed, off, c
  <1>9. SR!Trimmed(x, data, first, limit) = Piece(a, b)
    BY <1>3, <1>4, <1>7, <1>8, Zenon DEF Piece
  <1> QED
    BY <1>9 DEF data, len

\* Between the insertion and the write: as Buffering, but one node may start where
\* the output stops.
Inserted(x, blk, buf) ==
    /\ IsObject(x) /\ Assembling(x)
    /\ x.data_buffer = buf \union {blk} /\ blk \notin buf
    /\ Buffered(x.data_buffer, x.cur_idx, Limit(x))
    /\ \A n \in buf : n.idx >= x.cur_idx + 1
    /\ x.unassembled_bytes = Cardinality(Positions(x.data_buffer))

\* Writing a piece that fits to the output.
LEMMA WriteFits ==
    ASSUME NEW s, s = [m \in StreamMembers |-> s[m]], s.capacity = Capacity,
           NEW d \in Nat, NEW c \in Nat, NEW e \in Nat, d <= c, c <= e, e <= d + Capacity,
           s.read_bytes = d, s.write_bytes = c, s.buffer = Bytes(d, c - d),
           NEW t, t = SR!BS!write(s, Bytes(c, e - c))
    PROVE  /\ SR!BS!Accepted(s, Bytes(c, e - c)) = e - c
           /\ t = [m \in StreamMembers |-> t[m]] /\ t.capacity = Capacity
           /\ t.read_bytes = d /\ t.buffer = Bytes(d, e - d) /\ t.input_end = s.input_end
           /\ t.write_bytes = e
  <1> DEFINE i == c - d
             j == e - c
             n == SR!BS!Accepted(s, Bytes(c, j))
  <1>1. /\ i \in Nat /\ j \in Nat /\ d + i = c /\ i + j = e - d /\ j <= Capacity - i
        /\ 0 \in Nat /\ 0 <= j /\ j <= j /\ c + 0 = c /\ j - 0 = j /\ 0 + 1 = 1
    BY ReassemblerAssumption
  <1>2. s.buffer = Bytes(d, i)
    OBVIOUS
  <1> HIDE DEF i
  <1>3. Len(s.buffer) = i
    BY <1>1, <1>2, BytesType
  <1> HIDE DEF j
  <1>4. Len(Bytes(c, j)) = j
    BY <1>1, BytesType
  <1>5. n = j
    BY <1>1, <1>3, <1>4 DEF SR!BS!Accepted, SR!BS!AtMost, SR!BS!remaining_capacity,
                            SR!BS!buffer_size
  <1>6. SubSeq(Bytes(c, j), 1, j) = Bytes(c, j)
    <2>1. PartIs(c, j, 0, j)
      BY <1>1, BytesPart
    <2> QED
      BY <1>1, <2>1, Zenon DEF PartIs
  <1>7. Bytes(d, i) \o Bytes(c, j) = Bytes(d, e - d)
    <2>1. JoinIs(d, i, j)
      BY <1>1, BytesJoin
    <2> QED
      BY <1>1, <2>1, Zenon DEF JoinIs
  <1> DEFINE u == s.buffer \o SubSeq(Bytes(c, j), 1, n)
             w == s.write_bytes + n
  <1>8. t = [s EXCEPT !.buffer = u, !.write_bytes = w]
    BY DEF SR!BS!write, j
  <1>9. u = Bytes(d, e - d) /\ w = e
    <2>1. w = e
      BY <1>5 DEF j
    <2> QED
      BY <1>2, <1>5, <1>6, <1>7, <2>1, Zenon
  <1> HIDE DEF u, w
  <1>10. /\ t = [m \in StreamMembers |-> t[m]] /\ t.capacity = s.capacity
         /\ t.read_bytes = s.read_bytes /\ t.buffer = u /\ t.input_end = s.input_end
         /\ t.write_bytes = w
    BY <1>8 DEF StreamMembers
  <1> QED
    BY <1>5, <1>9, <1>10 DEF j

\* Writing the first node out, if it starts where the output stops.
LEMMA WriteOutKeeps ==
    ASSUME NEW x, NEW blk, NEW buf, Inserted(x, blk, buf),
           \A n \in buf : n.idx >= blk.idx => SR!EndOf(blk) < n.idx,
           NEW y, y = SR!WriteOut(x)
    PROVE  /\ Sound(y) /\ Known(y) = Known(x) /\ y.input_end_idx = x.input_end_idx
           /\ y.output.read_bytes = x.output.read_bytes
           /\ y.output.input_end = x.output.input_end
  <1> DEFINE all == x.data_buffer
             first == CHOOSE n \in all : \A m \in all : n.idx <= m.idx
             s == x.output
             c == x.cur_idx
             d == s.read_bytes
             e == SR!EndOf(blk)
             data == Bytes(c, e - c)
             t == SR!BS!write(s, data)
  <1>1. /\ IsObject(x) /\ Assembling(x) /\ all = buf \union {blk} /\ blk \notin buf
        /\ Buffered(all, c, Limit(x)) /\ (\A n \in buf : n.idx >= c + 1)
        /\ x.unassembled_bytes = Cardinality(Positions(all))
    BY DEF Inserted
  <1>2. /\ c \in Nat /\ c <= Total /\ d \in Nat /\ d <= c /\ c <= d + Capacity
        /\ s.buffer = Bytes(d, c - d) /\ s.write_bytes = c /\ Total \in Nat /\ Capacity \in Nat
    BY <1>1, ReassemblerAssumption DEF Assembling
  <1>3. /\ IsNode(blk) /\ blk.idx \in Nat /\ e \in Nat /\ blk.idx <= e /\ c <= blk.idx
        /\ e <= Limit(x)
    BY <1>1, NodeIsPiece DEF Buffered
  <1>4. /\ \A n \in all : IsNode(n) /\ n.idx \in Nat
        /\ \A n \in all : n.idx >= c
    BY <1>1, NodeIsPiece DEF Buffered
  <1>5. first \in all /\ \A m \in all : first.idx <= m.idx
    <2>1. all # {}
      BY <1>1
    <2>2. \E n \in all : \A m \in all : n.idx <= m.idx
      BY <1>4, <2>1, FirstNode
    <2> HIDE DEF all
    <2> QED
      BY <2>2
  <1>6. y = IF first.idx # c THEN x
            ELSE [x EXCEPT !.output = SR!BS!write(@, first.data),
                           !.unassembled_bytes = @ - SR!BS!Accepted(s, first.data),
                           !.cur_idx = @ + SR!BS!Accepted(s, first.data),
                           !.data_buffer = @ \ {first}]
    BY DEF SR!WriteOut
  <1> HIDE DEF first
  <1>7. CASE blk.idx # c
    <2>1. blk.idx >= c + 1
      BY <1>2, <1>3, <1>7
    <2>2. \A n \in all : n.idx >= c + 1
      BY <1>1, <2>1
    <2>3. first.idx # c
      BY <1>2, <1>4, <1>5, <2>2
    <2>4. y = x
      BY <1>6, <2>3
    <2>5. Buffered(all, c + 1, Limit(x))
      BY <1>1, <1>2, <2>2 DEF Buffered
    <2>6. Sound(x)
      BY <1>1, <2>5 DEF Sound, Buffering
    <2> QED
      BY <2>4, <2>6
  <1>8. CASE blk.idx = c
    <2>1. first = blk
      <3>1. first.idx <= c
        BY <1>1, <1>5, <1>8
      <3>2. \A n \in buf : ~(n.idx <= c)
        BY <1>1, <1>2, <1>4
      <3> QED
        BY <1>1, <1>5, <3>1, <3>2
    <2>2. first.idx = c /\ first.data = data
      BY <1>3, <1>8, <2>1, NodeIsPiece
    <2>3. /\ s = [m \in StreamMembers |-> s[m]] /\ s.capacity = Capacity
          /\ d <= c /\ c <= e /\ e <= d + Capacity
      <3>1. s = [m \in StreamMembers |-> s[m]] /\ s.capacity = Capacity
        BY <1>1 DEF IsObject
      <3>2. e <= d + Capacity
        <4>1. Limit(x) = IF Total <= d + Capacity THEN Total ELSE d + Capacity
          BY DEF Limit
        <4> HIDE DEF d, e
        <4> QED
          BY <1>2, <1>3, <4>1
      <3> QED
        BY <1>2, <1>3, <1>8, <3>1, <3>2
    <2> DEFINE k == e - c
    <2>4. /\ SR!BS!Accepted(s, data) = k
          /\ t = [m \in StreamMembers |-> t[m]] /\ t.capacity = Capacity
          /\ t.read_bytes = d /\ t.buffer = Bytes(d, e - d) /\ t.input_end = s.input_end
          /\ t.write_bytes = e
      <3> HIDE DEF s, c, d, e
      <3>1. s.read_bytes = d /\ s.write_bytes = c /\ s.buffer = Bytes(d, c - d)
        BY <1>2 DEF d
      <3> QED
        BY <1>2, <1>3, <2>3, <3>1, WriteFits
    <2>5. y = [x EXCEPT !.output = t, !.unassembled_bytes = @ - k, !.cur_idx = @ + k,
                        !.data_buffer = @ \ {blk}]
      <3> HIDE DEF data, k
      <3> QED
        BY <1>6, <2>1, <2>2, <2>4
    <2> DEFINE u == x.unassembled_bytes - k
               v == c + k
               b == all \ {blk}
    <2>6. y = [x EXCEPT !.output = t, !.unassembled_bytes = u, !.cur_idx = v,
                        !.data_buffer = b]
      BY <2>5
    <2>7. v = e /\ b = buf
      <3>1. v = e
        <4> HIDE DEF c, e
        <4> QED
          BY <1>2, <1>3
      <3> QED
        BY <1>1, <3>1
    <2>8. u = Cardinality(Positions(buf))
      <3>1. Cardinality(Positions(all)) = Cardinality(Positions(b)) + Size(blk)
        BY <1>1, PositionsWithout
      <3>2. Size(blk) = k
        BY <1>8 DEF Size
      <3>3. Cardinality(Positions(b)) \in Nat
        <4>1. Buffered(b, c, Limit(x))
          BY <1>1, BufferedSubset
        <4> QED
          BY <4>1, PositionsFinite
      <3> DEFINE p == Cardinality(Positions(b))
                 q == Cardinality(Positions(all))
      <3>4. k \in Int
        BY <1>2, <1>3
      <3>5. u = q - k /\ q = p + k /\ p \in Nat
        BY <1>1, <3>1, <3>2, <3>3
      <3>6. p = Cardinality(Positions(buf))
        BY <2>7
      <3> HIDE DEF u, k, p, q
      <3> QED
        BY <3>4, <3>5, <3>6
    <2> HIDE DEF t, u, v, b
    <2>9. /\ y = [m \in Members |-> y[m]] /\ y.output = t /\ y.capacity = x.capacity
          /\ y.cur_idx = v /\ y.data_buffer = b /\ y.unassembled_bytes = u
          /\ y.input_end_idx = x.input_end_idx
      BY <1>1, <2>6 DEF IsObject, Members
    <2>10. IsObject(y)
      BY <1>1, <2>4, <2>9 DEF IsObject
    <2>11. Limit(y) = Limit(x)
      BY <2>4, <2>9 DEF Limit
    <2>12. Assembling(y)
      <3>1. e <= Total
        <4>1. Limit(x) = IF Total <= d + Capacity THEN Total ELSE d + Capacity
          BY DEF Limit
        <4> HIDE DEF d, e
        <4> QED
          BY <1>2, <1>3, <4>1
      <3>2. /\ y.cur_idx = e /\ y.output.read_bytes = d
            /\ y.output.buffer = Bytes(d, e - d) /\ y.output.write_bytes = e
        BY <2>4, <2>7, <2>9
      <3>3. e \in 0..Total /\ d \in 0..e /\ e <= d + Capacity
        <4> HIDE DEF c, d, e
        <4> QED
          BY <1>2, <1>3, <2>3, <3>1
      <3> HIDE DEF c, d, e
      <3> QED
        BY <3>2, <3>3 DEF Assembling
    <2>13. Buffering(y)
      <3>1. Buffered(buf, c, Limit(x))
        BY <1>1, BufferedSubset
      <3>2. \A n \in buf : n.idx >= e + 1
        <4> SUFFICES ASSUME NEW n \in buf
                     PROVE  n.idx >= e + 1
          OBVIOUS
        <4>1. n.idx >= blk.idx /\ n.idx \in Nat
          BY <1>1, <1>2, <1>4, <1>8
        <4>2. e < n.idx
          BY <4>1
        <4> QED
          BY <1>3, <4>1, <4>2
      <3>3. Buffered(buf, e + 1, Limit(x))
        BY <1>3, <3>1, <3>2 DEF Buffered
      <3> QED
        BY <2>7, <2>8, <2>9, <2>11, <3>3 DEF Buffering
    <2>14. Known(y) = Known(x)
      <3>1. Positions(all) = Positions(buf) \union Cover(blk)
        BY <1>1, <2>7, PositionsWithout DEF b
      <3>2. 0..e - 1 = (0..c - 1) \union Cover(blk)
        <4>1. Cover(blk) = c..e - 1
          BY <1>8 DEF Cover
        <4> HIDE DEF c, e
        <4>2. 0..e - 1 = (0..c - 1) \union (c..e - 1)
          BY <1>2, <1>3, <2>3
        <4> QED
          BY <4>1, <4>2
      <3>3. Known(y) = (0..e - 1) \union Positions(buf)
        BY <2>7, <2>9 DEF Known
      <3>4. Known(x) = (0..c - 1) \union Positions(all)
        BY DEF Known
      <3> QED
        BY <3>1, <3>2, <3>3, <3>4, Zenon
    <2> QED
      BY <2>4, <2>9, <2>10, <2>12, <2>13, <2>14 DEF Sound
  <1> QED
    BY <1>7, <1>8

\* The nodes left by the merging loops and the merged block.
LEMMA InsertKeeps ==
    ASSUME NEW st, NEW old, NEW all, NEW lo, NEW hi,
           Buffered(old, lo, hi), Loop(st, old, all, lo, hi), SuccDone(st), PrevDone(st),
           NEW nodes, nodes = st.buf \union {st.block}
    PROVE  /\ st.block \notin st.buf /\ Buffered(nodes, lo, hi)
           /\ Positions(nodes) = all /\ Cardinality(Positions(nodes)) = st.unassembled
  <1> DEFINE blk == st.block
             buf == st.buf
  <1>1. /\ IsNode(blk) /\ lo <= blk.idx /\ SR!EndOf(blk) <= hi /\ buf \subseteq old
        /\ Cover(blk) \union Positions(buf) = all
        /\ st.unassembled = Cardinality(Positions(buf)) + Size(blk)
    BY DEF Loop
  <1>2. blk.idx \in Nat /\ SR!EndOf(blk) \in Nat /\ blk.idx <= SR!EndOf(blk)
    BY <1>1, NodeIsPiece
  <1>3. Buffered(buf, lo, hi)
    BY <1>1, BufferedSubset
  <1>4. ASSUME NEW n \in buf
        PROVE  SR!EndOf(blk) < n.idx \/ SR!EndOf(n) < blk.idx
    <2>1. n.idx \in Nat
      BY <1>3, NodeIsPiece DEF Buffered
    <2>2. n.idx >= blk.idx \/ n.idx < blk.idx
      BY <1>2, <2>1
    <2> QED
      BY <2>2 DEF SuccDone, PrevDone
  <1>5. blk \notin buf
    BY <1>2, <1>4
  <1>6. Apart(nodes)
    <2>1. Apart(buf)
      BY <1>3 DEF Buffered
    <2> QED
      BY <1>4, <2>1 DEF Apart
  <1>7. IsFiniteSet(nodes)
    BY <1>3, FS_AddElement DEF Buffered
  <1>8. Buffered(nodes, lo, hi)
    BY <1>1, <1>3, <1>6, <1>7 DEF Buffered
  <1>9. nodes \ {blk} = buf /\ blk \in nodes
    BY <1>5
  <1>10. /\ Positions(nodes) = Positions(buf) \union Cover(blk)
         /\ Cardinality(Positions(nodes)) = Cardinality(Positions(buf)) + Size(blk)
    BY <1>8, <1>9, PositionsWithout
  <1> QED
    BY <1>1, <1>5, <1>8, <1>10

\* Merging, inserting, writing out and looking for the end.
LEMMA AssembleKeeps ==
    ASSUME NEW x, Sound(x), NEW block, IsNode(block),
           x.cur_idx <= block.idx, SR!EndOf(block) <= Limit(x),
           NEW eof, NEW y, y = SR!Assemble(x, block, eof)
    PROVE  /\ Sound(y) /\ Ended(y) /\ y.output.read_bytes = x.output.read_bytes
           /\ Known(y) = Known(x) \union Cover(block)
           /\ Open(x) /\ ~eof /\ Total < Int32Max => Open(y)
  <1> DEFINE old == x.data_buffer
             c == x.cur_idx
             hi == Limit(x)
             st == [block |-> block, buf |-> old,
                    unassembled |-> x.unassembled_bytes + Len(block.data)]
             all == Cover(block) \union Positions(old)
             m == SR!MergeAll(st)
             nodes == m.buf \union {m.block}
             u == m.unassembled
             w == [x EXCEPT !.data_buffer = nodes, !.unassembled_bytes = u]
             z == SR!WriteOut(w)
             f == SR!EndIfComplete(z)
  <1>1. y = SR!EndIf(f, eof)
    BY DEF SR!Assemble
  <1>2. /\ IsObject(x) /\ Assembling(x) /\ Buffered(old, c + 1, hi)
        /\ x.unassembled_bytes = Cardinality(Positions(old))
    BY DEF Sound, Buffering
  <1>3. c \in Nat /\ hi \in Nat
    BY SoundNumbers
  <1>4. \A n \in old : n.idx \in Nat /\ n.idx >= c + 1
    BY <1>2, NodeIsPiece DEF Buffered
  <1>5. Buffered(old, c, hi)
    <2>1. \A n \in old : c <= n.idx
      BY <1>3, <1>4
    <2> QED
      BY <1>2, <1>3, <2>1 DEF Buffered
  <1>6. Loop(st, old, all, c, hi)
    <2>1. Len(block.data) = Size(block)
      BY NodeIsPiece DEF Size
    <2>2. /\ st.block = block /\ st.buf = old
          /\ st.unassembled = Cardinality(Positions(old)) + Size(block)
      BY <1>2, <2>1
    <2> HIDE DEF st
    <2> QED
      BY <2>2 DEF Loop
  <1> HIDE DEF st
  <1>7. Loop(m, old, all, c, hi) /\ SuccDone(m) /\ PrevDone(m)
    BY <1>5, <1>6, MergeAllKeeps
  <1> HIDE DEF m
  <1>8. /\ m.block \notin m.buf /\ Buffered(nodes, c, hi)
        /\ Positions(nodes) = all /\ Cardinality(Positions(nodes)) = u
    BY <1>5, <1>7, InsertKeeps
  <1>9. /\ w = [k \in Members |-> w[k]] /\ w.output = x.output /\ w.capacity = x.capacity
        /\ w.cur_idx = c /\ w.data_buffer = nodes /\ w.unassembled_bytes = u
        /\ w.input_end_idx = x.input_end_idx
    <2> HIDE DEF nodes, u
    <2> QED
      BY <1>2 DEF IsObject, Members
  <1> HIDE DEF w, u
  <1>10. Inserted(w, m.block, m.buf)
    <2>1. IsObject(w) /\ Assembling(w)
      BY <1>2, <1>9 DEF IsObject, Assembling
    <2>2. Limit(w) = hi
      BY <1>9 DEF Limit
    <2>3. \A n \in m.buf : n.idx >= c + 1
      BY <1>4, <1>7 DEF Loop
    <2> QED
      BY <1>8, <1>9, <2>1, <2>2, <2>3 DEF Inserted
  <1>11. \A n \in m.buf : n.idx >= m.block.idx => SR!EndOf(m.block) < n.idx
    BY <1>7 DEF SuccDone
  <1>12. /\ Sound(z) /\ Known(z) = Known(w) /\ z.output.read_bytes = w.output.read_bytes
         /\ z.input_end_idx = w.input_end_idx /\ z.output.input_end = w.output.input_end
    BY <1>10, <1>11, WriteOutKeeps
  <1> HIDE DEF z
  <1>13. /\ Sound(f) /\ Same(f, z) /\ Known(f) = Known(z) /\ Ended(f)
         /\ Open(z) /\ Total < Int32Max => Open(f)
    BY <1>12, EndIfCompleteKeeps
  <1> HIDE DEF f
  <1>14. /\ Sound(y) /\ Same(y, f) /\ Known(y) = Known(f) /\ Ended(y)
         /\ ~eof => y = f
    BY <1>1, <1>13, EndIfKeeps
  <1>15. Known(w) = Known(x) \union Cover(block)
    BY <1>8, <1>9 DEF Known
  <1>16. y.output.read_bytes = x.output.read_bytes
    BY <1>9, <1>12, <1>13, <1>14 DEF Same
  <1>17. Open(x) => Open(z)
    BY <1>9, <1>12 DEF Open
  <1> QED
    BY <1>12, <1>13, <1>14, <1>15, <1>16, <1>17

\* A substring of the stream comes.
LEMMA PushKeeps ==
    ASSUME NEW x, Sound(x), NEW first \in 0..Total, NEW end \in 0..Total,
           first <= end, NEW eof \in BOOLEAN,
           NEW y, y = SR!push_substring(x, Bytes(first, end - first), first, eof)
    PROVE  /\ Sound(y) /\ Ended(y) /\ y.output.read_bytes = x.output.read_bytes
           /\ Known(y) = Known(x) \union
                         {k \in first..end - 1 : k < x.output.read_bytes + Capacity}
           /\ Open(x) /\ ~eof /\ Total < Int32Max => Open(y)
  <1> DEFINE data == Bytes(first, end - first)
             i == (first + Len(data)) % Mod64
             noted == IF eof THEN [x EXCEPT !.input_end_idx = i] ELSE x
             c == x.cur_idx
             d == x.output.read_bytes
             lim == d + Capacity
             new == {k \in first..end - 1 : k < lim}
  <1>1. /\ first \in Nat /\ end \in Nat /\ c \in Nat /\ d \in Nat /\ lim \in Nat
        /\ Capacity \in Nat /\ Total \in Nat /\ c <= Total /\ c <= lim
        /\ first <= Total /\ end <= Total
    <2>1. c \in Nat /\ d \in Nat /\ Capacity \in Nat /\ Total \in Nat /\ c <= Total /\ c <= lim
      BY SoundNumbers
    <2> HIDE DEF c, d
    <2> QED
      BY <2>1
  <1>2. i = end
    <2> DEFINE l == end - first
    <2>1. l \in Nat /\ first + l = end
      BY <1>1
    <2>2. Len(data) = l
      <3>1. data = Bytes(first, l)
        OBVIOUS
      <3> HIDE DEF l, data
      <3> QED
        BY <1>1, <2>1, <3>1, BytesType
    <2>3. Mod64 \in Nat \ {0} /\ end \in 0..Mod64 - 1
      BY <1>1, ReassemblerAssumption
    <2>4. end % Mod64 = end
      BY <2>3, NP!ModSmall
    <2> QED
      BY <2>1, <2>2, <2>4
  <1>3. SR!max_idx(x) = lim
    BY MaxIndex
  <1>4. y = IF first > lim THEN noted
            ELSE IF i <= c THEN SR!EndIfComplete(noted)
            ELSE SR!Assemble(noted, SR!Trimmed(x, data, first, lim), eof)
    BY <1>3 DEF SR!push_substring
  <1>5. /\ IsObject(noted) /\ Same(noted, x) /\ noted.output = x.output
        /\ (eof => noted.input_end_idx = end) /\ (~eof => noted.input_end_idx = x.input_end_idx)
    <2>1. CASE eof
      <3> HIDE DEF i
      <3>1. Noted(noted, x, i)
        BY <2>1, Zenon DEF Noted
      <3> HIDE DEF noted
      <3> QED
        BY <1>2, <2>1, <3>1, NotedIsSame
    <2>2. CASE ~eof
      BY <2>2 DEF Sound, Same
    <2> QED
      BY <2>1, <2>2
  <1> HIDE DEF noted, i, data
  <1>6. Sound(noted) /\ Known(noted) = Known(x)
    BY <1>5, SameIsSound
  <1>7. noted.cur_idx = c /\ noted.output.read_bytes = d
    BY <1>5 DEF Same
  <1>7a. Open(x) /\ ~eof => Open(noted)
    BY <1>5 DEF Open
  <1>8. CASE first > lim
    <2>1. y = noted
      BY <1>4, <1>8
    <2>2. new = {}
      <3> HIDE DEF lim, c, d
      <3> QED
        BY <1>1, <1>8
    <2>3. noted.cur_idx # Total
      <3> HIDE DEF lim, c, d
      <3> QED
        BY <1>1, <1>7, <1>8
    <2>4. Ended(y)
      BY <2>1, <2>3 DEF Ended
    <2> QED
      BY <1>6, <1>7, <1>7a, <2>1, <2>2, <2>4
  <1>9. CASE ~(first > lim) /\ end <= c
    <2>1. y = SR!EndIfComplete(noted)
      BY <1>2, <1>4, <1>9
    <2>2. /\ Sound(y) /\ Same(y, noted) /\ Known(y) = Known(noted) /\ Ended(y)
          /\ Open(noted) /\ Total < Int32Max => Open(y)
      BY <1>6, <2>1, EndIfCompleteKeeps
    <2>3. new \subseteq Known(x)
      <3>1. new \subseteq 0..c - 1
        <4> HIDE DEF lim, c, d
        <4> QED
          BY <1>1, <1>9
      <3> QED
        BY <3>1 DEF Known
    <2>4. y.output.read_bytes = d
      BY <1>7, <2>2 DEF Same
    <2> QED
      BY <1>6, <1>7a, <2>2, <2>3, <2>4
  <1>10. CASE ~(first > lim) /\ ~(end <= c)
    <2> DEFINE a == IF first < c THEN c ELSE first
               b == IF end <= lim THEN end ELSE lim
               blk == SR!Trimmed(x, data, first, lim)
    <2>1. y = SR!Assemble(noted, blk, eof)
      BY <1>2, <1>4, <1>10
    <2>2. /\ a \in Nat /\ b \in Nat /\ a <= b /\ c <= a /\ c <= end /\ first <= lim
          /\ b <= Total /\ b <= lim
      <3> HIDE DEF lim, c, d
      <3> QED
        BY <1>1, <1>10
    <2>3. blk = Piece(a, b)
      <3>1. x.cur_idx \in Nat /\ x.cur_idx <= end /\ x.cur_idx <= lim
        BY <1>1, <2>2
      <3>2. a = IF first < x.cur_idx THEN x.cur_idx ELSE first
        OBVIOUS
      <3> HIDE DEF a, b, lim, c, d
      <3>3. b = IF end <= lim THEN end ELSE lim
        BY DEF b
      <3> QED
        BY <1>1, <2>2, <3>1, <3>2, <3>3, TrimmedIs DEF data
    <2> HIDE DEF a, b, blk
    <2>4. blk.idx = a /\ SR!EndOf(blk) = b /\ IsNode(blk)
      BY <2>2, <2>3, PieceMembers
    <2>5. noted.cur_idx <= blk.idx /\ SR!EndOf(blk) <= Limit(noted)
      <3>1. Limit(noted) = IF Total <= lim THEN Total ELSE lim
        BY <1>7 DEF Limit
      <3> QED
        BY <1>7, <2>2, <2>4, <3>1
    <2>6. /\ Sound(y) /\ Ended(y) /\ y.output.read_bytes = noted.output.read_bytes
          /\ Known(y) = Known(noted) \union Cover(blk)
          /\ Open(noted) /\ ~eof /\ Total < Int32Max => Open(y)
      BY <1>6, <2>1, <2>4, <2>5, AssembleKeeps
    <2>7. (0..c - 1) \union Cover(blk) = (0..c - 1) \union new
      <3>1. Cover(blk) = a..b - 1
        BY <2>4 DEF Cover
      <3> HIDE DEF lim, c, d
      <3>2. ASSUME NEW k \in Int
            PROVE  (k \in 0..c - 1 \/ k \in a..b - 1)
                   <=> (k \in 0..c - 1 \/ (k \in first..end - 1 /\ k < lim))
        BY <1>1, <1>10, <2>2 DEF a, b
      <3>3. /\ \A k \in 0..c - 1 : k \in Int
            /\ \A k \in a..b - 1 : k \in Int
            /\ \A k \in first..end - 1 : k \in Int
        OBVIOUS
      <3> QED
        BY <3>1, <3>2, <3>3
    <2>8. Known(x) \union Cover(blk) = Known(x) \union new
      <3> HIDE DEF new
      <3> QED
        BY <2>7 DEF Known
    <2> QED
      BY <1>6, <1>7, <1>7a, <2>6, <2>8
  <1> QED
    BY <1>8, <1>9, <1>10

-----------------------------------------------------------------------------
\* The reader, and the theorems.

\* The reader takes n bytes of those assembled.
LEMMA ReadKeeps ==
    ASSUME NEW x, Sound(x), NEW n \in Nat, n <= Len(x.output.buffer),
           NEW y, y = [x EXCEPT !.output = BS!pop_output(@, n)]
    PROVE  /\ Sound(y) /\ Known(y) = Known(x)
           /\ Ended(x) => Ended(y)
           /\ Open(x) => Open(y)
           /\ y.cur_idx = x.cur_idx /\ y.output.read_bytes = x.output.read_bytes + n
  <1> DEFINE s == x.output
             c == x.cur_idx
             d == s.read_bytes
             k == c - d
             t == BS!pop_output(s, n)
             u == SubSeq(s.buffer, n + 1, Len(s.buffer))
             v == d + n
  <1>1. /\ c \in Nat /\ c <= Total /\ d \in Nat /\ d <= c /\ c <= d + Capacity
        /\ Total \in Nat /\ Capacity \in Nat /\ Len(s.buffer) = k
    BY SoundNumbers
  <1>2. /\ IsObject(x) /\ s = [m \in StreamMembers |-> s[m]]
        /\ s.buffer = Bytes(d, k) /\ s.write_bytes = c
    BY DEF Sound, IsObject, Assembling
  <1>3. /\ k \in Nat /\ n <= k /\ k <= k /\ v \in Nat /\ v <= c /\ k - n = c - v
        /\ c <= v + Capacity
    <2> HIDE DEF c, d
    <2> QED
      BY <1>1
  <1>4. t = [s EXCEPT !.buffer = u, !.read_bytes = v]
    <2>1. BS!AtMost(n, Len(s.buffer)) = n
      BY DEF BS!AtMost
    <2> QED
      BY <2>1 DEF BS!pop_output, BS!buffer_size
  <1>5. u = Bytes(v, c - v)
    <2> HIDE DEF c, d, k
    <2>1. PartIs(d, k, n, k)
      BY <1>1, <1>3, BytesPart
    <2> QED
      BY <1>1, <1>2, <1>3, <2>1, Zenon DEF PartIs
  <1>6. y = [x EXCEPT !.output = t]
    OBVIOUS
  <1> HIDE DEF u, v
  <1>7. /\ t = [m \in StreamMembers |-> t[m]] /\ t.capacity = s.capacity
        /\ t.buffer = u /\ t.read_bytes = v /\ t.input_end = s.input_end
        /\ t.write_bytes = s.write_bytes
    BY <1>2, <1>4 DEF StreamMembers
  <1> HIDE DEF t
  <1>8. /\ y = [m \in Members |-> y[m]] /\ y.output = t /\ y.capacity = x.capacity
        /\ y.cur_idx = c /\ y.data_buffer = x.data_buffer
        /\ y.unassembled_bytes = x.unassembled_bytes /\ y.input_end_idx = x.input_end_idx
    BY <1>2, <1>6 DEF IsObject, Members
  <1>9. IsObject(y)
    BY <1>2, <1>7, <1>8 DEF IsObject
  <1>10. Assembling(y)
    <2>1. /\ y.cur_idx = c /\ y.output.read_bytes = v /\ y.output.buffer = Bytes(v, c - v)
          /\ y.output.write_bytes = c
      BY <1>2, <1>5, <1>7, <1>8
    <2>2. c \in 0..Total /\ v \in 0..c
      <3> HIDE DEF c, d
      <3> QED
        BY <1>1, <1>3
    <2> HIDE DEF c
    <2> QED
      BY <1>3, <2>1, <2>2 DEF Assembling
  <1>11. Buffering(y)
    <2>1. Limit(x) \in Nat /\ Limit(y) \in Nat /\ Limit(x) <= Limit(y)
      <3>1. Limit(x) = IF Total <= d + Capacity THEN Total ELSE d + Capacity
        BY DEF Limit
      <3>2. Limit(y) = IF Total <= v + Capacity THEN Total ELSE v + Capacity
        BY <1>7, <1>8 DEF Limit
      <3>3. v = d + n
        BY DEF v
      <3>4. d \in Nat /\ v \in Nat /\ Total \in Nat /\ Capacity \in Nat
        BY <1>1, <1>3
      <3> DEFINE p == Limit(x)
                 q == Limit(y)
      <3> HIDE DEF d, p, q
      <3>5. p \in Nat /\ q \in Nat /\ p <= q
        BY <3>1, <3>2, <3>3, <3>4 DEF p, q
      <3> QED
        BY <3>5 DEF p, q
    <2>2. Buffered(x.data_buffer, c + 1, Limit(x))
      BY DEF Sound, Buffering
    <2>3. \A m \in x.data_buffer : SR!EndOf(m) <= Limit(y)
      <3> SUFFICES ASSUME NEW m \in x.data_buffer
                   PROVE  SR!EndOf(m) <= Limit(y)
        OBVIOUS
      <3>1. SR!EndOf(m) \in Nat /\ SR!EndOf(m) <= Limit(x)
        BY <2>2, NodeIsPiece DEF Buffered
      <3> QED
        BY <2>1, <3>1
    <2>4. Buffered(x.data_buffer, c + 1, Limit(y))
      BY <2>1, <2>2, <2>3 DEF Buffered
    <2>5. x.unassembled_bytes = Cardinality(Positions(x.data_buffer))
      BY DEF Sound, Buffering
    <2> QED
      BY <1>8, <2>4, <2>5 DEF Buffering
  <1>12. (Ended(x) => Ended(y)) /\ (Open(x) => Open(y))
    BY <1>7, <1>8 DEF Ended, Open
  <1>13. Known(y) = Known(x)
    BY <1>8 DEF Known
  <1> QED
    BY <1>7, <1>8, <1>9, <1>10, <1>11, <1>12, <1>13 DEF Sound, v

\* The two for a reader of this module: a substring of the stream, and a read.
Learns(x, y, first, end, eof) ==
    /\ Sound(y)
    /\ Known(y) \subseteq Known(x) \union (first..end - 1)
    /\ Open(x) /\ ~eof => Open(y)
LEMMA PushLearns ==
    ASSUME NEW x, Sound(x), NEW first \in 0..Total, NEW end \in 0..Total, first <= end,
           NEW eof \in BOOLEAN, Total < Int32Max,
           NEW y, y = SR!push_substring(x, Bytes(first, end - first), first, eof)
    PROVE  Learns(x, y, first, end, eof)
  BY PushKeeps DEF Learns

AfterRead(x, n) == [x EXCEPT !.output = BS!pop_output(@, n)]
Reads(x, y) ==
    /\ Sound(y) /\ Known(y) = Known(x) /\ (Open(x) => Open(y))
    /\ y.output.error = x.output.error
LEMMA ReadReads ==
    ASSUME NEW x, Sound(x), NEW n \in Nat, n <= Len(x.output.buffer)
    PROVE  Reads(x, AfterRead(x, n))
  <1> DEFINE s == x.output
             t == BS!pop_output(s, n)
             y == AfterRead(x, n)
  <1>1. x = [m \in Members |-> x[m]] /\ s = [m \in StreamMembers |-> s[m]]
    BY DEF Sound, IsObject
  <1>2. t.error = s.error
    BY <1>1 DEF BS!pop_output, StreamMembers
  <1>3. y = [x EXCEPT !.output = t]
    BY DEF AfterRead
  <1>4. Sound(y) /\ Known(y) = Known(x) /\ (Open(x) => Open(y))
    BY <1>3, ReadKeeps
  <1> HIDE DEF s, t, y
  <1>5. y.output = t
    BY <1>1, <1>3 DEF Members
  <1> QED
    BY <1>2, <1>4, <1>5 DEF Reads, s, y

\* A stream that fails: nothing but its error flag changes.
AfterError(x) == [x EXCEPT !.output = BS!set_error(@)]
Fails(x, y) ==
    /\ Sound(y) /\ Known(y) = Known(x) /\ (Open(x) => Open(y)) /\ y.output.error
LEMMA ErrorFails ==
    ASSUME NEW x, Sound(x)
    PROVE  Fails(x, AfterError(x))
  <1> DEFINE s == x.output
             t == BS!set_error(s)
             y == AfterError(x)
  <1>1. /\ x = [m \in Members |-> x[m]] /\ s = [m \in StreamMembers |-> s[m]]
        /\ x.capacity = Capacity /\ s.capacity = Capacity
    BY DEF Sound, IsObject
  <1>2. /\ t = [m \in StreamMembers |-> t[m]] /\ t.capacity = s.capacity
        /\ t.buffer = s.buffer /\ t.read_bytes = s.read_bytes
        /\ t.write_bytes = s.write_bytes /\ t.input_end = s.input_end /\ t.error = TRUE
    BY <1>1 DEF BS!set_error, StreamMembers
  <1>3. y = [x EXCEPT !.output = t]
    BY DEF AfterError
  <1> HIDE DEF t, y
  <1>4. /\ y = [m \in Members |-> y[m]] /\ y.output = t /\ y.capacity = x.capacity
        /\ y.data_buffer = x.data_buffer /\ y.cur_idx = x.cur_idx
        /\ y.input_end_idx = x.input_end_idx
        /\ y.unassembled_bytes = x.unassembled_bytes
    BY <1>1, <1>3 DEF Members
  <1>5. IsObject(y) /\ Same(y, x)
    BY <1>1, <1>2, <1>4, Zenon DEF IsObject, Same
  <1>6. Sound(y) /\ Known(y) = Known(x)
    BY <1>5, SameIsSound
  <1>7. Open(x) => Open(y)
    BY <1>2, <1>4, Zenon DEF Open
  <1>8. y.output.error
    BY <1>2, <1>4, Zenon
  <1> QED
    BY <1>6, <1>7, <1>8, Zenon DEF Fails, y

\* A new reassembler.
LEMMA NewIsSound ==
    ASSUME NEW x, x = SR!New(Capacity)
    PROVE  Sound(x) /\ Ended(x) /\ Open(x) /\ Known(x) = {}
  <1>1. /\ x = [output |-> SR!BS!New(Capacity), capacity |-> Capacity, data_buffer |-> {},
                cur_idx |-> 0, input_end_idx |-> Int32Max, unassembled_bytes |-> 0]
    BY DEF SR!New
  <1>2. x.output = [capacity |-> Capacity, buffer |-> <<>>, write_bytes |-> 0, read_bytes |-> 0,
                    input_end |-> FALSE, error |-> FALSE]
    BY <1>1 DEF SR!BS!New
  <1>3. IsObject(x)
    <2>1. x.output = [m \in StreamMembers |-> x.output[m]] /\ x.output.capacity = Capacity
      <3> DEFINE s == x.output
      <3>1. s = [capacity |-> Capacity, buffer |-> <<>>, write_bytes |-> 0, read_bytes |-> 0,
                 input_end |-> FALSE, error |-> FALSE]
        BY <1>2
      <3> HIDE DEF s
      <3>2. s = [m \in StreamMembers |-> s[m]] /\ s.capacity = Capacity
        BY <3>1 DEF StreamMembers
      <3> QED
        BY <3>2 DEF s
    <2>2. x = [m \in Members |-> x[m]] /\ x.capacity = Capacity
      BY <1>1 DEF Members
    <2> QED
      BY <2>1, <2>2 DEF IsObject
  <1>4. Assembling(x)
    <2>1. Bytes(0, 0) = <<>>
      <3>1. Bytes(0, 0) \in Seq(Nat) /\ Len(Bytes(0, 0)) = 0
        BY BytesType
      <3> QED
        BY <3>1
    <2>2. /\ x.cur_idx = 0 /\ x.output.read_bytes = 0 /\ x.output.buffer = Bytes(0, 0)
          /\ x.output.write_bytes = 0
      BY <1>1, <1>2, <2>1
    <2> QED
      BY <2>2, ReassemblerAssumption DEF Assembling
  <1>5. Buffering(x)
    <2>1. x.data_buffer = {} /\ x.cur_idx + 1 \in Nat /\ x.unassembled_bytes = 0
      BY <1>1
    <2>2. Limit(x) \in Nat
      BY <1>2, ReassemblerAssumption DEF Limit
    <2>3. Positions({}) = {}
      BY DEF Positions
    <2> QED
      BY <2>1, <2>2, <2>3, FS_EmptySet DEF Buffering, Buffered, Apart
  <1>6. Ended(x)
    BY <1>1, ReassemblerAssumption DEF Ended
  <1>7. Open(x)
    BY <1>1, <1>2 DEF Open
  <1>8. Known(x) = {}
    <2>1. 0..0 - 1 = {} /\ Positions({}) = {}
      BY DEF Positions
    <2> QED
      BY <1>1, <2>1 DEF Known
  <1> QED
    BY <1>3, <1>4, <1>5, <1>6, <1>7, <1>8 DEF Sound

\* The initial state.
LEMMA InitInv ==
    Init => Inv
  BY NewIsSound DEF Init, Inv

\* Every step keeps the invariant.
LEMMA NextInv ==
    Inv /\ [Next]_vars => Inv'
  <1> SUFFICES ASSUME Inv, [Next]_vars
               PROVE  Inv'
    OBVIOUS
  <1>1. ASSUME NEW first \in 0..Total, NEW end \in 0..Total, NEW eof \in BOOLEAN,
               Push(first, end, eof)
        PROVE  Inv'
    <2>1. /\ Sound(r) /\ Ended(r) /\ first <= end /\ (eof => end = Total)
          /\ r' = SR!push_substring(r, Bytes(first, end - first), first, eof)
      BY <1>1 DEF Push, Inv
    <2>2. Sound(r') /\ Ended(r')
      BY <2>1, PushKeeps
    <2> QED
      BY <2>2 DEF Inv
  <1>2. ASSUME NEW n \in 1..Capacity, Read(n)
        PROVE  Inv'
    <2>1. n \in Nat
      BY ReassemblerAssumption
    <2> QED
      BY <1>2, <2>1, ReadKeeps DEF Read, Inv, BS!buffer_size
  <1>3. CASE UNCHANGED vars
    BY <1>3 DEF vars, Inv
  <1> QED
    BY <1>1, <1>2, <1>3 DEF Next

\* The inductive invariant.
LEMMA AlwaysInv ==
    Spec => []Inv
  BY InitInv, NextInv, PTL DEF Spec

\* unassembled_bytes() is the number of positions in the buffer, each counted once.
THEOREM UnassembledCounted ==
    Spec => []CountedOnce
  <1>1. Inv => CountedOnce
    BY DEF Inv, Sound, Buffering, CountedOnce
  <1> QED
    BY <1>1, AlwaysInv, PTL

\* The nodes of the buffer are ahead of the output, inside the window, hold the bytes
\* of their positions, and never overlap or touch.
THEOREM BufferStaysMerged ==
    Spec => []NodesApart
  <1>1. Inv => NodesApart
    <2> SUFFICES ASSUME Inv, NEW n \in r.data_buffer
                 PROVE  /\ n.idx > r.cur_idx
                        /\ SR!EndOf(n) <= r.output.read_bytes + Capacity
                        /\ \A i \in 1..Len(n.data) : n.data[i] = n.idx + i
                        /\ \A m \in r.data_buffer \ {n} :
                               SR!EndOf(n) < m.idx \/ SR!EndOf(m) < n.idx
      BY DEF NodesApart
    <2>1. /\ IsNode(n) /\ r.cur_idx + 1 <= n.idx /\ SR!EndOf(n) <= Limit(r)
          /\ Apart(r.data_buffer) /\ Sound(r)
      BY DEF Inv, Sound, Buffering, Buffered
    <2> DEFINE a == n.idx
               b == SR!EndOf(n)
               k == b - a
    <2>2. a \in Nat /\ b \in Nat /\ a <= b /\ n.data = Bytes(a, k)
      BY <2>1, NodeIsPiece
    <2>3. /\ r.cur_idx \in Nat /\ r.output.read_bytes \in Nat /\ Capacity \in Nat
          /\ Limit(r) \in Nat /\ Limit(r) <= r.output.read_bytes + Capacity
      BY <2>1, SoundNumbers
    <2>4. n.idx > r.cur_idx /\ SR!EndOf(n) <= r.output.read_bytes + Capacity
      BY <2>1, <2>2, <2>3
    <2>5. \A i \in 1..Len(n.data) : n.data[i] = n.idx + i
      <3>1. k \in Nat
        BY <2>2
      <3> HIDE DEF k
      <3>2. Len(Bytes(a, k)) = k /\ \A i \in 1..k : Bytes(a, k)[i] = a + i
        BY <2>2, <3>1, BytesType
      <3> QED
        BY <2>2, <3>2
    <2>6. \A m \in r.data_buffer \ {n} : SR!EndOf(n) < m.idx \/ SR!EndOf(m) < n.idx
      BY <2>1 DEF Apart
    <2> QED
      BY <2>4, <2>5, <2>6
  <1> QED
    BY <1>1, AlwaysInv, PTL

\* The output has ended whenever all bytes are assembled and an eof was seen.
THEOREM EndsWithLastByte ==
    Spec => []EndedOnceComplete
  <1>1. Inv => EndedOnceComplete
    BY DEF Inv, Ended, EndedOnceComplete, SR!stream_input_ended, SR!BS!input_ended
  <1> QED
    BY <1>1, AlwaysInv, PTL

\* The bytes assembled are the longest prefix known, and the output offers them.
LEMMA OutputIsAvailable ==
    ASSUME NEW x, Sound(x)
    PROVE  /\ Abstract!Assembled(Known(x)) = x.cur_idx
           /\ x.output.buffer = Abstract!Available(Known(x), x.output.read_bytes)
  <1> DEFINE c == x.cur_idx
             K == Known(x)
  <1>1. /\ c \in Nat /\ c <= Total /\ Total \in Nat /\ x.output.read_bytes \in Nat
        /\ Len(x.output.buffer) = c - x.output.read_bytes
    BY SoundNumbers
  <1>2. c \in 0..Total /\ 0..c - 1 \subseteq K
    <2>1. c \in 0..Total
      <3> HIDE DEF c
      <3> QED
        BY <1>1
    <2> QED
      BY <2>1 DEF Known
  <1>3. c \notin K
    <2>1. c \notin 0..c - 1
      BY <1>1
    <2>2. ASSUME NEW n \in x.data_buffer, c \in n.idx..SR!EndOf(n) - 1
          PROVE  FALSE
      <3>1. n.idx \in Nat /\ c + 1 <= n.idx
        BY NodeIsPiece DEF Sound, Buffering, Buffered
      <3> QED
        BY <1>1, <2>2, <3>1
    <2>3. c \notin Positions(x.data_buffer)
      BY <2>2 DEF Positions
    <2> QED
      BY <2>1, <2>3 DEF Known
  <1>4. ASSUME NEW k \in 0..Total, 0..k - 1 \subseteq K, k \notin K
        PROVE  k = c
    <2> HIDE DEF K, c
    <2>1. ~(k < c)
      BY <1>1, <1>2, <1>4
    <2>2. ~(c < k)
      BY <1>1, <1>3, <1>4
    <2> QED
      BY <1>1, <2>1, <2>2
  <1>5. Abstract!Assembled(K) = c
    <2> HIDE DEF K, c
    <2> QED
      BY <1>2, <1>3, <1>4 DEF Abstract!Assembled
  <1>6. x.output.buffer = Bytes(x.output.read_bytes, c - x.output.read_bytes)
    BY DEF Sound, Assembling
  <1>7. Abstract!Available(K, x.output.read_bytes)
            = Bytes(x.output.read_bytes, c - x.output.read_bytes)
    BY <1>5 DEF Abstract!Available, Bytes
  <1> QED
    BY <1>5, <1>6, <1>7

\* StreamReassembler implements a set of positions: a push adds the positions of the
\* substring that are inside the window, and the reader is offered exactly the
\* longest prefix known.
THEOREM ImplementsPositions ==
    Spec => Implements
  <1>1. Init => Abstract!Init
    <2> SUFFICES ASSUME Init
                 PROVE  Abstract!Init
      OBVIOUS
    <2>1. /\ r.cur_idx = 0 /\ r.data_buffer = {} /\ r.output.read_bytes = 0
          /\ r.output.buffer = <<>>
      BY DEF Init, SR!New, SR!BS!New
    <2>2. (0..r.cur_idx - 1) \union Positions(r.data_buffer) = {}
      <3>1. 0..0 - 1 = {}
        OBVIOUS
      <3>2. Positions({}) = {}
        BY DEF Positions
      <3> QED
        BY <2>1, <3>1, <3>2
    <2> QED
      BY <2>1, <2>2 DEF Abstract!Init
  <1>2. Inv /\ Inv' /\ [Next]_vars => [Abstract!Next]_Abstract!vars
    <2> SUFFICES ASSUME Inv, Inv', [Next]_vars
                 PROVE  [Abstract!Next]_Abstract!vars
      OBVIOUS
    <2>1. Sound(r) /\ Ended(r) /\ Sound(r')
      BY DEF Inv
    <2> DEFINE K == Known(r)
               L == Known(r')
               d == r.output.read_bytes
               e == r'.output.read_bytes
    <2>2. /\ Abstract!Assembled(K) = r.cur_idx
          /\ r'.output.buffer = Abstract!Available(L, e)
      BY <2>1, OutputIsAvailable
    <2>3. ASSUME NEW first \in 0..Total, NEW end \in 0..Total, NEW eof \in BOOLEAN,
                 Push(first, end, eof)
          PROVE  Abstract!Push(first, end)
      <3>1. /\ first <= end /\ (eof => end = Total)
            /\ r' = SR!push_substring(r, Bytes(first, end - first), first, eof)
        BY <2>3 DEF Push
      <3>2. e = d /\ L = K \union {k \in first..end - 1 : k < d + Capacity}
        BY <2>1, <3>1, PushKeeps
      <3> QED
        BY <2>2, <3>2 DEF Abstract!Push, Known
    <2>4. ASSUME NEW n \in 1..Capacity, Read(n)
          PROVE  n \in 0..Total /\ Abstract!Read(n)
      <3>1. n \in Nat /\ n <= Len(r.output.buffer)
            /\ r' = [r EXCEPT !.output = BS!pop_output(@, n)]
        BY <2>4, ReassemblerAssumption DEF Read, BS!buffer_size
      <3>2. L = K /\ e = d + n
        BY <2>1, <3>1, ReadKeeps
      <3>3. n \in 0..Total /\ d + n <= r.cur_idx
        <4> DEFINE c == r.cur_idx
                   k == Len(r.output.buffer)
        <4>1. /\ c \in Nat /\ c <= Total /\ Total \in Nat /\ d \in Nat /\ d <= c
              /\ k = c - d
          BY <2>1, SoundNumbers
        <4>2. n \in Nat /\ n <= k
          BY <3>1
        <4> HIDE DEF c, d, k
        <4>3. n \in 0..Total /\ d + n <= c
          BY <4>1, <4>2
        <4> QED
          BY <4>3 DEF c
      <3> QED
        BY <2>2, <3>2, <3>3 DEF Abstract!Read, Known
    <2>5. CASE UNCHANGED vars
      BY <2>5 DEF vars, Abstract!vars
    <2> QED
      BY <2>3, <2>4, <2>5 DEF Next, Abstract!Next
  <1> QED
    BY <1>1, <1>2, AlwaysInv, PTL DEF Spec, Implements, Abstract!Spec
=============================================================================
