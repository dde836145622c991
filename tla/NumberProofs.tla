---------------------------- MODULE NumberProofs ----------------------------
(***************************************************************************)
(* Facts about numbers that the other proofs cite: every set of naturals   *)
(* has a least member, which is how they argue by induction; remainders;   *)
(* and what wrap and unwrap of WrappingIntegers compute for every width.   *)
(***************************************************************************)
EXTENDS WrappingIntegers, WellFoundedInduction, NaturalsInduction, TLAPS

\* A set of natural numbers that is not empty has a least member.
LEMMA LeastNatural ==
    ASSUME NEW T, T \subseteq Nat, T # {}
    PROVE  \E x \in T : \A y \in T : x <= y
  <1>1. PICK x \in T : \A y \in T : ~(<<y, x>> \in OpToRel(<, Nat))
    BY NatLessThanWellFounded, WFMin
  <1>2. \A y \in T : ~(y < x)
    BY <1>1 DEF OpToRel
  <1> QED
    BY <1>2

\* Induction, for a property given as the set of numbers that have it.
LEMMA Induction ==
    ASSUME NEW T, 0 \in T, \A k \in Nat : k \in T => k + 1 \in T
    PROVE  Nat \subseteq T
  <1> SUFFICES ASSUME Nat \ T # {}
               PROVE  FALSE
    OBVIOUS
  <1>1. PICK x \in Nat \ T : \A y \in Nat \ T : x <= y
    BY LeastNatural
  <1>2. x # 0
    OBVIOUS
  <1>3. x - 1 \in Nat /\ ~(x <= x - 1)
    BY <1>2
  <1>4. x - 1 \in T
    BY <1>1, <1>3
  <1>5. (x - 1) + 1 \in T
    BY <1>3, <1>4
  <1> QED
    BY <1>5

\* Division with remainder.
LEMMA DivMod ==
    ASSUME NEW m \in Nat \ {0}, NEW x \in Int
    PROVE  /\ x \div m \in Int /\ x % m \in 0..m - 1
           /\ x = m * (x \div m) + (x % m)
  OBVIOUS

\* A multiple of m that is closer to zero than m is zero.
LEMMA SmallMultiple ==
    ASSUME NEW m \in Nat \ {0}, NEW k \in Int, m * k < m, -m < m * k
    PROVE  k = 0
  <1>1. CASE k >= 1
    <2>1. m * k >= m
      BY <1>1
    <2> QED
      BY <2>1
  <1>2. CASE k <= -1
    <2>1. m * k <= -m
      BY <1>2
    <2> QED
      BY <2>1
  <1> QED
    BY <1>1, <1>2

\* Numbers that differ by a multiple of m are as far apart as m, or equal.
LEMMA Apart ==
    ASSUME NEW m \in Nat \ {0}, NEW x \in Int, NEW y \in Int, NEW k \in Int, x - y = m * k
    PROVE  x = y \/ x >= y + m \/ x <= y - m
  <1>1. CASE x - y < m /\ -m < x - y
    BY <1>1, SmallMultiple
  <1> QED
    BY <1>1

\* The remainder is the only number of 0..m-1 that differs by a multiple of m.
LEMMA ModUnique ==
    ASSUME NEW m \in Nat \ {0}, NEW x \in Int, NEW q \in Int, NEW r \in 0..m - 1,
           x - r = m * q
    PROVE  x % m = r
  <1> DEFINE p == x \div m
             s == x % m
  <1>1. p \in Int /\ s \in 0..m - 1 /\ x = m * p + s
    BY DivMod
  <1> HIDE DEF p, s
  <1>2. r - s = m * (p - q)
    BY <1>1
  <1>3. r = s
    BY <1>1, <1>2, Apart
  <1> QED
    BY <1>3 DEF s

\* Numbers of 0..m-1 are their own remainder.
LEMMA ModSmall ==
    ASSUME NEW m \in Nat \ {0}, NEW x \in 0..m - 1
    PROVE  x % m = x
  OBVIOUS

\* The remainder of a negative number that is not below -m.
LEMMA ModNegative ==
    ASSUME NEW m \in Nat \ {0}, NEW x \in Int, x < 0, -m <= x
    PROVE  x % m = x + m
  <1>1. x + m \in 0..m - 1 /\ x - (x + m) = m * (-1)
    OBVIOUS
  <1> QED
    BY <1>1, ModUnique

\* A number and its remainder differ by a multiple.
LEMMA ModMultiple ==
    ASSUME NEW m \in Nat \ {0}, NEW x \in Int
    PROVE  \E q \in Int : x - (x % m) = m * q
  <1> DEFINE p == x \div m
             s == x % m
  <1>1. p \in Int /\ s \in 0..m - 1 /\ x = m * p + s
    BY DivMod
  <1> HIDE DEF p, s
  <1>2. x - s = m * p
    BY <1>1
  <1> QED
    BY <1>1, <1>2 DEF s

-----------------------------------------------------------------------------

\* x and y differ by a multiple of m.
Congruent(x, y, m) == \E k \in Int : x - y = m * k

\* Congruence is symmetric, ...
LEMMA CongruentSymmetric ==
    ASSUME NEW m \in Nat \ {0}, NEW x \in Int, NEW y \in Int, Congruent(x, y, m)
    PROVE  Congruent(y, x, m)
  <1>1. PICK k \in Int : x - y = m * k
    BY DEF Congruent
  <1>2. y - x = m * (-k)
    BY <1>1
  <1> QED
    BY <1>2 DEF Congruent

\* ... is kept by sums ...
LEMMA CongruentSum ==
    ASSUME NEW m \in Nat \ {0}, NEW x \in Int, NEW y \in Int, NEW z \in Int, NEW t \in Int,
           Congruent(x, y, m), Congruent(z, t, m)
    PROVE  Congruent(x + z, y + t, m)
  <1>1. PICK k \in Int : x - y = m * k
    BY DEF Congruent
  <1>2. PICK j \in Int : z - t = m * j
    BY DEF Congruent
  <1>3. (x + z) - (y + t) = m * (k + j)
    BY <1>1, <1>2
  <1> QED
    BY <1>3 DEF Congruent

\* ... and is transitive.
LEMMA CongruentTransitive ==
    ASSUME NEW m \in Nat \ {0}, NEW x \in Int, NEW y \in Int, NEW z \in Int,
           Congruent(x, y, m), Congruent(y, z, m)
    PROVE  Congruent(x, z, m)
  <1>1. PICK k \in Int : x - y = m * k
    BY DEF Congruent
  <1>2. PICK j \in Int : y - z = m * j
    BY DEF Congruent
  <1>3. x - z = m * (k + j)
    BY <1>1, <1>2
  <1> QED
    BY <1>3 DEF Congruent

\* Only the distance counts: shifting both changes nothing, or one by m.
LEMMA CongruentShift ==
    ASSUME NEW m \in Nat \ {0}, NEW x \in Int, NEW y \in Int, NEW a \in Int, NEW b \in Int,
           a - b = x - y
    PROVE  Congruent(a, b, m) <=> Congruent(x, y, m)
  BY DEF Congruent

\* A number is congruent to itself and to itself plus m.
LEMMA CongruentSame ==
    ASSUME NEW m \in Nat \ {0}, NEW x \in Int
    PROVE  Congruent(x, x, m) /\ Congruent(x + m, x, m)
  <1>1. x - x = m * 0 /\ (x + m) - x = m * 1
    OBVIOUS
  <1> QED
    BY <1>1 DEF Congruent

\* Numbers of 0..m-1, and more generally numbers closer than m, are congruent only if
\* they are equal.
LEMMA CongruentClose ==
    ASSUME NEW m \in Nat \ {0}, NEW x \in Int, NEW y \in Int, Congruent(x, y, m)
    PROVE  x = y \/ x >= y + m \/ x <= y - m
  BY Apart DEF Congruent

\* A number is congruent to its remainder.
LEMMA ModCongruent ==
    ASSUME NEW m \in Nat \ {0}, NEW x \in Int
    PROVE  Congruent(x, x % m, m) /\ x % m \in 0..m - 1
  BY ModMultiple, DivMod DEF Congruent

\* The signed reading of an unsigned number: the same number but for a multiple of
\* mod, and between minus one half and one half of mod.
LEMMA AsSignedRange ==
    ASSUME NEW m \in Nat \ {0}, NEW x \in Int
    PROVE  /\ AsSigned(x, m) \in Int /\ Congruent(x, AsSigned(x, m), m)
           /\ (m \div 2) - m <= AsSigned(x, m) /\ AsSigned(x, m) < m \div 2
  <1> DEFINE r == x % m
             h == m \div 2
             z == r - m
  <1>1. h \in Int /\ 2 * h <= m
    OBVIOUS
  <1>2. r \in 0..m - 1 /\ Congruent(x, r, m) /\ z \in Int
    BY ModCongruent
  <1>3. AsSigned(x, m) = IF r >= h THEN z ELSE r
    BY DEF AsSigned
  <1> HIDE DEF r, h
  <1>4. Congruent(r, z, m)
    <2>1. r - z = m * 1
      BY <1>2
    <2> QED
      BY <2>1 DEF Congruent
  <1>5. Congruent(x, z, m)
    BY <1>2, <1>4, CongruentTransitive
  <1> QED
    BY <1>1, <1>2, <1>3, <1>5 DEF h

\* A number in that range is read as itself.
LEMMA AsSignedSmall ==
    ASSUME NEW m \in Nat \ {0}, NEW x \in Int, (m \div 2) - m <= x, x < m \div 2
    PROVE  AsSigned(x, m) = x
  <1> DEFINE y == AsSigned(x, m)
             h == m \div 2
  <1>1. y \in Int /\ Congruent(x, y, m) /\ h - m <= y /\ y < h /\ h \in Int
    BY AsSignedRange, DivMod
  <1> HIDE DEF y, h
  <1>2. h - m <= x /\ x < h
    BY DEF h
  <1>3. x = y \/ x >= y + m \/ x <= y - m
    BY <1>1, CongruentClose
  <1>4. x = y
    BY <1>1, <1>2, <1>3
  <1> QED
    BY <1>4 DEF y

-----------------------------------------------------------------------------

\* What the widths have in common with 2^32 and 2^64, and a checkpoint that 64 bits
\* hold with room to spare.
Widths == Mod32 \in Nat \ {0} /\ Mod64 \in Nat \ {0}
InRange(checkpoint) == checkpoint \in Nat /\ checkpoint + Mod32 <= Mod64 \div 2

\* wrap adds isn and drops the multiples of 2^32.
LEMMA WrapCongruent ==
    ASSUME Widths, NEW n \in Int, NEW isn \in Int
    PROVE  wrap(n, isn) \in 0..Mod32 - 1 /\ Congruent(n + isn, wrap(n, isn), Mod32)
  <1> DEFINE r == n % Mod32
             w == (r + isn) % Mod32
  <1>1. Mod32 \in Nat \ {0}
    BY DEF Widths
  <1>2. r \in 0..Mod32 - 1 /\ Congruent(n, r, Mod32)
    BY <1>1, ModCongruent
  <1> HIDE DEF r
  <1>3. w \in 0..Mod32 - 1 /\ Congruent(r + isn, w, Mod32)
    <2>1. r + isn \in Int
      BY <1>2
    <2> QED
      BY <1>1, <2>1, ModCongruent
  <1>4. Congruent(n + isn, r + isn, Mod32)
    <2>1. n + isn \in Int /\ r + isn \in Int /\ r \in Int /\ (n + isn) - (r + isn) = n - r
      BY <1>2
    <2> QED
      BY <1>1, <1>2, <2>1, CongruentShift
  <1> HIDE DEF w
  <1>5. n + isn \in Int /\ r + isn \in Int /\ w \in Int
    BY <1>2, <1>3
  <1>6. Congruent(n + isn, w, Mod32)
    BY <1>1, <1>3, <1>4, <1>5, CongruentTransitive
  <1> QED
    BY <1>3, <1>6 DEF w, r, wrap

\* Two numbers wrap to the same one exactly if they differ by a multiple of 2^32.
LEMMA WrapEqual ==
    ASSUME Widths, NEW x \in Int, NEW y \in Int, NEW isn \in Int
    PROVE  wrap(x, isn) = wrap(y, isn) <=> Congruent(x, y, Mod32)
  <1> DEFINE v == wrap(x, isn)
             w == wrap(y, isn)
             a == x + isn
             b == y + isn
  <1>1. Mod32 \in Nat \ {0} /\ a \in Int /\ b \in Int /\ a - b = x - y
    BY DEF Widths
  <1>2. /\ v \in 0..Mod32 - 1 /\ Congruent(a, v, Mod32)
        /\ w \in 0..Mod32 - 1 /\ Congruent(b, w, Mod32)
    BY WrapCongruent
  <1>3. Congruent(a, b, Mod32) <=> Congruent(x, y, Mod32)
    BY <1>1, CongruentShift
  <1> HIDE DEF v, w, a, b
  <1>4. ASSUME v = w
        PROVE  Congruent(a, b, Mod32)
    BY <1>1, <1>2, <1>4, CongruentSymmetric, CongruentTransitive
  <1>5. ASSUME Congruent(a, b, Mod32)
        PROVE  v = w
    <2>1. v \in Int /\ w \in Int
      BY <1>2
    <2>2. Congruent(v, a, Mod32)
      BY <1>1, <1>2, <2>1, CongruentSymmetric
    <2>3. Congruent(a, w, Mod32)
      BY <1>1, <1>2, <1>5, <2>1, CongruentTransitive
    <2>4. Congruent(v, w, Mod32)
      BY <1>1, <2>1, <2>2, <2>3, CongruentTransitive
    <2>5. v = w \/ v >= w + Mod32 \/ v <= w - Mod32
      BY <1>1, <2>1, <2>4, CongruentClose
    <2> QED
      BY <1>1, <1>2, <2>5
  <1> QED
    BY <1>3, <1>4, <1>5 DEF v, w

\* unwrap goes from the checkpoint to n by the signed difference d of 32 bits, and one
\* round further where that would be negative: its result wraps to n.
LEMMA UnwrapValue ==
    ASSUME Widths, NEW c, InRange(c), NEW n \in 0..Mod32 - 1, NEW isn \in Int
    PROVE  \E d \in Int :
               /\ (Mod32 \div 2) - Mod32 <= d /\ d < Mod32 \div 2
               /\ unwrap(n, isn, c) = IF c + d < 0 THEN c + d + Mod32 ELSE c + d
               /\ unwrap(n, isn, c) \in Nat
               /\ wrap(unwrap(n, isn, c), isn) = n
  <1> DEFINE M == Mod32
             L == Mod64
             w == wrap(c, isn)
             d == difference(n, w)
             e == c + d
             f == IF e < 0 THEN e + M ELSE e
             h == M \div 2
             g == L \div 2
  <1>1. M \in Nat \ {0} /\ L \in Nat \ {0} /\ c \in Nat /\ c + M <= g
    BY DEF Widths, InRange
  <1>2. h \in Int /\ 2 * h <= M /\ g \in Int /\ 2 * g <= L /\ L <= 2 * g + 1 /\ 0 <= h
    BY <1>1
  <1>3. w \in 0..M - 1 /\ Congruent(c + isn, w, M)
    <2>1. c \in Int
      BY <1>1
    <2> QED
      BY <2>1, WrapCongruent
  <1> HIDE DEF w
  <1>4. d \in Int /\ Congruent(n - w, d, M) /\ h - M <= d /\ d < h
    <2>1. n - w \in Int
      BY <1>1, <1>3
    <2> QED
      BY <1>1, <2>1, AsSignedRange DEF difference
  <1> HIDE DEF d, M, L, h, g
  <1>5. e \in Int /\ AsSigned(e, L) = e
    <2>1. e \in Int /\ g - L <= e /\ e < g
      BY <1>1, <1>2, <1>4
    <2> QED
      BY <1>1, <2>1, AsSignedSmall DEF g
  <1>6. f \in 0..L - 1
    BY <1>1, <1>2, <1>4
  <1>7. unwrap(n, isn, c) = f % L
    BY <1>5 DEF unwrap, d, w, M, L
  <1>8. unwrap(n, isn, c) = f /\ f \in Nat
    BY <1>1, <1>6, <1>7, ModSmall
  <1> HIDE DEF f
  <1>9. Congruent(f, e, M)
    BY <1>1, <1>5, CongruentSame DEF f
  <1> HIDE DEF e
  <1>10. Congruent(f + isn, n, M)
    <2> DEFINE a == c + isn
    <2>1. a \in Int /\ n \in Int /\ w \in Int /\ n - w \in Int
      BY <1>1, <1>3 DEF M
    <2>2. Congruent(d, n - w, M)
      BY <1>1, <1>4, <2>1, CongruentSymmetric
    <2>3. Congruent(a + d, w + (n - w), M)
      BY <1>1, <1>3, <1>4, <2>1, <2>2, CongruentSum
    <2>4. a + d = e + isn /\ w + (n - w) = n
      BY <1>1, <1>4, <2>1 DEF e
    <2>5. Congruent(e + isn, n, M)
      BY <2>3, <2>4
    <2>6. e + isn \in Int /\ f + isn \in Int /\ f \in Int /\ (f + isn) - (e + isn) = f - e
      BY <1>5, <1>8
    <2>7. Congruent(f + isn, e + isn, M)
      BY <1>1, <1>5, <1>9, <2>6, CongruentShift
    <2> QED
      BY <1>1, <2>1, <2>5, <2>6, <2>7, CongruentTransitive
  <1>11. wrap(f, isn) = n
    <2> DEFINE v == wrap(f, isn)
               b == f + isn
    <2>1. v \in 0..M - 1 /\ Congruent(b, v, M) /\ b \in Int /\ v \in Int /\ n \in Int
      BY <1>8, WrapCongruent DEF M
    <2>2. Congruent(b, n, M)
      BY <1>10
    <2> HIDE DEF v, b
    <2>3. Congruent(v, n, M)
      BY <1>1, <2>1, <2>2, CongruentSymmetric, CongruentTransitive
    <2>4. v = n \/ v >= n + M \/ v <= n - M
      BY <1>1, <2>1, <2>3, CongruentClose
    <2> QED
      BY <1>1, <2>1, <2>4 DEF v, M
  <1> QED
    BY <1>4, <1>8, <1>11 DEF f, e, h, M

\* wrapping_integers.cc: unwrap undoes wrap for every number less than half the number
\* space from the checkpoint, whatever isn is and however often the numbers have
\* wrapped around: a segment or an acknowledgment means the number it was sent with.
THEOREM UnwrapOfWrap ==
    ASSUME Widths, NEW c, InRange(c), NEW isn \in Int, NEW x \in Nat,
           (Mod32 \div 2) - Mod32 <= x - c, x - c < Mod32 \div 2
    PROVE  unwrap(wrap(x, isn), isn, c) = x
  <1> DEFINE n == wrap(x, isn)
             u == unwrap(n, isn, c)
             M == Mod32
             h == Mod32 \div 2
  <1>1. M \in Nat \ {0} /\ c \in Nat /\ x \in Int /\ h \in Int
    BY DEF Widths, InRange
  <1>2. n \in 0..Mod32 - 1
    BY <1>1, WrapCongruent
  <1> HIDE DEF n
  <1>3. PICK d \in Int : /\ h - M <= d /\ d < h
                         /\ u = IF c + d < 0 THEN c + d + M ELSE c + d
                         /\ u \in Nat /\ wrap(u, isn) = n
    BY <1>2, UnwrapValue
  <1> DEFINE e == c + d
  <1> HIDE DEF u
  <1>4. Congruent(x, u, M)
    BY <1>1, <1>3, WrapEqual DEF n
  <1>5. h - M <= x - c /\ x - c < h
    OBVIOUS
  <1> HIDE DEF M, h
  <1>6. e \in Int /\ Congruent(u, e, M)
    <2>1. e \in Int /\ (u = e \/ u = e + M)
      BY <1>1, <1>3
    <2> HIDE DEF e
    <2> QED
      BY <1>1, <2>1, CongruentSame
  <1>7. Congruent(x, e, M)
    BY <1>1, <1>3, <1>4, <1>6, CongruentTransitive
  <1>8. x = e \/ x >= e + M \/ x <= e - M
    BY <1>1, <1>6, <1>7, CongruentClose
  <1>9. x = e
    BY <1>1, <1>3, <1>8, <1>5
  <1>10. u = x
    BY <1>1, <1>3, <1>9
  <1> QED
    BY <1>10 DEF u, n

Distance(a, b) == IF a <= b THEN b - a ELSE a - b

\* wrapping_integers.cc promises the number "that wraps to `n` and is closest to
\* `checkpoint`": no other one is closer, also where the closest would be negative.
THEOREM UnwrapIsClosest ==
    ASSUME Widths, Mod32 = 2 * (Mod32 \div 2), NEW c, InRange(c), NEW isn \in Int,
           NEW x \in Nat, NEW n, wrap(x, isn) = n
    PROVE  /\ wrap(unwrap(n, isn, c), isn) = n
           /\ Distance(unwrap(n, isn, c), c) <= Distance(x, c)
  <1> DEFINE u == unwrap(n, isn, c)
             M == Mod32
             h == Mod32 \div 2
  <1>1. M \in Nat \ {0} /\ c \in Nat /\ x \in Int /\ h \in Int /\ M = 2 * h
    BY DEF Widths, InRange
  <1>2. n \in 0..Mod32 - 1
    BY <1>1, WrapCongruent
  <1>3. PICK d \in Int : /\ h - M <= d /\ d < h
                         /\ u = IF c + d < 0 THEN c + d + M ELSE c + d
                         /\ u \in Nat /\ wrap(u, isn) = n
    BY <1>2, UnwrapValue
  <1> HIDE DEF u
  <1>4. Congruent(x, u, M)
    BY <1>1, <1>3, WrapEqual
  <1> HIDE DEF M, h
  <1>5. x = u \/ x >= u + M \/ x <= u - M
    <2>1. u \in Int
      BY <1>3
    <2> QED
      BY <1>1, <1>4, <2>1, CongruentClose
  <1>6. Distance(u, c) <= Distance(x, c)
    BY <1>1, <1>3, <1>5 DEF Distance
  <1> QED
    BY <1>3, <1>6 DEF u
=============================================================================
