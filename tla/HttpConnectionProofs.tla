------------------------ MODULE HttpConnectionProofs ------------------------
(***************************************************************************)
(* The ring buffer is a queue, for a memory of any size and positions that *)
(* wrap at any multiple of it, whatever the handlers take out.             *)
(***************************************************************************)
EXTENDS HttpConnection, SequenceTheorems, FiniteSetTheorems, TLAPS

-----------------------------------------------------------------------------
(* Positions and indices.                                                  *)

LEMMA Sizes == Size \in Nat /\ Size > 0 /\ Wrap \in Nat /\ Wrap > Size
  BY RingAssumption

\* Multiples of the size are as far apart as they are different.
LEMMA Multiples ==
    ASSUME NEW a \in Int, NEW b \in Int, a < b
    PROVE  Size * a + Size <= Size * b /\ Size * a \in Int /\ Size * b \in Int
  <1>1. b - a - 1 >= 0 /\ b - a - 1 \in Nat
    OBVIOUS
  <1>2. \A x \in Nat : Size * x >= 0
    BY Sizes
  <1>3. Size * (b - a - 1) = Size * b - Size * a - Size
    BY Sizes
  <1>4. Size * (b - a - 1) >= 0
    BY <1>1, <1>2
  <1> QED BY <1>3, <1>4, Sizes

\* The remainder is what is left of a multiple.
LEMMA Remainder ==
    ASSUME NEW q \in Int, NEW m \in 0 .. Size - 1
    PROVE  Mask(Size * q + m) = m
  <1> DEFINE a == Size * q + m
             d == a \div Size
             r == a % Size
  <1>1. a \in Int /\ d \in Int /\ r \in 0 .. Size - 1 /\ a = Size * d + r
    BY Sizes
  <1>0. a = Size * q + m
    OBVIOUS
  <1>5. Mask(Size * q + m) = r
    BY DEF Mask
  <1> HIDE DEF a, d, r
  <1>2. ~ d < q
    BY <1>0, <1>1, Multiples, Sizes
  <1>3. ~ q < d
    BY <1>0, <1>1, Multiples, Sizes
  <1>4. q = d
    BY <1>1, <1>2, <1>3
  <1> QED BY <1>0, <1>1, <1>4, <1>5, Sizes

\* The index that is i cells behind index m.
Cell(m, i) == IF m + i < Size THEN m + i ELSE m + i - Size

\* Indices of later positions, also of ones that have wrapped; a position whose
\* index does not reach the end of the memory does not wrap.
LEMMA Later ==
    ASSUME NEW p \in 0 .. Wrap - 1, NEW i \in 0 .. Size
    PROVE  /\ Mask(p) \in 0 .. Size - 1
           /\ Mask(p + i) = Cell(Mask(p), i)
           /\ (p + i) % Wrap = IF p + i < Wrap THEN p + i ELSE p + i - Wrap
           /\ (p + i) % Wrap \in 0 .. Wrap - 1
           /\ Mask((p + i) % Wrap) = Cell(Mask(p), i)
           /\ Mask(p) + i < Size => p + i < Wrap
  <1> DEFINE m == Mask(p)
             q == p \div Size
             R == Wrap \div Size
  <1>1. p \in Int /\ q \in Int /\ m \in 0 .. Size - 1 /\ p = Size * q + m
    BY Sizes DEF Mask
  <1>2. R \in Int /\ Wrap = Size * R
    BY Sizes, RingAssumption
  <1> HIDE DEF m, q, R
  <1>3. q < R
    <2>1. CASE R < q
      BY <1>1, <1>2, <2>1, Multiples, Sizes
    <2>2. CASE R = q
      BY <1>1, <1>2, <2>2, Sizes
    <2> QED BY <1>1, <1>2, <2>1, <2>2
  <1>4. m + i < Size => p + i < Wrap
    BY <1>1, <1>2, <1>3, Multiples, Sizes
  <1>5. Mask(p + i) = Cell(m, i)
    <2>1. CASE m + i < Size
      <3>1. p + i = Size * q + (m + i) /\ m + i \in 0 .. Size - 1
        BY <1>1, <2>1, Sizes
      <3> QED BY <1>1, <2>1, <3>1, Remainder DEF Cell
    <2>2. CASE ~ m + i < Size
      <3>1. m + i - Size \in 0 .. Size - 1 /\ q + 1 \in Int
        BY <1>1, <2>2, Sizes
      <3>2. p + i = Size * (q + 1) + (m + i - Size)
        BY <1>1, Sizes
      <3> QED BY <2>2, <3>1, <3>2, Remainder DEF Cell
    <2> QED BY <2>1, <2>2
  <1>6. (p + i) % Wrap = IF p + i < Wrap THEN p + i ELSE p + i - Wrap
    BY Sizes
  <1>7. ASSUME ~ p + i < Wrap PROVE Mask(p + i - Wrap) = Cell(m, i)
    <2>1. ~ m + i < Size
      BY <1>4, <1>7
    <2>2. m + i - Size \in 0 .. Size - 1 /\ q + 1 - R \in Int
      BY <1>1, <1>2, <2>1, Sizes
    <2>3. p + i - Wrap = Size * (q + 1 - R) + (m + i - Size)
      BY <1>1, <1>2, Sizes
    <2> QED BY <2>1, <2>2, <2>3, Remainder DEF Cell
  <1>8. Mask(p) = m
    BY DEF m
  <1> QED BY <1>1, <1>4, <1>5, <1>6, <1>7, <1>8, Sizes

\* Position p, moved by i.
Moved(p, i) == (p + i) % Wrap

\* Moving twice is moving once.
LEMMA Twice ==
    ASSUME NEW p \in 0 .. Wrap - 1, NEW i \in Nat, NEW j \in Nat, i + j <= Size
    PROVE  /\ Moved(p, i) \in 0 .. Wrap - 1 /\ Moved(Moved(p, i), j) = Moved(p, i + j)
           /\ Moved(Moved(p, i), j) \in 0 .. Wrap - 1
           /\ Mask(Moved(p, i)) = Cell(Mask(p), i)
  <1> DEFINE a == Moved(p, i)
             b == Moved(p, i + j)
             c == Moved(a, j)
  <1>1. i \in 0 .. Size /\ j \in 0 .. Size /\ i + j \in 0 .. Size
    BY Sizes
  <1>2. /\ a = IF p + i < Wrap THEN p + i ELSE p + i - Wrap
        /\ a \in 0 .. Wrap - 1 /\ Mask(a) = Cell(Mask(p), i)
    BY <1>1, Later DEF Moved
  <1>3. b = IF p + (i + j) < Wrap THEN p + (i + j) ELSE p + (i + j) - Wrap
    BY <1>1, Later DEF Moved
  <1> HIDE DEF a, b
  <1>4. c = (IF a + j < Wrap THEN a + j ELSE a + j - Wrap) /\ c \in 0 .. Wrap - 1
    BY <1>1, <1>2, Later DEF Moved
  <1> HIDE DEF c
  <1>5. c = b
    BY <1>1, <1>2, <1>3, <1>4, Sizes
  <1> QED BY <1>2, <1>4, <1>5 DEF a, b, c

-----------------------------------------------------------------------------
(* The ring as a queue.                                                    *)

\* What strings are made of, with the ones the specification names.
Chars == STRING \cup {Blank, "G", "T", "P", "D", "L", "N", "O", "V", "X", "Z", " ", "/", ":",
                      "t", "u", "r", "n", "0", "1", "2", "3", "4", "5", "6", "7", "8", "9"}

Buffers == [buf : [0 .. Size - 1 -> Chars], read : 0 .. Wrap - 1, write : 0 .. Wrap - 1]

\* What is in buffer r is the sequence q.
Holds(r, q) ==
    /\ r \in Buffers /\ q \in Seq(Chars) /\ Len(q) <= Size
    /\ r.write = Moved(r.read, Len(q))
    /\ \A i \in 0 .. Len(q) - 1 : r.buf[Cell(Mask(r.read), i)] = q[i + 1]

\* The distances that the macros compute.  A full buffer may have a negative
\* rbuf_read_to_end.
LEMMA Distances ==
    ASSUME NEW r, NEW q, Holds(r, q)
    PROVE  /\ Len(q) \in 0 .. Size /\ r.read \in 0 .. Wrap - 1 /\ r.write \in 0 .. Wrap - 1
           /\ Mask(r.read) \in 0 .. Size - 1 /\ Mask(r.write) = Cell(Mask(r.read), Len(q))
           /\ rbuf_read_remaining(r) = Len(q)
           /\ r.read = r.write <=> Len(q) = 0
           /\ rbuf_read_to_end(r) \in Int
           /\ Len(q) < Size => rbuf_read_to_end(r) = IF Mask(r.read) + Len(q) < Size
                                                     THEN Len(q) ELSE Size - Mask(r.read)
           /\ rbuf_write_to_end(r) = IF Mask(r.read) + Len(q) < Size
                                     THEN Size - (Mask(r.read) + Len(q)) ELSE Size - Len(q)
  <1> DEFINE m == Mask(r.read)
             w == Mask(r.write)
             l == Len(q)
  <1>1. l \in 0 .. Size /\ r.read \in 0 .. Wrap - 1 /\ r.write \in 0 .. Wrap - 1
    BY LenProperties DEF Holds, Buffers
  <1>2. /\ m \in 0 .. Size - 1 /\ w = Cell(m, l)
        /\ r.write = IF r.read + l < Wrap THEN r.read + l ELSE r.read + l - Wrap
        /\ m + l < Size => r.read + l < Wrap
    BY <1>1, Later DEF Holds, Moved
  <1> HIDE DEF m, w, l
  <1>3. (r.write - r.read) % Wrap = l
    <2>1. CASE r.read + l < Wrap
      <3>1. r.write - r.read = l /\ l \in 0 .. Wrap - 1
        BY <1>1, <1>2, <2>1, Sizes
      <3> QED BY <3>1, Sizes
    <2>2. CASE ~ r.read + l < Wrap
      <3>1. r.write - r.read = l - Wrap /\ l \in 0 .. Wrap - 1
        BY <1>1, <1>2, <2>2, Sizes
      <3>2. (l - Wrap) % Wrap = l
        BY <3>1, Sizes
      <3> QED BY <3>1, <3>2
    <2> QED BY <2>1, <2>2
  <1>4. r.read = r.write <=> l = 0
    BY <1>1, <1>2, Sizes
  <1>5. w \in 0 .. Size - 1
    BY <1>1, <1>2, Sizes DEF Cell
  <1>6. rbuf_read_to_end(r) = IF m <= w THEN r.write - r.read ELSE Size - m
    BY DEF rbuf_read_to_end, m, w
  <1>7. l < Size => rbuf_read_to_end(r) = IF m + l < Size THEN l ELSE Size - m
    BY <1>1, <1>2, <1>5, <1>6, Sizes DEF Cell
  <1>8. rbuf_write_to_end(r) = IF w <= m /\ r.read # r.write THEN m - w ELSE Size - w
    BY DEF rbuf_write_to_end, m, w
  <1>9. rbuf_write_to_end(r) = IF m + l < Size THEN Size - (m + l) ELSE Size - l
    BY <1>1, <1>2, <1>4, <1>5, <1>8, Sizes DEF Cell
  <1>10. rbuf_read_to_end(r) \in Int
    BY <1>1, <1>2, <1>5, <1>6, Sizes
  <1> QED BY <1>1, <1>2, <1>3, <1>4, <1>7, <1>9, <1>10 DEF m, w, l, rbuf_read_remaining

\* Characters that fit behind the last one are put there.
LEMMA FillHolds ==
    ASSUME NEW r, NEW q, Holds(r, q), NEW s \in Seq(Chars), Len(s) <= rbuf_write_to_end(r)
    PROVE  Holds(Fill(r, s), q \o s)
  <1> DEFINE m == Mask(r.read)
             l == Len(q)
             k == Len(s)
             v == Fill(r, s)
             i0 == Mask(r.write)
  <1>1. /\ l \in 0 .. Size /\ k \in Nat /\ m \in 0 .. Size - 1
        /\ r.read \in 0 .. Wrap - 1 /\ r.write \in 0 .. Wrap - 1
        /\ i0 = Cell(m, l)
        /\ k <= IF m + l < Size THEN Size - (m + l) ELSE Size - l
    BY Distances, LenProperties
  <1>2. q \in Seq(Chars) /\ r \in Buffers /\ r.write = Moved(r.read, l)
    BY DEF Holds
  <1>3. /\ v = [r EXCEPT !.buf = [i \in 0 .. Size - 1 |-> IF i \in i0 .. i0 + k - 1
                                      THEN s[i - i0 + 1] ELSE r.buf[i]],
                         !.write = Moved(r.write, k)]
    BY <1>2 DEF Fill, Buffers, Moved
  <1>4. /\ q \o s \in Seq(Chars) /\ Len(q \o s) = l + k
        /\ \A i \in 1 .. l + k : (q \o s)[i] = IF i <= l THEN q[i] ELSE s[i - l]
    BY <1>2, ConcatProperties
  <1>5. \A i \in 1 .. k : s[i] \in Chars
    BY ElementOfSeq
  <1> HIDE DEF m, l, k, i0
  <1>6. l + k <= Size /\ k <= Size
    BY <1>1, Sizes DEF Cell
  <1>7. /\ Moved(r.write, k) = Moved(r.read, l + k)
        /\ Moved(r.write, k) \in 0 .. Wrap - 1
    BY <1>1, <1>2, <1>6, Twice
  <1>8. v \in Buffers /\ v.read = r.read /\ v.write = Moved(r.write, k)
    <2>1. \A i \in 0 .. Size - 1 : (IF i \in i0 .. i0 + k - 1 THEN s[i - i0 + 1] ELSE r.buf[i]) \in Chars
      BY <1>1, <1>2, <1>5, Sizes DEF Buffers, Cell
    <2> QED BY <1>2, <1>3, <1>7, <2>1 DEF Buffers
  <1>9. ASSUME NEW i \in 0 .. l + k - 1
        PROVE  v.buf[Cell(m, i)] = (q \o s)[i + 1]
    <2>1. Cell(m, i) \in 0 .. Size - 1
      BY <1>1, <1>6, Sizes DEF Cell
    <2>2. v.buf[Cell(m, i)] = IF Cell(m, i) \in i0 .. i0 + k - 1
                              THEN s[Cell(m, i) - i0 + 1] ELSE r.buf[Cell(m, i)]
      BY <1>2, <1>3, <2>1 DEF Buffers
    <2>3. CASE i < l
      <3>1. ~ Cell(m, i) \in i0 .. i0 + k - 1
        BY <1>1, <2>3, Sizes DEF Cell
      <3>2. r.buf[Cell(m, i)] = q[i + 1]
        BY <1>1, <2>3 DEF Holds, m, l
      <3> QED BY <1>1, <1>4, <2>2, <2>3, <3>1, <3>2
    <2>4. CASE ~ i < l
      <3>1. i - l \in 0 .. k - 1 /\ i0 \in Int
        BY <1>1, <2>4, Sizes DEF Cell
      <3>2. Cell(m, i) = i0 + (i - l)
        BY <1>1, <2>4, Sizes DEF Cell
      <3>3. Cell(m, i) \in i0 .. i0 + k - 1 /\ Cell(m, i) - i0 + 1 = i + 1 - l
        BY <1>1, <3>1, <3>2
      <3> QED BY <1>1, <1>4, <2>2, <2>4, <3>3
    <2> QED BY <2>3, <2>4
  <1> HIDE DEF v
  <1>10. Holds(v, q \o s)
    <2>1. v.write = Moved(v.read, Len(q \o s)) /\ Len(q \o s) <= Size
      BY <1>4, <1>6, <1>7, <1>8
    <2>2. \A i \in 0 .. Len(q \o s) - 1 : v.buf[Cell(Mask(v.read), i)] = (q \o s)[i + 1]
      <3>1. Mask(v.read) = m
        BY <1>8 DEF m
      <3>2. Len(q \o s) = l + k
        BY <1>4
      <3> QED BY <1>1, <1>9, <3>1, <3>2
    <2> QED BY <1>4, <1>8, <2>1, <2>2 DEF Holds
  <1> QED BY <1>10 DEF v

\* What is taken out is the start of what was in it.
LEMMA MoveHolds ==
    ASSUME NEW r, NEW q, Holds(r, q), NEW n \in 0 .. Len(q)
    PROVE  Holds(Readmove(r, n), SubSeq(q, n + 1, Len(q)))
  <1> DEFINE m == Mask(r.read)
             l == Len(q)
             v == Readmove(r, n)
             z == SubSeq(q, n + 1, l)
  <1>1. /\ l \in 0 .. Size /\ m \in 0 .. Size - 1 /\ n \in 0 .. l
        /\ r.read \in 0 .. Wrap - 1 /\ r.write \in 0 .. Wrap - 1
    BY Distances
  <1>2. q \in Seq(Chars) /\ r \in Buffers /\ r.write = Moved(r.read, l)
    BY DEF Holds
  <1>3. v = [r EXCEPT !.buf = [i \in 0 .. Size - 1 |-> IF i \in Ahead(r, n)
                                   THEN Blank ELSE r.buf[i]],
                      !.read = Moved(r.read, n)]
    BY <1>2 DEF Readmove, Buffers, Moved
  <1>4. z \in Seq(Chars) /\ Len(z) = l - n /\ \A i \in 1 .. l - n : z[i] = q[n + i]
    <2>1. \A i \in n + 1 .. l : q[i] \in Chars
      BY <1>1, <1>2, ElementOfSeq
    <2>2. n + 1 \in Int /\ l \in Int
      BY <1>1
    <2>3. /\ z \in Seq(Chars)
          /\ Len(z) = IF n + 1 <= l THEN l - (n + 1) + 1 ELSE 0
          /\ \A i \in 1 .. l - (n + 1) + 1 : z[i] = q[(n + 1) + i - 1]
      BY <2>1, <2>2, SubSeqProperties
    <2> QED BY <1>1, <2>3
  <1>5. \A i \in 0 .. n - 1 : Mask(r.read + i) = Cell(m, i)
    <2>1. ASSUME NEW i \in 0 .. n - 1 PROVE Mask(r.read + i) = Cell(m, i)
      <3>1. i \in 0 .. Size
        BY <1>1, Sizes
      <3> QED BY <1>1, <3>1, Later
    <2> QED BY <2>1
  <1> HIDE DEF m, l, v, z
  <1>6. /\ Moved(r.read, n) \in 0 .. Wrap - 1 /\ Mask(Moved(r.read, n)) = Cell(m, n)
        /\ Moved(Moved(r.read, n), l - n) = Moved(r.read, l)
    <2>1. n \in Nat /\ l - n \in Nat /\ n + (l - n) = l /\ l <= Size
      BY <1>1, Sizes
    <2>2. /\ Moved(r.read, n) \in 0 .. Wrap - 1
          /\ Moved(Moved(r.read, n), l - n) = Moved(r.read, n + (l - n))
          /\ Mask(Moved(r.read, n)) = Cell(Mask(r.read), n)
      <3>1. n + (l - n) <= Size
        BY <2>1
      <3> QED BY <1>1, <2>1, <3>1, Twice
    <2> QED BY <2>1, <2>2 DEF m
  <1>7. v \in Buffers /\ v.read = Moved(r.read, n) /\ v.write = r.write
    <2>1. v = [r EXCEPT !.buf = [i \in 0 .. Size - 1 |-> IF i \in Ahead(r, n)
                                   THEN Blank ELSE r.buf[i]],
                        !.read = Moved(r.read, n)]
      BY <1>3
    <2>2. [i \in 0 .. Size - 1 |-> IF i \in Ahead(r, n) THEN Blank ELSE r.buf[i]]
             \in [0 .. Size - 1 -> Chars]
      <3>1. r.buf \in [0 .. Size - 1 -> Chars] /\ Blank \in Chars
        BY <1>2 DEF Buffers, Chars
      <3>2. \A i \in 0 .. Size - 1 : (IF i \in Ahead(r, n) THEN Blank ELSE r.buf[i]) \in Chars
        BY <3>1
      <3> QED BY <3>2, Zenon
    <2> QED BY <1>2, <1>6, <2>1, <2>2 DEF Buffers
  <1>8. r.write = Moved(v.read, l - n)
    BY <1>2, <1>6, <1>7
  <1>9. ASSUME NEW i \in 0 .. l - n - 1
        PROVE  v.buf[Cell(Cell(m, n), i)] = z[i + 1]
    <2>1. Cell(Cell(m, n), i) = Cell(m, n + i) /\ Cell(m, n + i) \in 0 .. Size - 1
      BY <1>1, Sizes DEF Cell
    <2>2. ~ Cell(m, n + i) \in Ahead(r, n)
      <3>1. ASSUME NEW j \in 0 .. n - 1 PROVE Cell(m, j) # Cell(m, n + i)
        BY <1>1, Sizes DEF Cell
      <3> QED BY <1>5, <3>1 DEF Ahead
    <2>3. v.buf[Cell(m, n + i)] = r.buf[Cell(m, n + i)]
      BY <1>2, <1>3, <2>1, <2>2 DEF Buffers
    <2>4. n + i \in 0 .. l - 1 /\ i + 1 \in 1 .. l - n /\ (n + i) + 1 = n + (i + 1)
      BY <1>1
    <2>5. r.buf[Cell(m, n + i)] = q[(n + i) + 1]
      BY <2>4 DEF Holds, m, l
    <2> QED BY <1>4, <2>1, <2>3, <2>4, <2>5
  <1>10. l - n <= Size
    BY <1>1, Sizes
  <1> QED BY <1>4, <1>6, <1>7, <1>8, <1>9, <1>10 DEF Holds, m, l, v, z

\* Min of two numbers.
LEMMA MinOf ==
    ASSUME NEW a \in Int, NEW b \in Int
    PROVE  Min({a, b}) = IF a <= b THEN a ELSE b
  <1> DEFINE x == IF a <= b THEN a ELSE b
  <1>1. x \in {a, b} /\ \A y \in {a, b} : x <= y
    OBVIOUS
  <1>2. \A z \in {a, b} : (\A y \in {a, b} : z <= y) => z = x
    OBVIOUS
  <1> QED BY <1>1, <1>2 DEF Min

\* What is copied as long as it does not reach the end of the memory.
LEMMA CellsCopied ==
    ASSUME NEW r \in Buffers, NEW i \in Nat, NEW c \in Nat, i + c <= Size
    PROVE  /\ Cells(r, i, c) \in Seq(Chars) /\ Len(Cells(r, i, c)) = c
           /\ \A j \in 1 .. c : Cells(r, i, c)[j] = r.buf[i + j - 1]
  <1>1. ASSUME NEW j \in 1 .. c PROVE i + j - 1 \in 0 .. Size - 1 /\ i + j - 1 < Size
    BY Sizes
  <1>2. Cells(r, i, c) = [j \in 1 .. c |-> r.buf[i + j - 1]]
    BY <1>1 DEF Cells
  <1>3. \A j \in 1 .. c : r.buf[i + j - 1] \in Chars
    BY <1>1 DEF Buffers
  <1>4. Cells(r, i, c) \in [1 .. c -> Chars]
    BY <1>2, <1>3
  <1>5. Cells(r, i, c) \in Seq(Chars)
    BY <1>4, SeqDef
  <1>6. Len(Cells(r, i, c)) = c
    BY <1>4, <1>5, LenProperties
  <1> QED BY <1>2, <1>5, <1>6

\* rbuf_copyn copies the first n characters of a buffer that is not full, also
\* from both ends of the memory.
LEMMA CopyExact ==
    ASSUME NEW r, NEW q, Holds(r, q), Len(q) < Size, NEW n \in 0 .. Len(q)
    PROVE  rbuf_copyn(r, n) = SubSeq(q, 1, n)
  <1> DEFINE m == Mask(r.read)
             l == Len(q)
             end == rbuf_read_to_end(r)
             first == IF n <= end THEN n ELSE end
             A == Cells(r, m, first)
             B == Cells(r, 0, n - first)
  <1>1. /\ l \in 0 .. Size - 1 /\ m \in 0 .. Size - 1 /\ n \in 0 .. l
        /\ end = IF m + l < Size THEN l ELSE Size - m
        /\ rbuf_read_remaining(r) = l
    BY Distances, Sizes
  <1>2. r \in Buffers /\ q \in Seq(Chars) /\ \A i \in 0 .. l - 1 : r.buf[Cell(m, i)] = q[i + 1]
    BY DEF Holds
  <1>3. Min({n, end}) = first /\ end \in Int
    BY <1>1, MinOf, Sizes
  <1> HIDE DEF m, l, end
  <1>4. /\ first \in 0 .. n /\ m + first <= Size /\ n - first <= l - end /\ n - first \in Nat
        /\ first = n \/ first = Size - m
    BY <1>1, <1>3, Sizes
  <1> HIDE DEF first
  <1>5. Min({n - first, l - end}) = n - first
    BY <1>1, <1>3, <1>4, MinOf
  <1>6. rbuf_copyn(r, n) = A \o B
    <2>1. rbuf_copyn(r, n) = Cells(r, m, Min({n, end}))
                \o Cells(r, 0, Min({n - Min({n, end}), rbuf_read_remaining(r) - end}))
      BY DEF rbuf_copyn, end, m
    <2> QED BY <1>1, <1>3, <1>5, <2>1
  <1>7. /\ A \in Seq(Chars) /\ Len(A) = first
        /\ \A j \in 1 .. first : A[j] = r.buf[m + j - 1]
    <2>1. first \in Nat /\ m \in Nat
      BY <1>1, <1>4
    <2> QED BY <1>2, <1>4, <2>1, CellsCopied
  <1>8. /\ B \in Seq(Chars) /\ Len(B) = n - first
        /\ \A j \in 1 .. n - first : B[j] = r.buf[0 + j - 1]
    <2>1. 0 + (n - first) <= Size
      BY <1>1, <1>4, Sizes
    <2> QED BY <1>2, <1>4, <2>1, CellsCopied
  <1> HIDE DEF A, B
  <1>9. /\ A \o B \in Seq(Chars) /\ Len(A \o B) = n
        /\ \A i \in 1 .. n : (A \o B)[i] = IF i <= first THEN A[i] ELSE B[i - first]
    <2>1. Len(A) + Len(B) = n
      BY <1>1, <1>4, <1>7, <1>8
    <2> QED BY <1>7, <1>8, <2>1, ConcatProperties
  <1>10. /\ SubSeq(q, 1, n) \in Seq(Chars) /\ Len(SubSeq(q, 1, n)) = n
         /\ \A i \in 1 .. n : SubSeq(q, 1, n)[i] = q[i]
    <2>1. \A i \in 1 .. n : q[i] \in Chars
      BY <1>1, <1>2, ElementOfSeq DEF l
    <2>2. /\ SubSeq(q, 1, n) \in Seq(Chars)
          /\ Len(SubSeq(q, 1, n)) = IF 1 <= n THEN n - 1 + 1 ELSE 0
          /\ \A i \in 1 .. n - 1 + 1 : SubSeq(q, 1, n)[i] = q[1 + i - 1]
      BY <1>1, <2>1, SubSeqProperties
    <2> QED BY <1>1, <2>2
  <1>11. ASSUME NEW i \in 1 .. n PROVE (A \o B)[i] = q[i]
    <2>1. i - 1 \in 0 .. l - 1 /\ (i - 1) + 1 = i /\ r.buf[Cell(m, i - 1)] = q[i]
      BY <1>1, <1>2
    <2>2. CASE i <= first
      <3>1. Cell(m, i - 1) = m + i - 1 /\ i \in 1 .. first
        BY <1>1, <1>4, <2>2, Sizes DEF Cell
      <3> QED BY <1>7, <1>9, <2>1, <2>2, <3>1
    <2>3. CASE ~ i <= first
      <3>1. first = Size - m
        BY <1>1, <1>4, <2>3
      <3>2. Cell(m, i - 1) = 0 + (i - first) - 1 /\ i - first \in 1 .. n - first
        BY <1>1, <1>4, <2>1, <2>3, <3>1, Sizes DEF Cell
      <3> QED BY <1>8, <1>9, <2>1, <2>3, <3>2
    <2> QED BY <2>2, <2>3
  <1> QED BY <1>6, <1>9, <1>10, <1>11, SeqEqual

\* RBUF_ITERATE looks at the characters of a buffer that is not full in order.
LEMMA AtExact ==
    ASSUME NEW r, NEW q, Holds(r, q), Len(q) < Size, NEW n \in Steps(r)
    PROVE  n \in 0 .. Len(q) - 1 /\ At(r, n) = q[n + 1]
  <1> DEFINE m == Mask(r.read)
             l == Len(q)
             end == rbuf_read_to_end(r)
  <1>1. /\ l \in 0 .. Size - 1 /\ m \in 0 .. Size - 1
        /\ end = IF m + l < Size THEN l ELSE Size - m
        /\ rbuf_read_remaining(r) = l
    BY Distances, Sizes
  <1>2. n \in 0 .. l - 1
    BY <1>1 DEF Steps
  <1>3. r.buf[Cell(m, n)] = q[n + 1]
    BY <1>2 DEF Holds
  <1>4. Pointer(r, n) = IF 0 < end /\ end <= n THEN n - end ELSE m + n
    BY DEF Pointer
  <1> HIDE DEF m, l, end
  <1>5. Pointer(r, n) = Cell(m, n) /\ Pointer(r, n) < Size
    BY <1>1, <1>2, <1>4, Sizes DEF Cell
  <1> QED BY <1>2, <1>3, <1>5 DEF At, l

-----------------------------------------------------------------------------
(* The steps of the connection.                                            *)

\* A connection waits for some number of characters of a body.
Left(c) == "left" \in DOMAIN c /\ c.left \in Nat

QInv == Holds(rb, unread) /\ todo \in Seq(Chars) /\ Left(conn)

\* The ring and its history may be left alone.
LEMMA RestKeeps ==
    ASSUME QInv, rb' = rb, unread' = unread, Left(conn'), todo' \in Seq(Chars)
    PROVE  QInv'
  BY DEF QInv, Holds

\* Part of a sequence of characters.
LEMMA PartType ==
    ASSUME NEW t \in Seq(Chars), NEW a \in Nat, NEW b \in Nat, b <= Len(t)
    PROVE  /\ SubSeq(t, a + 1, b) \in Seq(Chars)
           /\ Len(SubSeq(t, a + 1, b)) = IF a + 1 <= b THEN b - a ELSE 0
  <1>1. \A i \in a + 1 .. b : t[i] \in Chars
    BY ElementOfSeq, LenProperties
  <1>2. a + 1 \in Int /\ b \in Int
    OBVIOUS
  <1>3. /\ SubSeq(t, a + 1, b) \in Seq(Chars)
        /\ Len(SubSeq(t, a + 1, b)) = IF a + 1 <= b THEN b - (a + 1) + 1 ELSE 0
    BY <1>1, <1>2, SubSeqProperties
  <1> QED BY <1>3

\* A read, after the positions of an empty ring are reset.
LEMMA ReadKeeps ==
    ASSUME QInv, NEW k \in 0 .. Size, Read(k)
    PROVE  QInv'
  <1> DEFINE r == IF rb.read = rb.write THEN [rb EXCEPT !.read = 0, !.write = 0] ELSE rb
             s == SubSeq(todo, 1, k)
  <1>1. Holds(r, unread)
    <2>1. CASE rb.read = rb.write
      <3>1. r = [rb EXCEPT !.read = 0, !.write = 0] /\ rb \in Buffers
        BY <2>1 DEF QInv, Holds
      <3> HIDE DEF r
      <3>2. Len(unread) = 0
        BY <2>1, Distances DEF QInv
      <3>3. r \in Buffers /\ r.read = 0 /\ r.write = 0
        <4>1. 0 \in 0 .. Wrap - 1
          BY Sizes
        <4> QED BY <3>1, <4>1 DEF Buffers
      <3>4. Moved(0, 0) = 0
        BY Sizes DEF Moved
      <3>5. unread \in Seq(Chars) /\ 0 .. Len(unread) - 1 = {}
        BY <3>2 DEF QInv, Holds
      <3> QED BY <3>2, <3>3, <3>4, <3>5, Sizes DEF Holds
    <2>2. CASE rb.read # rb.write
      BY <2>2 DEF QInv
    <2> QED BY <2>1, <2>2
  <1>2. k <= Len(todo) /\ k \in Nat /\ todo \in Seq(Chars) /\ Len(todo) \in Nat
    BY Sizes, LenProperties DEF Read, QInv
  <1>3. s \in Seq(Chars) /\ Len(s) = k
    <2>1. SubSeq(todo, 0 + 1, k) \in Seq(Chars)
          /\ Len(SubSeq(todo, 0 + 1, k)) = IF 0 + 1 <= k THEN k - 0 ELSE 0
      BY <1>2, PartType
    <2> QED BY <1>2, <2>1
  <1>4. k <= rbuf_write_to_end(r) /\ rb' = Fill(r, s) /\ unread' = unread \o s
    BY DEF Read
  <1> HIDE DEF r, s
  <1>5. Holds(rb', unread')
    BY <1>1, <1>3, <1>4, FillHolds
  <1>6. todo' \in Seq(Chars) /\ conn' = conn
    BY <1>2, PartType DEF Read
  <1> QED BY <1>5, <1>6 DEF QInv

\* The handler takes n characters, or leaves the ring.
LEMMA ReturnKeeps ==
    ASSUME QInv, NEW n \in Nat, NEW c, Left(c), NEW run, Return(n, c, run)
    PROVE  QInv'
  <1>1. CASE n > rbuf_read_remaining(rb)
    BY <1>1, RestKeeps DEF Return, Fault, Client, QInv
  <1>2. CASE ~ n > rbuf_read_remaining(rb)
    <2>1. rb' = Readmove(rb, n) /\ unread' = SubSeq(unread, n + 1, Len(unread)) /\ conn' = c
          /\ todo' = todo
      BY <1>2 DEF Return, Client
    <2>2. n \in 0 .. Len(unread)
      BY <1>2, Distances DEF QInv
    <2> QED BY <2>1, <2>2, MoveHolds DEF QInv
  <1> QED BY <1>1, <1>2

\* Part of an interval has a number of elements.
LEMMA PartCount ==
    ASSUME NEW x \in Int, NEW S \in SUBSET (0 .. x)
    PROVE  Cardinality(S) \in Nat
  <1>1. IsFiniteSet(0 .. x)
    BY FS_Interval
  <1> QED BY <1>1, FS_Subset, FS_CardinalityType

LEMMA LeadingType == ASSUME QInv PROVE Leading(rb) \in Nat
  <1>1. rbuf_read_to_end(rb) \in Int
    BY Distances DEF QInv
  <1>2. rbuf_read_to_end(rb) - 1 \in Int
    BY <1>1
  <1> QED BY <1>2, PartCount DEF Leading

LEMMA SpacesType == ASSUME NEW n \in Nat PROVE Spaces(n) \in Nat
  <1>1. n - 1 \in Int
    OBVIOUS
  <1> QED BY <1>1, PartCount DEF Spaces

\* The steps of a scan are counted from zero.
LEMMA StepType ==
    ASSUME QInv, NEW n \in Stop(Input)
    PROVE  n \in Nat
  <1>1. rb \in Buffers /\ rb.read \in Int /\ rb.write \in Int
    BY DEF QInv, Holds, Buffers
  <1>2. Input.read \in Int /\ Input.write \in Int
    <2>1. CASE conn.handler = "method"
      <3>1. Readmove(rb, Leading(rb)).read = (rb.read + Leading(rb)) % Wrap
            /\ Readmove(rb, Leading(rb)).write = rb.write
        BY <1>1 DEF Readmove, Buffers
      <3> QED BY <1>1, <2>1, <3>1, LeadingType, Sizes DEF Input
    <2>2. CASE conn.handler # "method"
      BY <1>1, <2>2 DEF Input
    <2> QED BY <2>1, <2>2
  <1>3. rbuf_read_remaining(Input) \in Int
    BY <1>2, Sizes DEF rbuf_read_remaining
  <1> QED BY <1>3 DEF Stop, Steps

\* The handlers that scan the ring.
LEMMA ScanKeeps == ASSUME QInv, Scan PROVE QInv'
  <1>1. CASE fault' = "past the end" /\ Fault("past the end")
    BY <1>1, RestKeeps DEF QInv, Fault, Client
  <1>2. CASE Wait
    <2>1. rbuf_read_remaining(rb) \in Nat
      BY Distances, Sizes DEF QInv
    <2>2. Leading(rb) \in Nat /\ Spaces(rbuf_read_remaining(rb)) \in Nat
      BY <2>1, LeadingType, SpacesType
    <2> DEFINE all == rbuf_read_remaining(rb)
    <2>3. /\ Left(conn) /\ Left([conn EXCEPT !.method = Nothing])
          /\ \A x : Left([conn EXCEPT !.state = x])
          /\ \A x : Left(WriteResponse(conn, x))
      BY DEF QInv, Left, WriteResponse
    <2>4. \/ Return(Leading(rb), [conn EXCEPT !.method = Nothing], "needs_more_read")
          \/ Return(0, conn, "needs_more_read")
          \/ Return(all, conn, "needs_more_read")
          \/ Return(0, [conn EXCEPT !.state = LineState(all)], "needs_more_read")
          \/ Return(0, WriteResponse(conn, <<"too large">>), "registered_write")
          \/ Return(Spaces(all), conn, "needs_more_read")
          \/ Return(all, [conn EXCEPT !.state = IF all = 0 THEN @ ELSE Newlines(all - 1)],
                    "needs_more_read")
      BY <1>2, Zenon DEF Wait
    <2> HIDE DEF all
    <2>5. all \in Nat /\ Spaces(all) \in Nat
      BY <2>1, <2>2 DEF all
    <2> QED BY <2>2, <2>3, <2>4, <2>5, ReturnKeeps
  <1>3. ASSUME NEW n \in Stop(Input),
               \/ Method(Input, n) \/ Table(n) \/ Key(n) \/ Version(n)
               \/ HeaderName(n) \/ HeaderLine(n) \/ Route(n) \/ Eol(n)
        PROVE  QInv'
    <2>1. n \in Nat
      BY <1>3, StepType
    <2>2. Leading(rb) \in Nat
      BY LeadingType
    <2>3. CASE Method(Input, n)
      <3>1. PICK c, run : Left(c) /\ Return(Leading(rb) + n + 1, c, run)
        <4> DEFINE P(c) == \E run : Return(Leading(rb) + n + 1, c, run)
        <4>1. \E c : Left(c) /\ P(c)
          <5>1. /\ \A x, y : Left(ResponseAfterEol([conn EXCEPT !.method = x], y, 1))
                /\ \A x : Left([conn EXCEPT !.method = x, !.handler = "url", !.state = 0])
            BY DEF QInv, Left, ResponseAfterEol
          <5> QED BY <2>3, <5>1, Zenon DEF Method
        <4> QED BY <4>1
      <3> QED BY <2>1, <2>2, <3>1, ReturnKeeps
    <2>4. CASE Table(n)
      <3>1. PICK k \in Nat : \E c, run : Left(c) /\ Return(k, c, run)
        <4>1. /\ Left([conn EXCEPT !.handler = "eolstats", !.state = 0, !.target = 0])
              /\ Left([conn EXCEPT !.state = 1]) /\ Left(ResponseAfterEol(conn, <<"404">>, 2))
          BY DEF QInv, Left, ResponseAfterEol
        <4>2. n + 2 \in Nat /\ n + 1 \in Nat /\ 1 \in Nat
          BY <2>1
        <4> QED BY <2>4, <4>1, <4>2, Zenon DEF Table
      <3> QED BY <3>1, ReturnKeeps
    <2>5. CASE Key(n) \/ Version(n) \/ HeaderName(n) \/ HeaderLine(n) \/ Route(n)
      <3>1. PICK c, run : Left(c) /\ Return(n + 1, c, run)
        <4>1. CASE Key(n)
          BY <4>1 DEF Key, QInv, Left
        <4>2. CASE Version(n)
          BY <4>2 DEF Version, QInv, Left
        <4>3. CASE HeaderName(n)
          BY <4>3 DEF HeaderName, QInv, Left
        <4>4. CASE HeaderLine(n)
          BY <4>4 DEF HeaderLine, QInv, Left
        <4>5. CASE Route(n)
          BY <4>5 DEF Route, QInv, Left, WriteResponse
        <4> QED BY <2>5, <4>1, <4>2, <4>3, <4>4, <4>5
      <3> QED BY <2>1, <3>1, ReturnKeeps
    <2>6. CASE Eol(n)
      <3>1. PICK c, run : Left(c) /\ Return(n, c, run)
        BY <2>6 DEF Eol, QInv, Left
      <3> QED BY <2>1, <3>1, ReturnKeeps
    <2> QED BY <1>3, <2>3, <2>4, <2>5, <2>6
  <1>4. ASSUME NEW n \in Stop(Input), Extract(n) PROVE QInv'
    <2> DEFINE value  == Readmove(rb, Spaces(n))
               length == Pointer(rb, n) - Mask(value.read)
               taken  == Spaces(n) + length + LineEnd(At(rb, n))
               digits == rbuf_strntol(value, length)
    <2>1. n \in Nat /\ Spaces(n) \in Nat
      BY <1>4, StepType, SpacesType
    <2>2. length \in Int
      <3>1. rb \in Buffers /\ rbuf_read_to_end(rb) \in Int /\ Mask(rb.read) \in Int
        BY Distances DEF QInv, Holds
      <3>2. Pointer(rb, n) \in Int
        BY <2>1, <3>1 DEF Pointer
      <3>3. value.read = (rb.read + Spaces(n)) % Wrap
        BY <3>1 DEF Readmove, Buffers
      <3>4. value.read \in Int
        BY <2>1, <3>1, <3>3, Sizes DEF Buffers
      <3>5. Mask(value.read) \in Int
        BY <3>4, Sizes DEF Mask
      <3> QED BY <3>2, <3>5
    <2>3. LineEnd(At(rb, n)) \in Nat
      BY DEF LineEnd
    <2>4. NumberOf(digits) \in Nat
      <3>1. DOMAIN Digits \subseteq Nat
        BY DEF Digits
      <3> QED BY <3>1 DEF NumberOf
    <2>5. \/ Fault("negative length")
          \/ /\ ~ length < 0
             /\ \/ Return(taken, [conn EXCEPT !.handler = "headers", !.state = 1,
                                              !.left = NumberOf(digits)], "needs_more_read")
                \/ Return(taken, WriteResponse(conn, <<"invalid method">>), "registered_write")
      BY <1>4 DEF Extract
    <2>6. /\ Left([conn EXCEPT !.handler = "headers", !.state = 1, !.left = NumberOf(digits)])
          /\ Left(WriteResponse(conn, <<"invalid method">>))
      BY <2>4 DEF QInv, Left, WriteResponse
    <2> HIDE DEF length, digits
    <2>7. ~ length < 0 => taken \in Nat
      BY <2>1, <2>2, <2>3
    <2> HIDE DEF taken
    <2>8. CASE Fault("negative length")
      BY <2>8, RestKeeps DEF QInv, Fault, Client
    <2> QED BY <2>5, <2>6, <2>7, <2>8, ReturnKeeps
  <1> QED BY <1>1, <1>2, <1>3, <1>4 DEF Scan, Fault

\* The body takes what is contiguous of it.
LEMMA BodyKeeps == ASSUME QInv, Body PROVE QInv'
  <1> DEFINE max_write == rbuf_read_to_end(rb)
             to_write  == Min({conn.left, max_write})
             c == [conn EXCEPT !.left = @ - to_write,
                               !.value = @ \o Cells(rb, Mask(rb.read), to_write)]
  <1>1. max_write \in Int /\ max_write >= 0 /\ conn.left \in Nat
    BY Distances DEF QInv, Left, Body
  <1>2. to_write = IF conn.left <= max_write THEN conn.left ELSE max_write
    BY <1>1, MinOf
  <1> HIDE DEF max_write
  <1>3. to_write \in Nat /\ conn.left - to_write \in Nat
    BY <1>1, <1>2
  <1> HIDE DEF to_write
  <1>4. Left(c)
    BY <1>3 DEF QInv, Left
  <1>5. Left(WriteResponse([c EXCEPT !.writing = FALSE], <<"ok">>))
    BY <1>4 DEF Left, WriteResponse
  <1>6. \/ Fault("past the end")
        \/ Return(to_write, WriteResponse([c EXCEPT !.writing = FALSE], <<"ok">>), "registered_write")
        \/ Return(to_write, c, "continue_processing")
    BY Zenon DEF Body, max_write, to_write
  <1> HIDE DEF c
  <1>7. CASE Fault("past the end")
    BY <1>7, RestKeeps DEF QInv, Fault, Client
  <1> QED BY <1>3, <1>4, <1>5, <1>6, <1>7, ReturnKeeps

\* Answers leave the ring alone.
LEMMA RespondKeeps == ASSUME QInv, Respond PROVE QInv'
  <1>1. rb' = rb /\ unread' = unread /\ todo' = todo
    BY DEF Respond, RespondExpires, RespondContentLength, RespondResponseEnd, RespondStats,
           RespondWriteonly, RespondContentBody, Responding, Receive
  <1>2. Left(NewConnection)
    BY DEF Left, NewConnection
  <1>3. Left(conn')
    <2>1. CASE RespondExpires
      BY <2>1 DEF RespondExpires, QInv, Left
    <2>2. CASE RespondContentLength
      BY <2>2 DEF RespondContentLength, QInv, Left
    <2>3. CASE RespondResponseEnd
      BY <2>3 DEF RespondResponseEnd, QInv, Left
    <2>4. CASE RespondStats
      BY <2>4 DEF RespondStats, QInv, Left
    <2>5. CASE RespondWriteonly
      BY <1>2, <2>5 DEF RespondWriteonly, Finish
    <2>6. ASSUME NEW k \in 1 .. Len(conn.value), RespondContentBody(k) PROVE Left(conn')
      BY <1>2, <2>6 DEF RespondContentBody, Finish, QInv, Left
    <2> QED BY <2>1, <2>2, <2>3, <2>4, <2>5, <2>6 DEF Respond
  <1> QED BY <1>1, <1>3, RestKeeps DEF QInv

\* The parts of requests.
LEMMA PartsType ==
    /\ <<" ">> \in Seq(Chars) /\ <<" ", "V", "V", "n">> \in Seq(Chars)
    /\ \A x \in Chars : <<":", " ", x, "r", "n", "n">> \in Seq(Chars)
  <1>1. <<" ">> \in Seq(Chars)
    BY DEF Chars
  <1>2. <<" ", "V", "V", "n">> \in Seq(Chars)
    BY DEF Chars
  <1>3. ":" \in Chars /\ " " \in Chars /\ "r" \in Chars /\ "n" \in Chars
    BY DEF Chars
  <1>4. ASSUME NEW x \in Chars PROVE <<":", " ", x, "r", "n", "n">> \in Seq(Chars)
    <2>1. \A a, b, c, d \in Chars : <<a, b, x, c, d, d>> \in Seq(Chars)
      OBVIOUS
    <2> QED BY <1>3, <2>1
  <1> QED BY <1>1, <1>2, <1>4

\* The characters of a request line.
LEMMA LineType ==
    ASSUME NEW m \in Seq(Chars), NEW url \in Seq(Chars)
    PROVE  RequestLine(m, url) \in Seq(Chars)
  <1>1. <<" ">> \in Seq(Chars) /\ <<" ", "V", "V", "n">> \in Seq(Chars)
    BY PartsType
  <1>2. m \o <<" ">> \in Seq(Chars)
    BY <1>1, ConcatProperties
  <1>3. m \o <<" ">> \o url \in Seq(Chars)
    BY <1>2, ConcatProperties
  <1>4. m \o <<" ">> \o url \o <<" ", "V", "V", "n">> \in Seq(Chars)
    BY <1>1, <1>3, ConcatProperties
  <1> QED BY <1>4 DEF RequestLine

\* The characters of a request.
LEMMA TextType == ASSUME NEW q \in Requests PROVE Text(q) \in Seq(Chars)
  <1>1. STRING \subseteq Chars
    BY DEF Chars
  <1>2. \A t \in Seq(STRING) : t \in Seq(Chars)
    BY <1>1, SeqMonotonic
  <1>3. \A k \in Keys : k \in Seq(Chars)
    BY <1>2, ConnectionAssumption
  <1>4. /\ GET \in Seq(Chars) /\ PUT \in Seq(Chars) /\ DELETE \in Seq(Chars)
        /\ ContentLength \in Seq(Chars) /\ <<"O", "T">> \in Seq(Chars)
    BY DEF Chars, GET, PUT, DELETE, ContentLength
  <1>5. /\ <<"/", "t", "/">> \in Seq(Chars) /\ <<"/", "u", "/">> \in Seq(Chars) /\ <<"/">> \in Seq(Chars)
        /\ <<" ", "/">> \in Seq(Chars)
    BY DEF Chars
  <1>6. /\ <<"X", "n", "n">> \in Seq(Chars) /\ <<"r", "n">> \in Seq(Chars) /\ <<"n">> \in Seq(Chars)
        /\ <<":", "Z", "n", "n">> \in Seq(Chars)
    BY DEF Chars
  <1>7. [i \in 1 .. Size |-> "X"] \in Seq(Chars)
    <2>1. [i \in 1 .. Size |-> "X"] \in [1 .. Size -> Chars]
      BY DEF Chars
    <2> QED BY <2>1, Sizes, SeqDef
  <1>8. \A a \in Seq(Chars), b \in Seq(Chars) : a \o b \in Seq(Chars)
    BY ConcatProperties
  <1>9. ASSUME q.kind \in {"get", "delete", "gone", "put", "bad", "long"}
        PROVE  q.key \in Keys /\ q.key \in Seq(Chars) /\ KeyUrl(q.key) \in Seq(Chars)
    <2>1. q.key \in Keys
      BY <1>9 DEF Requests
    <2> QED BY <1>3, <1>5, <1>8, <2>1 DEF KeyUrl
  <1>10. CASE q.kind = "get"
    <2>1. Text(q) = RequestLine(GET, KeyUrl(q.key)) \o <<"X", "n", "n">>
      BY <1>10 DEF Text
    <2>2. RequestLine(GET, KeyUrl(q.key)) \in Seq(Chars)
      BY <1>4, <1>9, <1>10, LineType
    <2> QED BY <1>6, <1>8, <2>1, <2>2
  <1>11. CASE q.kind = "delete"
    <2>1. Text(q) = RequestLine(DELETE, KeyUrl(q.key)) \o <<"r", "n">>
      BY <1>11 DEF Text
    <2>2. RequestLine(DELETE, KeyUrl(q.key)) \in Seq(Chars)
      BY <1>4, <1>9, <1>11, LineType
    <2> QED BY <1>6, <1>8, <2>1, <2>2
  <1>12. CASE q.kind = "gone"
    <2>1. Text(q) = RequestLine(GET, <<"/", "u", "/">> \o q.key) \o <<"n">>
      BY <1>12 DEF Text
    <2>2. <<"/", "u", "/">> \o q.key \in Seq(Chars)
      BY <1>5, <1>8, <1>9, <1>12
    <2>3. RequestLine(GET, <<"/", "u", "/">> \o q.key) \in Seq(Chars)
      BY <1>4, <2>2, LineType
    <2> QED BY <1>6, <1>8, <2>1, <2>3
  <1>13. CASE q.kind = "put"
    <2> DEFINE z == <<":", " ", Digit(Len(q.value)), "r", "n", "n">>
               A == RequestLine(PUT, KeyUrl(q.key))
    <2>1. Text(q) = A \o ContentLength \o z \o q.value
      BY <1>13 DEF Text
    <2>2. A \in Seq(Chars)
      BY <1>4, <1>9, <1>13, LineType
    <2>3. q.value \in Values \cup {<<>>}
      BY <1>13 DEF Requests
    <2>4. q.value \in Seq(Chars) /\ Len(q.value) \in 0 .. 9
      <3>1. CASE q.value \in Values
        BY <1>2, <3>1, ConnectionAssumption
      <3>2. CASE q.value = <<>>
        BY <3>2
      <3> QED BY <2>3, <3>1, <3>2
    <2>5. Digit(Len(q.value)) \in Chars
      <3>1. /\ "0" \in Chars /\ "1" \in Chars /\ "2" \in Chars /\ "3" \in Chars /\ "4" \in Chars
            /\ "5" \in Chars /\ "6" \in Chars /\ "7" \in Chars /\ "8" \in Chars /\ "9" \in Chars
        BY DEF Chars
      <3>2. Digits \in Seq(Chars) /\ Len(Digits) = 9
        BY <3>1 DEF Digits
      <3>3. \A d \in 1 .. 9 : Digits[d] \in Chars
        BY <3>2, ElementOfSeq
      <3>4. \A n \in 0 .. 9 : Digit(n) \in Chars
        BY <3>1, <3>3 DEF Digit
      <3> QED BY <2>4, <3>4
    <2>6. z \in Seq(Chars)
      BY <2>5, PartsType
    <2> HIDE DEF z, A
    <2>7. A \o ContentLength \in Seq(Chars)
      BY <1>4, <1>8, <2>2
    <2>8. A \o ContentLength \o z \in Seq(Chars)
      BY <1>8, <2>6, <2>7
    <2> QED BY <1>8, <2>1, <2>4, <2>8
  <1>14. CASE q.kind = "bad"
    <2>1. Text(q) = RequestLine(PUT, KeyUrl(q.key)) \o ContentLength \o <<":", "Z", "n", "n">>
      BY <1>14 DEF Text
    <2>2. RequestLine(PUT, KeyUrl(q.key)) \in Seq(Chars)
      BY <1>4, <1>9, <1>14, LineType
    <2>3. RequestLine(PUT, KeyUrl(q.key)) \o ContentLength \in Seq(Chars)
      BY <1>4, <1>8, <2>2
    <2> QED BY <1>6, <1>8, <2>1, <2>3
  <1>15. CASE q.kind = "long"
    <2>1. Text(q) = RequestLine(GET, KeyUrl(q.key)) \o [i \in 1 .. Size |-> "X"]
      BY <1>15 DEF Text
    <2>2. RequestLine(GET, KeyUrl(q.key)) \in Seq(Chars)
      BY <1>4, <1>9, <1>15, LineType
    <2> QED BY <1>7, <1>8, <2>1, <2>2
  <1>16. CASE q.kind = "endless"
    <2>1. Text(q) = GET \o <<" ", "/">> \o [i \in 1 .. Size |-> "X"]
      BY <1>16 DEF Text
    <2>2. GET \o <<" ", "/">> \in Seq(Chars)
      BY <1>4, <1>5, <1>8
    <2> QED BY <1>7, <1>8, <2>1, <2>2
  <1>17. CASE q.kind \in {"stats", "odd"}
    <2> DEFINE m == IF q.kind = "stats" THEN GET ELSE <<"O", "T">>
    <2>1. Text(q) = RequestLine(m, <<"/">>) \o <<"n">>
      BY <1>17 DEF Text
    <2>2. m \in Seq(Chars)
      BY <1>4
    <2> HIDE DEF m
    <2>3. RequestLine(m, <<"/">>) \in Seq(Chars)
      BY <1>5, <2>2, LineType
    <2> QED BY <1>6, <1>8, <2>1, <2>3
  <1>18. q.kind \in {"get", "delete", "gone", "put", "bad", "long", "endless", "stats", "odd"}
    BY DEF Requests
  <1> QED BY <1>10, <1>11, <1>12, <1>13, <1>14, <1>15, <1>16, <1>17, <1>18

\* A new connection has an empty ring.
LEMMA EmptyHolds == Holds(rbuf_init, <<>>) /\ <<>> \in Seq(Chars) /\ Left(NewConnection)
  <1>1. 0 \in 0 .. Wrap - 1 /\ Blank \in Chars
    BY Sizes DEF Chars
  <1>2. rbuf_init \in Buffers /\ rbuf_init.read = 0 /\ rbuf_init.write = 0
    BY <1>1 DEF rbuf_init, Buffers
  <1>3. Moved(0, 0) = 0
    BY Sizes DEF Moved
  <1>4. <<>> \in Seq(Chars) /\ Len(<<>>) = 0 /\ 0 .. Len(<<>>) - 1 = {} /\ 0 <= Size
    BY Sizes
  <1> QED BY <1>2, <1>3, <1>4 DEF Holds, Left, NewConnection

LEMMA SendKeeps == ASSUME QInv, NEW q \in Requests, Send(q) PROVE QInv'
  <1>1. rb' = rb /\ unread' = unread /\ conn' = conn /\ todo' = todo \o Text(q)
    BY DEF Send
  <1>2. todo' \in Seq(Chars)
    BY <1>1, TextType, ConcatProperties DEF QInv
  <1> QED BY <1>1, <1>2, RestKeeps DEF QInv

LEMMA QueueNext == ASSUME QInv, [Next]_vars PROVE QInv'
  <1>1. CASE UNCHANGED vars
    BY <1>1, RestKeeps DEF vars, QInv
  <1>2. CASE ReadEvent
    <2>1. PICK k \in 0 .. Size : Read(k)
      BY <1>2 DEF ReadEvent
    <2> QED BY <2>1, ReadKeeps
  <1>3. CASE ReadAgain
    <2>1. CASE rbuf_write_remaining(rb) = 0
      BY <1>3, <2>1, RestKeeps DEF ReadAgain, Client, QInv
    <2>2. CASE rbuf_write_remaining(rb) # 0
      <3>1. PICK k \in 0 .. Size : Read(k)
        BY <1>3, <2>2 DEF ReadAgain
      <3> QED BY <3>1, ReadKeeps
    <2> QED BY <2>1, <2>2
  <1>4. CASE Handle
    <2>1. CASE Fault("negative length")
      BY <2>1, RestKeeps DEF QInv, Fault, Client
    <2> QED BY <1>4, <2>1, ScanKeeps, BodyKeeps DEF Handle
  <1>5. CASE Respond
    BY <1>5, RespondKeeps
  <1>6. CASE Reconnect
    BY <1>6, EmptyHolds DEF Reconnect, QInv
  <1>7. CASE \E q \in Requests : Send(q)
    BY <1>7, SendKeeps
  <1>8. CASE Lost
    BY <1>1, <1>8 DEF Lost
  <1> QED BY <1>1, <1>2, <1>3, <1>4, <1>5, <1>6, <1>7, <1>8 DEF Next, Server

\* The inductive invariant: what the ring holds is what was read from the
\* socket and not consumed, also when it is full.
THEOREM RingHolds == Spec => []QInv
  <1>1. Init => QInv
    BY EmptyHolds DEF Init, QInv
  <1> QED BY <1>1, QueueNext, PTL DEF Spec

\* Whatever is sent in whatever pieces, rbuf_copyn and RBUF_ITERATE find in the
\* ring buffer what was read from the socket and not consumed, in order, for a
\* buffer of any size that is not full and positions that wrap at any multiple
\* of it.
THEOREM RingCorrect == Spec => []RingExact
  <1>1. ASSUME QInv PROVE RingExact
    <2>1. Holds(rb, unread) /\ rbuf_read_remaining(rb) = Len(unread)
      BY <1>1, Distances DEF QInv
    <2> QED BY <2>1, CopyExact, AtExact DEF RingExact
  <1> QED BY <1>1, RingHolds, PTL
=============================================================================
