--------------------------- MODULE BioPairProofs ---------------------------
(***************************************************************************)
(* Proofs about BioPair for any set of BIOs and bytes and any buffer       *)
(* sizes.                                                                  *)
(***************************************************************************)
EXTENDS BioPair, SequenceTheorems, TLAPS

USE ConstantAssumption

Datum == Byte \cup {Junk}

\* A BIO's struct with a buffer in use.
Ring(b) == b \in Struct /\ b.buf \in Buffer(b.size) /\ Sound(b)

\* Two structs that differ in len, offset, buf and request alone.
SameEnd(b, c) ==
  c.peer = b.peer /\ c.init = b.init /\ c.closed = b.closed /\ c.size = b.size

-----------------------------------------------------------------------------
(* The buffer.                                                             *)

LEMMA RingFacts ==
  ASSUME NEW b, Ring(b)
  PROVE  /\ b.size \in Nat \ {0} /\ b.len \in 0 .. b.size /\ b.offset \in 0 .. b.size - 1
         /\ b.buf \in [0 .. b.size - 1 -> Datum]
         /\ b.len = 0 => b.offset = 0
<1>1. b.size \in Sizes /\ b.len \in Nat /\ b.offset \in Nat
  BY DEF Ring, Struct
<1>2. b.size \in Nat \ {0}
  BY <1>1 DEF ConstantAssumption
<1>3. b.offset < b.size /\ b.len <= b.size /\ (b.len = 0 => b.offset = 0)
  BY DEF Ring, Sound
<1>4. b.buf \in [0 .. b.size - 1 -> Datum]
  BY DEF Ring, Buffer, Datum
<1> QED
  BY <1>1, <1>2, <1>3, <1>4

\* Where the i-th byte of the queue is.
Cell(b, i) == IF b.offset + i - 1 >= b.size THEN b.offset + i - 1 - b.size ELSE b.offset + i - 1

LEMMA ContentsFacts ==
  ASSUME NEW b, Ring(b)
  PROVE  /\ Contents(b) \in Seq(Datum) /\ Len(Contents(b)) = b.len
         /\ \A i \in 1 .. b.len : Cell(b, i) \in 0 .. b.size - 1
         /\ \A i \in 1 .. b.len : Contents(b)[i] = b.buf[Cell(b, i)]
<1>1. \A i \in 1 .. b.len : Cell(b, i) \in 0 .. b.size - 1
  BY SMTT(30), RingFacts DEF Cell
<1>2. Contents(b) = [i \in 1 .. b.len |-> b.buf[Cell(b, i)]]
  BY DEF Contents, Cell
<1>3. \A i \in 1 .. b.len : b.buf[Cell(b, i)] \in Datum
  BY <1>1, RingFacts
<1>4. b.len \in Nat
  BY RingFacts
<1> HIDE DEF Cell
<1> QED
  BY <1>1, <1>2, <1>3, <1>4

\* The bytes of a chunk are stored behind those of the queue.
LEMMA StoredFacts ==
  ASSUME NEW b, Ring(b), NEW w \in Seq(Byte), Len(w) <= WriteChunk(b)
  PROVE  /\ Stored(b, w) \in Buffer(b.size)
         /\ \A i \in 1 .. b.len : Stored(b, w)[Cell(b, i)] = b.buf[Cell(b, i)]
         /\ \A i \in 1 .. Len(w) : Stored(b, w)[WriteOffset(b) + i - 1] = w[i]
         /\ WriteOffset(b) \in Nat /\ WriteOffset(b) + Len(w) <= b.size
<1>1. /\ WriteOffset(b) \in Nat /\ WriteOffset(b) + Len(w) <= b.size
      /\ Len(w) \in Nat
  BY RingFacts DEF WriteOffset, WriteChunk, Least, Space
<1>2. \A i \in 1 .. b.len : Cell(b, i) \in 0 .. b.size - 1
                              /\ Cell(b, i) \notin WriteOffset(b) .. WriteOffset(b) + Len(w) - 1
  <2> DEFINE l == Len(w)
  <2>1. l \in Nat
    OBVIOUS
  <2>2. l <= b.size - b.len /\ l <= b.size - WriteOffset(b)
    BY <1>1, RingFacts DEF WriteChunk, Least, Space
  <2> HIDE DEF l
  <2>3. \A i \in 1 .. b.len : Cell(b, i) \notin WriteOffset(b) .. WriteOffset(b) + l - 1
    <3> SUFFICES ASSUME NEW i \in 1 .. b.len PROVE Cell(b, i) \notin WriteOffset(b) .. WriteOffset(b) + l - 1
      OBVIOUS
    <3> DEFINE n == b.size  m == b.len  o == b.offset
    <3>1. n \in Nat \ {0} /\ m \in 0 .. n /\ o \in 0 .. n - 1 /\ i \in 1 .. m
      BY RingFacts
    <3>2. l <= n - m
      BY <2>2
    <3> HIDE DEF n, m, o
    <3>3. (IF o + i - 1 >= n THEN o + i - 1 - n ELSE o + i - 1)
            \notin (IF o + m >= n THEN o + m - n ELSE o + m)
                     .. (IF o + m >= n THEN o + m - n ELSE o + m) + l - 1
      <4>1. CASE o + m >= n
        BY <4>1, <3>1, <3>2, <2>1
      <4>2. CASE o + m < n
        BY <4>2, <3>1, <3>2, <2>1
      <4> QED
        BY <4>1, <4>2, <3>1
    <3> QED
      BY <3>3 DEF Cell, WriteOffset, n, m, o
  <2> QED
    BY SMTT(30), <2>3, RingFacts DEF Cell, l
<1>3. DOMAIN b.buf = 0 .. b.size - 1 /\ b.size \in Nat
  BY RingFacts
<1>4. \A i \in 1 .. Len(w) : w[i] \in Byte
  OBVIOUS
<1>5. \A i \in 0 .. b.size - 1 : b.buf[i] \in Datum
  BY RingFacts
<1> DEFINE o == WriteOffset(b)
<1> HIDE DEF o
<1>6. Stored(b, w) = [i \in 0 .. b.size - 1 |->
                        IF i \in o .. o + Len(w) - 1 THEN w[i - o + 1] ELSE b.buf[i]]
  BY <1>3 DEF Stored, o
<1>7. \A i \in 0 .. b.size - 1 : Stored(b, w)[i] \in Datum
  BY <1>1, <1>4, <1>5, <1>6 DEF Datum, o
<1>8. Stored(b, w) \in Buffer(b.size)
  BY <1>6, <1>7 DEF Buffer, Datum
<1>9. \A i \in 1 .. Len(w) : Stored(b, w)[o + i - 1] = w[i]
  BY SMTT(30), <1>1, <1>3, <1>6 DEF o
<1> QED
  BY <1>1, <1>2, <1>6, <1>8, <1>9 DEF o

\* One chunk makes the queue longer by its bytes.
LEMMA PutFacts ==
  ASSUME NEW b, Ring(b), NEW w \in Seq(Byte), Len(w) <= WriteChunk(b)
  PROVE  /\ Ring(Put(b, w)) /\ SameEnd(b, Put(b, w))
         /\ Put(b, w).len = b.len + Len(w) /\ Put(b, w).offset = b.offset
         /\ Put(b, w).request = b.request
         /\ Contents(Put(b, w)) = Contents(b) \o w
<1> DEFINE c == Put(b, w)  k == Len(w)
<1>1. k \in Nat /\ k <= b.size - b.len
  BY RingFacts, StoredFacts DEF WriteChunk, Least, Space
<1>2. Stored(b, w) \in Buffer(b.size) /\ b.size \in Sizes
  BY StoredFacts DEF Ring, Struct
<1>3. Stored(b, w) \in Buffers
  BY <1>2 DEF Buffers
<1>4. b.len + k \in Nat
  BY <1>1, RingFacts
<1> HIDE DEF k
<1>5. /\ c \in Struct /\ c.buf = Stored(b, w) /\ c.len = b.len + k
      /\ c.offset = b.offset /\ c.request = b.request /\ SameEnd(b, c)
  BY <1>3, <1>4 DEF Put, Ring, Struct, SameEnd, k
<1> HIDE DEF c
<1>6. Ring(c)
  <2>1. Sound(c)
    BY <1>1, <1>5, RingFacts DEF Sound, SameEnd
  <2> QED
    BY <1>2, <1>5, <2>1 DEF Ring, SameEnd
<1>7. \A i \in 1 .. b.len + k : Cell(c, i) = Cell(b, i)
  BY <1>5 DEF Cell, SameEnd
<1>8. \A i \in b.len + 1 .. b.len + k : Cell(b, i) = WriteOffset(b) + (i - b.len) - 1
  <2> SUFFICES ASSUME NEW i \in b.len + 1 .. b.len + k
               PROVE  Cell(b, i) = WriteOffset(b) + (i - b.len) - 1
    OBVIOUS
  <2> DEFINE n == b.size  m == b.len  o == b.offset
  <2>1. n \in Nat \ {0} /\ m \in 0 .. n /\ o \in 0 .. n - 1 /\ i \in m + 1 .. m + k
    BY RingFacts
  <2>2. k <= n - (IF o + m >= n THEN o + m - n ELSE o + m)
    BY StoredFacts, RingFacts, <1>1 DEF WriteOffset, k
  <2> HIDE DEF n, m, o
  <2>3. (IF o + i - 1 >= n THEN o + i - 1 - n ELSE o + i - 1)
          = (IF o + m >= n THEN o + m - n ELSE o + m) + (i - m) - 1
    <3>1. CASE o + m >= n
      BY <3>1, <2>1, <2>2, <1>1
    <3>2. CASE o + m < n
      BY <3>2, <2>1, <2>2, <1>1
    <3> QED
      BY <3>1, <3>2, <2>1
  <2> QED
    BY <2>3 DEF Cell, WriteOffset, n, m, o
<1>9. \A i \in 1 .. b.len + k :
        Contents(c)[i] = IF i <= b.len THEN Contents(b)[i] ELSE w[i - b.len]
  <2> SUFFICES ASSUME NEW i \in 1 .. b.len + k
               PROVE  Contents(c)[i] = IF i <= b.len THEN Contents(b)[i] ELSE w[i - b.len]
    OBVIOUS
  <2>1. Contents(c)[i] = Stored(b, w)[Cell(b, i)]
    BY <1>5, <1>6, <1>7, ContentsFacts
  <2>2. CASE i <= b.len
    BY <2>1, <2>2, StoredFacts, ContentsFacts, RingFacts, <1>1
  <2>3. CASE i > b.len
    <3>1. i - b.len \in 1 .. k /\ Cell(b, i) = WriteOffset(b) + (i - b.len) - 1
      BY SMTT(30), <1>8, <1>1, <2>3, RingFacts
    <3> QED
      BY SMTT(30), <2>1, <2>3, <3>1, StoredFacts, RingFacts, <1>1 DEF k
  <2> QED
    BY <2>2, <2>3, RingFacts, <1>1
<1>10. Contents(b) \in Seq(Datum) /\ w \in Seq(Datum) /\ Contents(c) \in Seq(Datum)
       /\ Len(Contents(b)) = b.len /\ Len(Contents(c)) = b.len + k
  BY <1>5, <1>6, ContentsFacts, SeqMonotonic DEF Datum
<1>11. Contents(c) = Contents(b) \o w
  <2>1. /\ Contents(b) \o w \in Seq(Datum) /\ Len(Contents(b) \o w) = b.len + k
        /\ \A i \in 1 .. b.len + k :
             (Contents(b) \o w)[i] = IF i <= b.len THEN Contents(b)[i] ELSE w[i - b.len]
    BY <1>10, ConcatProperties DEF k
  <2> DEFINE s == Contents(b) \o w  l == b.len + k
  <2>2. \A i \in 1 .. l : Contents(c)[i] = s[i]
    BY <1>9, <2>1
  <2>3. s \in Seq(Datum) /\ Len(s) = l /\ Len(Contents(c)) = l
    BY <1>10, <2>1
  <2> HIDE DEF s, l
  <2>4. \A i \in 1 .. Len(Contents(c)) : Contents(c)[i] = s[i]
    BY <2>2, <2>3
  <2>5. Contents(c) = s
    BY <1>10, <2>3, <2>4, SeqEqual
  <2> QED
    BY <2>5 DEF s
<1> QED
  BY <1>5, <1>6, <1>11 DEF c, k

\* A write of any length that fits, in one chunk or in two.
LEMMA FillFacts ==
  ASSUME NEW b, Ring(b), NEW w \in Seq(Byte), Len(w) <= Space(b)
  PROVE  /\ Ring(Fill(b, w)) /\ SameEnd(b, Fill(b, w))
         /\ Fill(b, w).len = b.len + Len(w) /\ Fill(b, w).request = b.request
         /\ Contents(Fill(b, w)) = Contents(b) \o w
<1>1. CASE Len(w) <= WriteChunk(b)
  BY <1>1, PutFacts DEF Fill
<1>2. CASE ~(Len(w) <= WriteChunk(b))
  <2> DEFINE k == WriteChunk(b)  u == First(w, k)  v == Rest(w, k)  c == Put(b, u)
  <2>1. /\ WriteOffset(b) \in Nat /\ WriteOffset(b) <= b.size
        /\ b.size - WriteOffset(b) \in Nat /\ Space(b) \in Nat
    BY SMTT(30), RingFacts DEF WriteOffset, Space
  <2>2. k \in Nat /\ k < Len(w) /\ k = b.size - WriteOffset(b) /\ Len(w) \in Nat
    BY <2>1, <1>2 DEF WriteChunk, Least
  <2>3. /\ b.offset + b.len < b.size /\ k = b.size - b.len - b.offset
        /\ Len(w) <= b.size - b.len
    BY SMTT(30), <2>2, RingFacts DEF WriteOffset, Space
  <2> HIDE DEF k
  <2>4. u \in Seq(Byte) /\ Len(u) = k
    BY <2>2, SubSeqProperties DEF First
  <2>5. v \in Seq(Byte) /\ Len(v) = Len(w) - k
    BY <2>2, SubSeqProperties DEF Rest
  <2>6. w = u \o v
    <3>1. 1 \in 1 .. Len(w) + 1 /\ k \in 1 - 1 .. Len(w) /\ Len(w) \in k .. Len(w)
      BY <2>2
    <3>2. SubSeq(w, 1, k) \o SubSeq(w, k + 1, Len(w)) = SubSeq(w, 1, Len(w))
      BY <3>1, ConcatAdjacentSubSeq
    <3> QED
      BY <3>2, SubSeqFull DEF First, Rest
  <2> HIDE DEF u, v
  <2>7. Len(u) <= WriteChunk(b)
    BY <2>4, <2>2 DEF k
  <2>8. /\ Ring(c) /\ SameEnd(b, c) /\ c.len = b.len + k /\ c.offset = b.offset
        /\ c.request = b.request /\ Contents(c) = Contents(b) \o u
    BY <2>4, <2>7, PutFacts
  <2> HIDE DEF c
  <2>9. WriteChunk(c) = b.offset /\ Len(v) <= b.offset
    <3>1. c.size = b.size /\ c.len = b.len + k /\ c.offset = b.offset
      BY <2>8 DEF SameEnd
    <3> DEFINE n == b.size  m == b.len  o == b.offset
    <3>2. n \in Nat \ {0} /\ m \in 0 .. n /\ o \in 0 .. n - 1 /\ o + m < n /\ k = n - m - o
      BY <2>3, RingFacts
    <3> DEFINE j == Len(w)
    <3>3. Len(v) <= o /\ Len(v) \in Nat
      <4>1. j \in Nat /\ k < j /\ j <= n - m /\ Len(v) = j - k
        BY <2>2, <2>3, <2>5
      <4> HIDE DEF n, m, o, j
      <4> QED
        BY <3>2, <4>1
    <3>4. WriteChunk(c) = Least(n - (m + k), n - (IF o + (m + k) >= n THEN o + (m + k) - n ELSE o + (m + k)))
      BY <3>1 DEF WriteChunk, Space, WriteOffset
    <3> HIDE DEF n, m, o
    <3>5. WriteChunk(c) = o
      BY <3>2, <3>4 DEF Least
    <3> QED
      BY <3>3, <3>5 DEF o
  <2>10. /\ Ring(Put(c, v)) /\ SameEnd(c, Put(c, v))
         /\ Put(c, v).len = c.len + Len(v) /\ Put(c, v).request = c.request
         /\ Contents(Put(c, v)) = Contents(c) \o v
    BY <2>5, <2>8, <2>9, PutFacts
  <2>11. Fill(b, w) = Put(c, v)
    BY <1>2 DEF Fill, c, u, v, k
  <2>12. (Contents(b) \o u) \o v = Contents(b) \o w
    BY SMTT(30), <2>4, <2>5, <2>6, ContentsFacts, ConcatAssociative, SeqMonotonic DEF Datum
  <2>13. c.len + Len(v) = b.len + Len(w)
    BY <2>5, <2>8, <2>2, RingFacts
  <2> QED
    BY <2>8, <2>10, <2>11, <2>12, <2>13 DEF SameEnd
<1> QED
  BY <1>1, <1>2

\* Reading a chunk takes its bytes off the front of the queue.
LEMMA AdvanceFacts ==
  ASSUME NEW b, Ring(b), NEW n \in Nat, n <= ReadChunk(b)
  PROVE  /\ Ring(Advance(b, n)) /\ SameEnd(b, Advance(b, n))
         /\ Advance(b, n).len = b.len - n /\ Advance(b, n).request = b.request
         /\ Advance(b, n).buf = b.buf /\ n <= b.len
         /\ n < b.len => WriteOffset(Advance(b, n)) = WriteOffset(b)
         /\ Bytes(b, n) = SubSeq(Contents(b), 1, n)
         /\ Contents(Advance(b, n)) = SubSeq(Contents(b), n + 1, b.len)
<1> DEFINE c == Advance(b, n)
           o == IF b.len = n \/ b.offset + n = b.size THEN 0 ELSE b.offset + n
<1>1. n <= b.len /\ n <= b.size - b.offset
  BY RingFacts DEF ReadChunk, Least
<1>2. b.len - n \in Nat /\ o \in Nat /\ o < b.size
  BY <1>1, RingFacts
<1>3. /\ c \in Struct /\ c.buf = b.buf /\ c.len = b.len - n /\ c.offset = o
      /\ c.request = b.request /\ SameEnd(b, c)
  <2> HIDE DEF o
  <2>1. c = [b EXCEPT !.len = b.len - n, !.offset = o]
    BY DEF Advance, o
  <2> HIDE DEF c
  <2> QED
    BY <1>2, <2>1 DEF Ring, Struct, SameEnd
<1> HIDE DEF c
<1>4. Ring(c)
  <2>1. Sound(c)
    <3>1. c.offset < c.size
      BY <1>2, <1>3 DEF SameEnd
    <3>2. c.len <= c.size
      BY <1>1, <1>3, RingFacts DEF SameEnd
    <3>3. c.len = 0 => c.offset = 0
      BY <1>1, <1>3, RingFacts
    <3> QED
      BY <3>1, <3>2, <3>3 DEF Sound
  <2> QED
    BY <1>3, <2>1 DEF Ring, SameEnd
<1>5. \A i \in 1 .. b.len - n : Cell(c, i) = Cell(b, n + i)
  <2> SUFFICES ASSUME NEW i \in 1 .. b.len - n PROVE Cell(c, i) = Cell(b, n + i)
    OBVIOUS
  <2>1. c.offset = b.offset + n \/ (c.offset = 0 /\ b.offset + n = b.size)
    BY <1>1, <1>3, RingFacts
  <2>2. c.size = b.size
    BY <1>3 DEF SameEnd
  <2> HIDE DEF o
  <2> DEFINE z == b.size  m == b.len  f == b.offset
  <2>3. z \in Nat \ {0} /\ m \in 0 .. z /\ f \in 0 .. z - 1 /\ i \in 1 .. m - n /\ f + n <= z
    BY <1>1, RingFacts
  <2> HIDE DEF z, m, f
  <2>4. CASE c.offset = b.offset + n
    <3>1. (IF (f + n) + i - 1 >= z THEN (f + n) + i - 1 - z ELSE (f + n) + i - 1)
           = (IF f + (n + i) - 1 >= z THEN f + (n + i) - 1 - z ELSE f + (n + i) - 1)
      BY <2>3
    <3> QED
      BY <2>2, <2>4, <3>1 DEF Cell, z, f
  <2>5. CASE c.offset = 0 /\ b.offset + n = b.size
    <3>1. f + n = z
      BY <2>5 DEF z, f
    <3>2. (IF 0 + i - 1 >= z THEN 0 + i - 1 - z ELSE 0 + i - 1)
           = (IF f + (n + i) - 1 >= z THEN f + (n + i) - 1 - z ELSE f + (n + i) - 1)
      BY <2>3, <3>1
    <3> QED
      BY <2>2, <2>5, <3>2 DEF Cell, z, f
  <2> QED
    BY <2>1, <2>4, <2>5
<1>6. n < b.len => WriteOffset(c) = WriteOffset(b)
  <2> SUFFICES ASSUME n < b.len PROVE WriteOffset(c) = WriteOffset(b)
    OBVIOUS
  <2>1. c.offset = b.offset + n \/ (c.offset = 0 /\ b.offset + n = b.size)
    BY <1>1, <1>3, RingFacts
  <2>2. c.size = b.size /\ c.len = b.len - n
    BY <1>3 DEF SameEnd
  <2> HIDE DEF o
  <2> DEFINE z == b.size  m == b.len  f == b.offset
  <2>3. z \in Nat \ {0} /\ m \in 0 .. z /\ f \in 0 .. z - 1 /\ n < m /\ f + n <= z
    BY <1>1, RingFacts
  <2> HIDE DEF z, m, f
  <2>4. CASE c.offset = b.offset + n
    <3>1. (IF (f + n) + (m - n) >= z THEN (f + n) + (m - n) - z ELSE (f + n) + (m - n))
           = (IF f + m >= z THEN f + m - z ELSE f + m)
      BY <2>3
    <3> QED
      BY <2>2, <2>4, <3>1 DEF WriteOffset, z, m, f
  <2>5. CASE c.offset = 0 /\ b.offset + n = b.size
    <3>1. f + n = z
      BY <2>5 DEF z, f
    <3>2. (IF 0 + (m - n) >= z THEN 0 + (m - n) - z ELSE 0 + (m - n))
           = (IF f + m >= z THEN f + m - z ELSE f + m)
      BY <2>3, <3>1
    <3> QED
      BY <2>2, <2>5, <3>2 DEF WriteOffset, z, m, f
  <2> QED
    BY <2>1, <2>4, <2>5
<1> HIDE DEF o
<1>7. \A i \in 1 .. n : Bytes(b, n)[i] = Contents(b)[i]
  <2> SUFFICES ASSUME NEW i \in 1 .. n PROVE Bytes(b, n)[i] = Contents(b)[i]
    OBVIOUS
  <2>1. Cell(b, i) = b.offset + i - 1
    BY <1>1, RingFacts DEF Cell
  <2>2. Contents(b)[i] = b.buf[Cell(b, i)]
    BY <1>1, RingFacts, ContentsFacts
  <2> QED
    BY <2>1, <2>2 DEF Bytes
<1>8. \A i \in 1 .. b.len : Contents(b)[i] \in Datum
  BY ContentsFacts, RingFacts
<1>9. /\ SubSeq(Contents(b), 1, n) \in Seq(Datum) /\ Len(SubSeq(Contents(b), 1, n)) = n
      /\ \A i \in 1 .. n : SubSeq(Contents(b), 1, n)[i] = Contents(b)[i]
  <2>1. \A i \in 1 .. n : Contents(b)[i] \in Datum
    BY <1>1, <1>8, RingFacts
  <2> QED
    BY <2>1, SubSeqProperties
<1>10. Bytes(b, n) \in Seq(Datum) /\ Len(Bytes(b, n)) = n
  <2>1. \A i \in 1 .. n : Bytes(b, n)[i] \in Datum
    BY <1>1, <1>7, <1>8, RingFacts
  <2> QED
    BY <2>1 DEF Bytes
<1>11. Bytes(b, n) = SubSeq(Contents(b), 1, n)
  BY <1>7, <1>9, <1>10, SeqEqual
<1>12. /\ SubSeq(Contents(b), n + 1, b.len) \in Seq(Datum)
       /\ Len(SubSeq(Contents(b), n + 1, b.len)) = b.len - n
       /\ \A i \in 1 .. b.len - n : SubSeq(Contents(b), n + 1, b.len)[i] = Contents(b)[n + i]
  <2>1. \A i \in n + 1 .. b.len : Contents(b)[i] \in Datum
    BY <1>8, RingFacts
  <2>2. /\ SubSeq(Contents(b), n + 1, b.len) \in Seq(Datum)
        /\ Len(SubSeq(Contents(b), n + 1, b.len))
             = IF n + 1 <= b.len THEN b.len - (n + 1) + 1 ELSE 0
        /\ \A i \in 1 .. b.len - (n + 1) + 1 :
             SubSeq(Contents(b), n + 1, b.len)[i] = Contents(b)[(n + 1) + i - 1]
    BY <2>1, SubSeqProperties, RingFacts
  <2> QED
    BY <2>2, <1>1, RingFacts
<1>13. \A i \in 1 .. b.len - n : Contents(c)[i] = Contents(b)[n + i]
  <2> SUFFICES ASSUME NEW i \in 1 .. b.len - n PROVE Contents(c)[i] = Contents(b)[n + i]
    OBVIOUS
  <2>1. Contents(c)[i] = c.buf[Cell(c, i)]
    BY <1>3, <1>4, ContentsFacts
  <2>2. Contents(b)[n + i] = b.buf[Cell(b, n + i)]
    BY <1>1, RingFacts, ContentsFacts
  <2> QED
    BY <2>1, <2>2, <1>3, <1>5
<1>14. Contents(c) \in Seq(Datum) /\ Len(Contents(c)) = b.len - n
  BY <1>3, <1>4, ContentsFacts
<1>15. Contents(c) = SubSeq(Contents(b), n + 1, b.len)
  BY <1>12, <1>13, <1>14, SeqEqual
<1> QED
  BY <1>1, <1>3, <1>4, <1>6, <1>11, <1>15 DEF c

\* Two cuts of what is behind a first cut are cuts of the whole.
LEMMA TailOfTail ==
  ASSUME NEW S, NEW s \in Seq(S), NEW k \in Nat, NEW n \in Nat, k <= n, n <= Len(s)
  PROVE  /\ SubSeq(SubSeq(s, k + 1, Len(s)), 1, n - k) = SubSeq(s, k + 1, n)
         /\ SubSeq(SubSeq(s, k + 1, Len(s)), (n - k) + 1, Len(s) - k) = SubSeq(s, n + 1, Len(s))
<1> DEFINE l == Len(s)  t == SubSeq(s, k + 1, l)
<1>1. l \in Nat /\ \A i \in 1 .. l : s[i] \in S
  OBVIOUS
<1>2. t \in Seq(S) /\ Len(t) = l - k /\ \A i \in 1 .. l - k : t[i] = s[k + i]
  BY <1>1, SubSeqProperties
<1> HIDE DEF t
<1>3. \A i \in 1 .. l - k : t[i] \in S
  BY <1>1, <1>2
<1>4. SubSeq(t, 1, n - k) = SubSeq(s, k + 1, n)
  <2>1. /\ SubSeq(t, 1, n - k) \in Seq(S) /\ Len(SubSeq(t, 1, n - k)) = n - k
        /\ \A i \in 1 .. n - k : SubSeq(t, 1, n - k)[i] = t[i]
    BY <1>1, <1>3, SubSeqProperties
  <2>2. /\ SubSeq(s, k + 1, n) \in Seq(S) /\ Len(SubSeq(s, k + 1, n)) = n - k
        /\ \A i \in 1 .. n - k : SubSeq(s, k + 1, n)[i] = s[k + i]
    BY SMTT(30), <1>1, SubSeqProperties
  <2>3. \A i \in 1 .. n - k : t[i] = s[k + i]
    BY <1>1, <1>2
  <2> QED
    BY <2>1, <2>2, <2>3, SeqEqual
<1>5. SubSeq(t, (n - k) + 1, l - k) = SubSeq(s, n + 1, l)
  <2>1. /\ SubSeq(t, (n - k) + 1, l - k) \in Seq(S)
        /\ Len(SubSeq(t, (n - k) + 1, l - k)) = l - n
        /\ \A i \in 1 .. l - n : SubSeq(t, (n - k) + 1, l - k)[i] = t[n - k + i]
    BY <1>1, <1>3, SubSeqProperties
  <2>2. /\ SubSeq(s, n + 1, l) \in Seq(S) /\ Len(SubSeq(s, n + 1, l)) = l - n
        /\ \A i \in 1 .. l - n : SubSeq(s, n + 1, l)[i] = s[n + i]
    BY <1>1, SubSeqProperties
  <2>3. \A i \in 1 .. l - n : t[n - k + i] = s[n + i]
    BY <1>1, <1>2
  <2> QED
    BY <2>1, <2>2, <2>3, SeqEqual
<1> QED
  BY <1>4, <1>5 DEF t

\* A read of any length that is there, in one chunk or in two.
LEMMA DrainedFacts ==
  ASSUME NEW b, Ring(b), NEW n \in Nat, n <= b.len
  PROVE  /\ Ring(Drained(b, n)) /\ SameEnd(b, Drained(b, n))
         /\ Drained(b, n).len = b.len - n /\ Drained(b, n).request = b.request
         /\ Drained(b, n).buf = b.buf
         /\ n < b.len => WriteOffset(Drained(b, n)) = WriteOffset(b)
         /\ BytesRead(b, n) = SubSeq(Contents(b), 1, n)
         /\ Contents(Drained(b, n)) = SubSeq(Contents(b), n + 1, b.len)
<1>1. CASE n <= ReadChunk(b)
  BY <1>1, AdvanceFacts DEF Drained, BytesRead
<1>2. CASE ~(n <= ReadChunk(b))
  <2> DEFINE k == ReadChunk(b)  c == Advance(b, k)  s == Contents(b)
  <2>1. k \in Nat /\ k < n /\ k <= b.len /\ k = b.size - b.offset
    BY <1>2, RingFacts DEF ReadChunk, Least
  <2> HIDE DEF k
  <2>2. /\ Ring(c) /\ SameEnd(b, c) /\ c.len = b.len - k /\ c.request = b.request
        /\ c.buf = b.buf /\ WriteOffset(c) = WriteOffset(b)
        /\ Bytes(b, k) = SubSeq(s, 1, k) /\ Contents(c) = SubSeq(s, k + 1, b.len)
    <3>1. k <= ReadChunk(b)
      BY <2>1 DEF k
    <3>2. k < b.len
      BY <2>1, RingFacts
    <3> QED
      BY <2>1, <3>1, <3>2, AdvanceFacts
  <2>3. c.offset = 0
    BY <2>1, RingFacts DEF Advance
  <2> HIDE DEF c
  <2>4. n - k \in Nat /\ n - k <= ReadChunk(c)
    <3>1. c.size = b.size /\ c.len = b.len - k
      BY <2>2 DEF SameEnd
    <3> DEFINE z == b.size  m == b.len  f == b.offset
    <3>2. /\ z \in Nat \ {0} /\ m \in 0 .. z /\ f \in 0 .. z - 1 /\ n <= m
          /\ k = z - f /\ k < n /\ k \in Nat
      BY <2>1, RingFacts
    <3>3. ReadChunk(c) = Least(m - k, z - 0)
      BY <2>3, <3>1 DEF ReadChunk
    <3> HIDE DEF z, m, f
    <3> QED
      BY <3>2, <3>3 DEF Least
  <2>5. /\ Drained(b, n) = Advance(c, n - k)
        /\ BytesRead(b, n) = Bytes(b, k) \o Bytes(c, n - k)
    BY <1>2 DEF Drained, BytesRead, c, k
  <2>6. /\ Ring(Advance(c, n - k)) /\ SameEnd(c, Advance(c, n - k))
        /\ Advance(c, n - k).len = c.len - (n - k) /\ Advance(c, n - k).request = c.request
        /\ Advance(c, n - k).buf = c.buf
        /\ n - k < c.len => WriteOffset(Advance(c, n - k)) = WriteOffset(c)
        /\ Bytes(c, n - k) = SubSeq(Contents(c), 1, n - k)
        /\ Contents(Advance(c, n - k)) = SubSeq(Contents(c), (n - k) + 1, c.len)
    BY <2>2, <2>4, AdvanceFacts
  <2>7. c.len - (n - k) = b.len - n /\ (n < b.len => n - k < c.len)
    BY <2>1, <2>2, RingFacts
  <2>8. s \in Seq(Datum) /\ Len(s) = b.len /\ b.len \in Nat
    BY ContentsFacts, RingFacts
  <2> HIDE DEF s
  <2>9. /\ SubSeq(SubSeq(s, k + 1, b.len), 1, n - k) = SubSeq(s, k + 1, n)
        /\ SubSeq(SubSeq(s, k + 1, b.len), (n - k) + 1, b.len - k) = SubSeq(s, n + 1, b.len)
    <3>1. k <= n /\ n <= Len(s) /\ k \in Nat
      BY <2>1, <2>8
    <3>2. /\ SubSeq(SubSeq(s, k + 1, Len(s)), 1, n - k) = SubSeq(s, k + 1, n)
          /\ SubSeq(SubSeq(s, k + 1, Len(s)), (n - k) + 1, Len(s) - k) = SubSeq(s, n + 1, Len(s))
      BY <2>8, <3>1, TailOfTail
    <3> QED
      BY <2>8, <3>2
  <2>10. SubSeq(s, 1, k) \o SubSeq(s, k + 1, n) = SubSeq(s, 1, n)
    <3>1. 1 \in 1 .. Len(s) + 1 /\ k \in 1 - 1 .. Len(s) /\ n \in k .. Len(s)
      BY <2>1, <2>8
    <3> QED
      BY <2>8, <3>1, ConcatAdjacentSubSeq
  <2>11. /\ BytesRead(b, n) = SubSeq(s, 1, n)
         /\ Contents(Drained(b, n)) = SubSeq(s, n + 1, b.len)
    BY <2>2, <2>5, <2>6, <2>9, <2>10
  <2> QED
    BY <2>2, <2>5, <2>6, <2>7, <2>11 DEF SameEnd, s
<1> QED
  BY <1>1, <1>2

-----------------------------------------------------------------------------
(* The struct of one end, and how the two ends hang together.              *)

\* What TypeOK and Documented say of one struct by itself.
Good(b) ==
  /\ b \in Struct
  /\ b.buf = NoBuf \/ b.buf \in Buffer(b.size)
  /\ b.init <=> b.peer # NoBio
  /\ b.peer # NoBio => b.buf # NoBuf
  /\ b.buf # NoBuf => Sound(b)
  /\ b.buf # NoBuf /\ b.peer = NoBio => b.len = 0
  /\ b.peer # NoBio => Wanted(b)

Links == \A x \in Bio : bio[x].peer # NoBio => {x, bio[x].peer} \subseteq live /\ bio[bio[x].peer].peer = x

Rest_OK ==
  /\ bio \in [Bio -> Struct]
  /\ place \in [Bio -> Seq(Byte)]
  /\ data \in Seq(Datum)
  /\ live \subseteq Bio

Shape == Rest_OK /\ Links /\ \A x \in Bio : Good(bio[x])

LEMMA ShapeParts == Shape <=> TypeOK /\ Documented
<1>1. ASSUME Shape PROVE TypeOK /\ Documented
  BY <1>1 DEF Shape, Rest_OK, Links, Good, TypeOK, Documented, Datum
<1>2. ASSUME TypeOK, Documented PROVE Shape
  BY <1>2 DEF Shape, Rest_OK, Links, Good, TypeOK, Documented, Datum
<1> QED
  BY <1>1, <1>2

\* The end of a pair has a buffer in use, and its peer is another such end.
LEMMA ReadyFacts ==
  ASSUME Shape, NEW x \in Bio, Ready(x)
  PROVE  /\ bio[x].peer \in Bio /\ Ready(bio[x].peer)
         /\ bio[bio[x].peer].peer = x
         /\ Ring(bio[x]) /\ Ring(Source(x))
         /\ Wanted(bio[x]) /\ Wanted(Source(x))
         /\ Good(bio[x]) /\ Good(Source(x))
<1>1. bio[x].peer # NoBio /\ bio[x].peer \in Bio /\ Good(bio[x])
  BY DEF Shape, Rest_OK, Good, Ready, Struct
<1> DEFINE y == bio[x].peer
<1>2. y \in live /\ bio[y].peer = x /\ Good(bio[y])
  BY <1>1 DEF Shape, Links
<1>3. x # NoBio
  BY DEF ConstantAssumption
<1> HIDE DEF y
<1>4. Ready(y)
  BY <1>2, <1>3 DEF Ready, Good
<1>5. Ring(bio[x]) /\ Wanted(bio[x])
  BY <1>1 DEF Good, Ring
<1>6. Ring(bio[y]) /\ Wanted(bio[y])
  BY <1>2, <1>3 DEF Good, Ring
<1> QED
  BY <1>1, <1>2, <1>4, <1>5, <1>6 DEF Source, y

\* A step that changes one struct and not its peer keeps the shape.
LEMMA OneEnd ==
  ASSUME Shape, NEW x \in Bio, NEW b, Set(x, b), Good(b), b.peer = bio[x].peer,
         place' \in [Bio -> Seq(Byte)], data' \in Seq(Datum), UNCHANGED live
  PROVE  Shape'
<1>1. bio \in [Bio -> Struct] /\ bio' = [bio EXCEPT ![x] = b] /\ b \in Struct
  BY DEF Shape, Rest_OK, Set, Good
<1>2. bio' \in [Bio -> Struct]
  BY <1>1
<1>3. \A y \in Bio : bio'[y] = IF y = x THEN b ELSE bio[y]
  BY <1>1
<1>4. Rest_OK'
  BY <1>2 DEF Rest_OK, Shape
<1>5. \A y \in Bio : bio'[y].peer = bio[y].peer
  BY <1>3
<1>6. Links'
  <2>1. \A y \in Bio : bio[y].peer \in Bio \cup {NoBio}
    BY <1>1 DEF Struct
  <2> QED
    BY <1>5, <2>1 DEF Shape, Links
<1>7. \A y \in Bio : Good(bio'[y])
  BY <1>3 DEF Shape
<1>8. (\A y \in Bio : Good(bio[y]))'
  BY <1>7
<1> QED
  BY <1>4, <1>6, <1>8 DEF Shape

\* Struct fields change without leaving the type.
LEMMA GoodRing ==
  ASSUME NEW b, Good(b), b.peer # NoBio, NEW c, Ring(c), SameEnd(b, c), Wanted(c)
  PROVE  Good(c)
<1>1. c \in Struct /\ c.buf \in Buffer(c.size) /\ Sound(c)
  BY DEF Ring
<1>2. c.peer = b.peer /\ c.init = b.init
  BY DEF SameEnd
<1>3. c.buf # NoBuf
  <2>1. c.size \in Nat \ {0}
    BY RingFacts
  <2>2. 0 \in DOMAIN c.buf
    BY <1>1, <2>1 DEF Buffer
  <2>3. 0 \notin DOMAIN NoBuf
    BY DEF NoBuf
  <2> QED
    BY <2>2, <2>3
<1> QED
  BY <1>1, <1>2, <1>3 DEF Good

\* request is the one field that a struct may change and stay in its type.
LEMMA RequestFacts ==
  ASSUME NEW b, Ring(b), NEW r \in Nat
  PROVE  /\ Ring([b EXCEPT !.request = r]) /\ SameEnd(b, [b EXCEPT !.request = r])
         /\ [b EXCEPT !.request = r].request = r
         /\ [b EXCEPT !.request = r].len = b.len
         /\ [b EXCEPT !.request = r].offset = b.offset
         /\ [b EXCEPT !.request = r].buf = b.buf
         /\ Contents([b EXCEPT !.request = r]) = Contents(b)
<1> DEFINE c == [b EXCEPT !.request = r]
<1>1. /\ c \in Struct /\ c.request = r /\ c.len = b.len /\ c.offset = b.offset /\ c.buf = b.buf
      /\ c.size = b.size /\ SameEnd(b, c)
  BY DEF Ring, Struct, SameEnd
<1> HIDE DEF c
<1>2. Ring(c)
  BY <1>1 DEF Ring, Sound
<1>3. Contents(c) = Contents(b)
  BY <1>1 DEF Contents
<1> QED
  BY <1>1, <1>2, <1>3 DEF c

-----------------------------------------------------------------------------
(* Every action keeps the shape.                                           *)

LEMMA ReadShape ==
  ASSUME Shape, NEW x \in Bio, NEW n \in Nat, bio_read(x, n)
  PROVE  Shape'
<1> DEFINE b == Source(x)  m == Least(n, b.len)  y == bio[x].peer
           c == [Drained(b, m) EXCEPT !.request = Asks(b, n)]
<1>1. y \in Bio /\ Ring(b) /\ Wanted(b) /\ Good(b) /\ b.peer # NoBio /\ b = bio[y]
  BY ReadyFacts DEF bio_read, Source, ConstantAssumption
<1>2. Set(y, c) /\ data' = BytesRead(b, m) /\ UNCHANGED <<place, live>>
  BY DEF bio_read
<1> HIDE DEF b, y
<1>3. m \in Nat /\ m <= b.len /\ (b.len = 0 => m = 0)
  BY <1>1, RingFacts DEF Least
<1>4. Asks(b, n) \in Nat /\ (b.len # 0 => Asks(b, n) = 0) /\ Asks(b, n) <= b.size
  BY <1>1, RingFacts DEF Asks, Least
<1> HIDE DEF m
<1>5. /\ Ring(Drained(b, m)) /\ SameEnd(b, Drained(b, m)) /\ Drained(b, m).len = b.len - m
      /\ BytesRead(b, m) = SubSeq(Contents(b), 1, m)
  BY <1>1, <1>3, DrainedFacts
<1>6. /\ Ring(c) /\ SameEnd(b, c) /\ c.request = Asks(b, n) /\ c.len = b.len - m
  <2> DEFINE d == Drained(b, m)
  <2> HIDE DEF d
  <2>1. Ring(d) /\ SameEnd(b, d) /\ d.len = b.len - m /\ c = [d EXCEPT !.request = Asks(b, n)]
    BY <1>5 DEF d
  <2> HIDE DEF c
  <2> QED
    BY <2>1, <1>4, RequestFacts DEF SameEnd
<1> HIDE DEF c
<1>7. Wanted(c)
  <2>1. c.size = b.size
    BY <1>6 DEF SameEnd
  <2>2. CASE b.len = 0
    BY <2>1, <2>2, <1>1, <1>3, <1>4, <1>6, RingFacts DEF Wanted
  <2>3. CASE b.len # 0
    BY <2>1, <2>3, <1>1, <1>3, <1>4, <1>6, RingFacts DEF Wanted
  <2> QED
    BY <2>2, <2>3
<1>8. Good(c) /\ c.peer = bio[y].peer
  BY <1>1, <1>6, <1>7, GoodRing DEF SameEnd
<1>9. data' \in Seq(Datum)
  <2>1. /\ Contents(b) \in Seq(Datum) /\ Len(Contents(b)) = b.len /\ b.len \in Nat
    BY <1>1, ContentsFacts, RingFacts
  <2>2. \A i \in 1 .. m : Contents(b)[i] \in Datum
    BY <1>3, <2>1
  <2> QED
    BY <1>2, <1>3, <1>5, <2>2, SubSeqProperties
<1>10. place' \in [Bio -> Seq(Byte)] /\ UNCHANGED live
  BY <1>2 DEF Shape, Rest_OK
<1> QED
  BY <1>1, <1>2, <1>8, <1>9, <1>10, OneEnd

LEMMA NreadShape ==
  ASSUME Shape, NEW x \in Bio, NEW n \in Nat, bio_nread(x, n)
  PROVE  Shape'
<1> DEFINE b == Source(x)  m == Least(n, ReadChunk(b))  y == bio[x].peer
           c == [Advance(b, m) EXCEPT !.request = 0]
<1>1. y \in Bio /\ Ring(b) /\ Wanted(b) /\ Good(b) /\ b.peer # NoBio /\ b = bio[y]
  BY ReadyFacts DEF bio_nread, Source, ConstantAssumption
<1>2. Set(y, c) /\ data' = Bytes(b, m) /\ UNCHANGED <<place, live>>
  BY DEF bio_nread
<1> HIDE DEF b, y
<1>3. ReadChunk(b) \in Nat
  BY <1>1, RingFacts DEF ReadChunk, Least
<1>4. m \in Nat /\ m <= ReadChunk(b)
  BY <1>3 DEF Least
<1> HIDE DEF m
<1>5. /\ Ring(Advance(b, m)) /\ SameEnd(b, Advance(b, m)) /\ Advance(b, m).len = b.len - m
      /\ Bytes(b, m) = SubSeq(Contents(b), 1, m) /\ m <= b.len
  BY <1>1, <1>4, AdvanceFacts
<1>6. /\ Ring(c) /\ SameEnd(b, c) /\ c.request = 0
  <2> DEFINE d == Advance(b, m)
  <2> HIDE DEF d
  <2>1. Ring(d) /\ SameEnd(b, d) /\ c = [d EXCEPT !.request = 0]
    BY <1>5 DEF d
  <2> HIDE DEF c
  <2> QED
    BY <2>1, RequestFacts DEF SameEnd
<1> HIDE DEF c
<1>7. Wanted(c)
  BY <1>6, RingFacts DEF Wanted
<1>8. Good(c) /\ c.peer = bio[y].peer
  BY <1>1, <1>6, <1>7, GoodRing DEF SameEnd
<1>9. data' \in Seq(Datum)
  <2>1. /\ Contents(b) \in Seq(Datum) /\ Len(Contents(b)) = b.len /\ b.len \in Nat
    BY <1>1, ContentsFacts, RingFacts
  <2>2. \A i \in 1 .. m : Contents(b)[i] \in Datum
    BY <1>4, <1>5, <2>1
  <2> QED
    BY <1>2, <1>4, <1>5, <2>2, SubSeqProperties
<1>10. place' \in [Bio -> Seq(Byte)] /\ UNCHANGED live
  BY <1>2 DEF Shape, Rest_OK
<1> QED
  BY <1>1, <1>2, <1>8, <1>9, <1>10, OneEnd

\* A step that changes request alone.
LEMMA RequestShape ==
  ASSUME Shape, NEW y \in Bio, Ready(y), NEW r \in Nat,
         bio[y].len # 0 => r = 0, r <= bio[y].size - bio[y].len,
         Set(y, [bio[y] EXCEPT !.request = r]), NoData
  PROVE  Shape'
<1> DEFINE b == bio[y]  c == [b EXCEPT !.request = r]
<1>1. Ring(b) /\ Good(b) /\ b.peer # NoBio
  BY ReadyFacts DEF Ready, Good
<1>2. Ring(c) /\ SameEnd(b, c) /\ c.request = r /\ c.len = b.len
  BY <1>1, RequestFacts
<1>3. Set(y, c)
  OBVIOUS
<1>4. (b.len # 0 => r = 0) /\ r <= b.size - b.len
  OBVIOUS
<1> HIDE DEF b, c
<1>5. Wanted(c)
  BY <1>2, <1>4 DEF Wanted, SameEnd
<1>6. Good(c) /\ c.peer = b.peer
  BY <1>1, <1>2, <1>5, GoodRing DEF SameEnd
<1>7. place' \in [Bio -> Seq(Byte)] /\ data' \in Seq(Datum) /\ UNCHANGED live
  BY DEF NoData, Shape, Rest_OK
<1> QED
  BY <1>3, <1>6, <1>7, OneEnd DEF b

LEMMA Nread0Shape ==
  ASSUME Shape, NEW x \in Bio, bio_nread0(x)
  PROVE  Shape'
<1> DEFINE y == bio[x].peer  b == bio[y]
<1>1. y \in Bio /\ Ready(y) /\ Ring(b) /\ Source(x) = b
  BY ReadyFacts DEF bio_nread0, Source
<1>2. Set(y, [b EXCEPT !.request = Asks(b, 1)]) /\ NoData
  BY <1>1 DEF bio_nread0
<1> HIDE DEF y
<1>3. Asks(b, 1) \in Nat /\ (b.len # 0 => Asks(b, 1) = 0) /\ Asks(b, 1) <= b.size - b.len
  BY <1>1, RingFacts DEF Asks, Least
<1> QED
  BY <1>1, <1>2, <1>3, RequestShape

LEMMA RefusedShape ==
  ASSUME Shape, NEW x \in Bio, write_refused(x)
  PROVE  Shape'
<1>1. Ready(x) /\ Ring(bio[x])
  BY ReadyFacts DEF write_refused
<1>2. 0 <= bio[x].size - bio[x].len
  BY <1>1, RingFacts
<1> QED
  BY <1>1, <1>2, RequestShape DEF write_refused

LEMMA WriteShape ==
  ASSUME Shape, NEW x \in Bio, NEW w \in Seq(Byte), bio_write(x, w)
  PROVE  Shape'
<1> DEFINE b == bio[x]  n == Least(Len(w), Space(b))  v == First(w, n)
           c == [Fill(b, v) EXCEPT !.request = 0]
<1>1. Ring(b) /\ Good(b) /\ b.peer # NoBio
  BY ReadyFacts DEF bio_write, Ready, Good
<1>2. Set(x, c) /\ NoData
  BY DEF bio_write
<1> HIDE DEF b
<1>3. n \in Nat /\ n <= Len(w) /\ n <= Space(b)
  BY <1>1, RingFacts DEF Least, Space
<1> HIDE DEF n
<1>4. v \in Seq(Byte) /\ Len(v) = n
  BY <1>3, SubSeqProperties DEF First
<1> HIDE DEF v
<1> DEFINE d == Fill(b, v)
<1>5. Ring(d) /\ SameEnd(b, d)
  BY <1>1, <1>3, <1>4, FillFacts
<1>6. c = [d EXCEPT !.request = 0]
  OBVIOUS
<1> HIDE DEF d, c
<1>7. Ring(c) /\ SameEnd(b, c) /\ c.request = 0
  <2>1. Ring(c) /\ SameEnd(d, c) /\ c.request = 0
    BY SMTT(30), <1>5, <1>6, RequestFacts
  <2> QED
    BY <1>5, <2>1 DEF SameEnd
<1>8. Good(c) /\ c.peer = b.peer
  <2>1. Wanted(c)
    BY <1>7, RingFacts DEF Wanted
  <2> QED
    BY <1>1, <1>7, <2>1, GoodRing DEF SameEnd
<1>9. place' \in [Bio -> Seq(Byte)] /\ data' \in Seq(Datum) /\ UNCHANGED live
  BY <1>2 DEF NoData, Shape, Rest_OK
<1> QED
  BY <1>2, <1>8, <1>9, OneEnd DEF b

LEMMA Nwrite0Shape ==
  ASSUME Shape, NEW x \in Bio, NEW w \in Seq(Byte), bio_nwrite0(x, w)
  PROVE  Shape'
<1> DEFINE b == bio[x]  c == [b EXCEPT !.buf = Stored(b, w), !.request = 0]
<1>1. Ring(b) /\ Good(b) /\ b.peer # NoBio
  BY ReadyFacts DEF bio_nwrite0, Ready, Good
<1>2. /\ Set(x, c) /\ Len(w) <= WriteChunk(b) /\ data' = <<>> /\ UNCHANGED live
      /\ place' = [place EXCEPT ![x] = w]
  BY DEF bio_nwrite0
<1> HIDE DEF b
<1>3. Stored(b, w) \in Buffer(b.size) /\ Stored(b, w) \in Buffers
  BY <1>1, <1>2, StoredFacts DEF Buffers, Ring, Struct
<1>4. /\ c \in Struct /\ SameEnd(b, c) /\ c.request = 0 /\ c.len = b.len
      /\ c.offset = b.offset /\ c.buf = Stored(b, w)
  BY <1>1, <1>3 DEF Ring, Struct, SameEnd
<1> HIDE DEF c
<1>5. Ring(c)
  BY <1>1, <1>3, <1>4 DEF Ring, Sound, SameEnd
<1>6. Good(c) /\ c.peer = b.peer
  <2>1. Wanted(c)
    BY <1>4, <1>5, RingFacts DEF Wanted
  <2> QED
    BY <1>1, <1>4, <1>5, <2>1, GoodRing DEF SameEnd
<1>7. place' \in [Bio -> Seq(Byte)] /\ data' \in Seq(Datum)
  BY <1>2 DEF Shape, Rest_OK
<1> QED
  BY <1>2, <1>6, <1>7, OneEnd DEF b

LEMMA NwriteShape ==
  ASSUME Shape, NEW x \in Bio, NEW n \in Nat, bio_nwrite(x, n)
  PROVE  Shape'
<1> DEFINE b == bio[x]  k == Least(n, WriteChunk(b))
           c == [b EXCEPT !.len = b.len + k, !.request = 0]
<1>1. Ring(b) /\ Good(b) /\ b.peer # NoBio
  BY ReadyFacts DEF bio_nwrite, Ready, Good
<1>2. /\ Set(x, c) /\ n <= Len(place[x]) /\ data' = <<>> /\ UNCHANGED live
      /\ place' = [place EXCEPT ![x] = Rest(place[x], k)]
  BY DEF bio_nwrite
<1> HIDE DEF b
<1>3. k \in Nat /\ k <= n /\ k <= b.size - b.len
  <2>1. WriteChunk(b) \in Nat /\ WriteChunk(b) <= b.size - b.len
    BY SMTT(30), <1>1, RingFacts DEF WriteChunk, Space, WriteOffset, Least
  <2> QED
    BY <2>1, <1>1, RingFacts DEF Least
<1> HIDE DEF k
<1>4. b.len + k \in Nat
  BY <1>1, <1>3, RingFacts
<1>5. /\ c \in Struct /\ SameEnd(b, c) /\ c.request = 0 /\ c.len = b.len + k
      /\ c.offset = b.offset /\ c.buf = b.buf
  BY <1>1, <1>4 DEF Ring, Struct, SameEnd
<1> HIDE DEF c
<1>6. Ring(c)
  <2>1. c.size = b.size
    BY <1>5 DEF SameEnd
  <2>2. Sound(c)
    BY <2>1, <1>1, <1>3, <1>5, RingFacts DEF Sound
  <2> QED
    BY <1>1, <1>5, <2>1, <2>2 DEF Ring
<1>7. Good(c) /\ c.peer = b.peer
  <2>1. Wanted(c)
    BY <1>5, <1>6, RingFacts DEF Wanted
  <2> QED
    BY <1>1, <1>5, <1>6, <2>1, GoodRing DEF SameEnd
<1>8. place' \in [Bio -> Seq(Byte)] /\ data' \in Seq(Datum)
  <2>1. place[x] \in Seq(Byte) /\ place \in [Bio -> Seq(Byte)]
    BY DEF Shape, Rest_OK
  <2>2. \A i \in k + 1 .. Len(place[x]) : place[x][i] \in Byte
    BY <1>3, <2>1
  <2>3. Rest(place[x], k) \in Seq(Byte)
    BY <1>3, <2>1, <2>2, SubSeqProperties DEF Rest
  <2> QED
    BY <1>2, <2>1, <2>3
<1> QED
  BY <1>2, <1>7, <1>8, OneEnd DEF b

LEMMA ForgetFacts ==
  ASSUME Shape, NEW S, Forget(S)
  PROVE  place' \in [Bio -> Seq(Byte)] /\ data' \in Seq(Datum)
BY DEF Shape, Rest_OK, Forget

\* A struct without a peer keeps its type when its buffer is allocated, and has a
\* buffer in use.
LEMMA AllocatedFacts ==
  ASSUME NEW b, Good(b), b.peer = NoBio
  PROVE  /\ Good(Allocated(b)) /\ Allocated(b).peer = NoBio /\ Allocated(b).init = b.init
         /\ Allocated(b).size = b.size /\ Allocated(b).closed = b.closed
         /\ Allocated(b).request = b.request
         /\ Allocated(b).len = 0 /\ Allocated(b).buf # NoBuf /\ Ring(Allocated(b))
<1> DEFINE c == Allocated(b)
<1>1. b \in Struct /\ b.size \in Sizes /\ b.size \in Nat \ {0}
  BY DEF Good, Struct, ConstantAssumption
<1>2. CASE b.buf # NoBuf
  <2>1. c = b /\ b.len = 0 /\ Sound(b) /\ b.buf \in Buffer(b.size)
    BY <1>2 DEF Allocated, Good
  <2> QED
    BY <2>1, <1>1, <1>2 DEF Ring
<1>3. CASE b.buf = NoBuf
  <2> DEFINE u == malloc(b.size)
  <2>1. u \in Buffer(b.size)
    BY DEF malloc, Buffer
  <2>2. u # NoBuf
    <3>1. 0 \in DOMAIN u /\ 0 \notin DOMAIN NoBuf
      BY <1>1 DEF malloc, NoBuf
    <3> QED
      BY <3>1
  <2> HIDE DEF u
  <2>3. u \in Buffers
    BY <2>1, <1>1 DEF Buffers
  <2>4. c = [b EXCEPT !.buf = u, !.len = 0, !.offset = 0]
    BY <1>3 DEF Allocated, u
  <2> HIDE DEF c
  <2>5. /\ c \in Struct /\ c.peer = b.peer /\ c.init = b.init /\ c.size = b.size
        /\ c.closed = b.closed /\ c.request = b.request
        /\ c.len = 0 /\ c.offset = 0 /\ c.buf = u
    BY <1>1, <2>3, <2>4 DEF Struct
  <2>6. Sound(c)
    BY <1>1, <2>5 DEF Sound
  <2>7. Good(c) /\ Ring(c)
    BY <2>1, <2>2, <2>5, <2>6 DEF Good, Ring
  <2> QED
    BY <2>2, <2>5, <2>7 DEF c
<1> QED
  BY <1>2, <1>3

\* shutdown_wr, ctrl_reset, reset_read_request, set_write_buf_size and a pairing
\* that fails halfway.
LEMMA CtrlShape ==
  ASSUME Shape, NEW x \in Bio, NEW n \in Sizes,
         \/ reset_read_request(x) \/ shutdown_wr(x) \/ ctrl_reset(x)
         \/ set_write_buf_size(x, n) \/ make_pair_fails(x)
  PROVE  Shape'
<1> DEFINE b == bio[x]
<1>1. Good(b) /\ b \in Struct /\ b.size \in Nat \ {0} /\ b.len \in Nat /\ b.request \in Nat
  BY DEF Shape, Good, Struct, ConstantAssumption
<1>2. /\ <<>> \in Seq(Datum) /\ place \in [Bio -> Seq(Byte)]
  BY DEF Shape, Rest_OK
<1>3. ASSUME NEW c, Good(c), c.peer = b.peer, Set(x, c), NoData PROVE Shape'
  BY <1>2, <1>3, OneEnd DEF NoData
<1>4. ASSUME NEW c, Good(c), c.peer = b.peer, Set(x, c), Forget({x}), UNCHANGED live PROVE Shape'
  BY <1>4, ForgetFacts, OneEnd
<1>5. CASE reset_read_request(x)
  <2> DEFINE c == [b EXCEPT !.request = 0]
  <2>1. Set(x, c) /\ NoData
    BY <1>5 DEF reset_read_request
  <2> HIDE DEF b
  <2>2. /\ c \in Struct /\ c.peer = b.peer /\ c.init = b.init /\ c.buf = b.buf /\ c.size = b.size
        /\ c.len = b.len /\ c.offset = b.offset /\ c.request = 0
    BY <1>1 DEF Struct
  <2> HIDE DEF c
  <2>3. b.len <= b.size => 0 <= b.size - b.len
    BY <1>1
  <2>4. Good(c)
    BY <1>1, <2>2, <2>3 DEF Good, Sound, Wanted
  <2> QED
    BY <1>3, <2>1, <2>2, <2>4
<1>6. CASE shutdown_wr(x)
  <2> DEFINE c == [b EXCEPT !.closed = TRUE]
  <2>1. Set(x, c) /\ Forget({x}) /\ UNCHANGED live
    BY <1>6 DEF shutdown_wr
  <2> HIDE DEF b
  <2>2. /\ c \in Struct /\ c.peer = b.peer /\ c.init = b.init /\ c.buf = b.buf /\ c.size = b.size
        /\ c.len = b.len /\ c.offset = b.offset /\ c.request = b.request
    BY <1>1 DEF Struct
  <2> HIDE DEF c
  <2>3. Good(c)
    BY <1>1, <2>2 DEF Good, Sound, Wanted
  <2> QED
    BY <1>4, <2>1, <2>2, <2>3
<1>7. CASE ctrl_reset(x)
  <2> DEFINE c == [b EXCEPT !.len = 0, !.offset = 0]
  <2>1. Set(x, c) /\ Forget({x}) /\ UNCHANGED live
    BY <1>7 DEF ctrl_reset
  <2> HIDE DEF b
  <2>2. /\ c \in Struct /\ c.peer = b.peer /\ c.init = b.init /\ c.buf = b.buf /\ c.size = b.size
        /\ c.len = 0 /\ c.offset = 0 /\ c.request = b.request
    BY <1>1 DEF Struct
  <2> HIDE DEF c
  <2>3. Sound(c)
    BY <1>1, <2>2 DEF Sound
  <2>4. b.peer # NoBio => Wanted(c)
    BY <1>1, <2>2 DEF Good, Wanted
  <2>5. Good(c)
    BY <1>1, <2>2, <2>3, <2>4 DEF Good
  <2> QED
    BY <1>4, <2>1, <2>2, <2>5
<1>8. CASE set_write_buf_size(x, n)
  <2> DEFINE c == [b EXCEPT !.size = n, !.buf = IF b.size = n THEN b.buf ELSE NoBuf]
  <2>1. Set(x, c) /\ NoData /\ b.peer = NoBio
    BY <1>8 DEF set_write_buf_size
  <2> HIDE DEF b
  <2>2. NoBuf \in Buffers /\ b.buf \in Buffers
    BY <1>1 DEF Buffers, Struct
  <2>3. /\ c \in Struct /\ c.peer = b.peer /\ c.init = b.init /\ c.size = n
        /\ c.buf = (IF b.size = n THEN b.buf ELSE NoBuf)
        /\ c.len = b.len /\ c.offset = b.offset /\ c.request = b.request
    BY <1>1, <2>2 DEF Struct
  <2> HIDE DEF c
  <2>4. Good(c)
    BY <1>1, <2>1, <2>3 DEF Good, Sound
  <2> QED
    BY <1>3, <2>1, <2>3, <2>4
<1>9. CASE make_pair_fails(x)
  <2>1. Set(x, Allocated(b)) /\ NoData /\ b.peer = NoBio
    BY <1>9 DEF make_pair_fails
  <2> HIDE DEF b
  <2>2. /\ Good(Allocated(b)) /\ Allocated(b).peer = b.peer
    BY <1>1, <2>1, AllocatedFacts
  <2> QED
    BY <1>3, <2>1, <2>2
<1> QED
  BY <1>5, <1>6, <1>7, <1>8, <1>9

LEMMA LinkedFacts ==
  ASSUME NEW b, Good(b), b.peer = NoBio, NEW y \in Bio
  PROVE  Good(Linked(b, y)) /\ Linked(b, y).peer = y
<1> DEFINE a == Allocated(b)  c == Linked(b, y)
<1>1. /\ Good(a) /\ a.len = 0 /\ a.buf # NoBuf /\ Ring(a)
  BY AllocatedFacts
<1>2. y # NoBio
  BY DEF ConstantAssumption
<1>3. c = [a EXCEPT !.peer = y, !.init = TRUE, !.closed = FALSE, !.request = 0]
  BY DEF Linked
<1> HIDE DEF a, c
<1>4. /\ c \in Struct /\ c.peer = y /\ c.init = TRUE /\ c.request = 0 /\ c.len = a.len
      /\ c.offset = a.offset /\ c.buf = a.buf /\ c.size = a.size
  BY <1>1, <1>3 DEF Good, Struct
<1>5. a.size \in Nat /\ Sound(a) /\ a.buf \in Buffer(a.size)
  BY <1>1, RingFacts DEF Ring
<1>6. Good(c)
  BY <1>1, <1>2, <1>4, <1>5 DEF Good, Sound, Wanted
<1> QED
  BY <1>4, <1>6 DEF c

LEMMA MakePairShape ==
  ASSUME Shape, NEW x \in Bio, NEW y \in Bio, bio_make_pair(x, y)
  PROVE  Shape'
<1> DEFINE b == Linked(bio[x], y)  c == Linked(bio[y], x)
<1>1. /\ {x, y} \subseteq live /\ bio[x].peer = NoBio /\ bio[y].peer = NoBio
      /\ bio' = [bio EXCEPT ![x] = b, ![y] = c] /\ NoData
  BY DEF bio_make_pair
<1>2. bio \in [Bio -> Struct] /\ Good(bio[x]) /\ Good(bio[y])
  BY DEF Shape, Rest_OK
<1>3. Good(b) /\ b.peer = y /\ Good(c) /\ c.peer = x
  BY <1>1, <1>2, LinkedFacts
<1> HIDE DEF b, c
<1>4. b \in Struct /\ c \in Struct
  BY <1>3 DEF Good
<1>5. \A z \in Bio : bio'[z] = IF z = y THEN c ELSE IF z = x THEN b ELSE bio[z]
  BY <1>1, <1>2
<1>6. Rest_OK'
  <2>1. bio' \in [Bio -> Struct]
    BY <1>1, <1>2, <1>4
  <2> QED
    BY SMTT(30), <1>1, <2>1 DEF NoData, Rest_OK, Shape
<1>7. \A z \in Bio : Good(bio'[z])
  BY <1>3, <1>5 DEF Shape
<1>8. (\A z \in Bio : Good(bio[z]))'
  BY <1>7
<1>9. Links'
  <2>1. live' = live
    BY <1>1 DEF NoData
  <2>2. ASSUME NEW z \in Bio, bio'[z].peer # NoBio
        PROVE  {z, bio'[z].peer} \subseteq live /\ bio'[bio'[z].peer].peer = z
    <3>1. CASE z = y
      <4>1. bio'[z] = c /\ bio'[z].peer = x
        BY <3>1, <1>3, <1>5
      <4>2. bio'[x].peer = y
        BY <1>3, <1>5
      <4> QED
        BY <3>1, <1>1, <4>1, <4>2
    <3>2. CASE z = x /\ z # y
      <4>1. bio'[z] = b /\ bio'[z].peer = y
        BY <3>2, <1>3, <1>5
      <4>2. bio'[y].peer = x
        BY <1>3, <1>5
      <4> QED
        BY <3>2, <1>1, <4>1, <4>2
    <3>3. CASE z # x /\ z # y
      <4>1. bio'[z] = bio[z] /\ bio[z].peer \in Bio
        BY <3>3, <1>2, <1>5, <2>2 DEF Struct
      <4>2. {z, bio[z].peer} \subseteq live /\ bio[bio[z].peer].peer = z
        BY <4>1, <2>2 DEF Shape, Links
      <4>3. z # NoBio
        BY DEF ConstantAssumption
      <4>4. bio[z].peer # x /\ bio[z].peer # y
        BY <1>1, <4>2, <4>3
      <4> QED
        BY <4>1, <4>2, <4>4, <1>5
    <3> QED
      BY <3>1, <3>2, <3>3
  <2> QED
    BY <2>1, <2>2 DEF Links
<1> QED
  BY <1>6, <1>8, <1>9 DEF Shape

LEMMA PartedFacts ==
  ASSUME NEW b, Good(b)
  PROVE  /\ Good(Parted(b)) /\ Parted(b).peer = NoBio
         /\ Good([Parted(b) EXCEPT !.buf = NoBuf]) /\ [Parted(b) EXCEPT !.buf = NoBuf].peer = NoBio
<1> DEFINE c == Parted(b)  d == [Parted(b) EXCEPT !.buf = NoBuf]
<1>1. b \in Struct /\ b.size \in Nat \ {0} /\ (b.buf = NoBuf \/ b.buf \in Buffer(b.size))
  BY DEF Good, Struct, ConstantAssumption
<1>2. c = [b EXCEPT !.peer = NoBio, !.init = FALSE, !.len = 0, !.offset = 0]
  BY DEF Parted
<1>3. d = [c EXCEPT !.buf = NoBuf]
  OBVIOUS
<1>4. NoBuf \in Buffers
  BY DEF Buffers
<1> HIDE DEF c, d
<1>5. /\ c \in Struct /\ c.peer = NoBio /\ c.init = FALSE /\ c.len = 0 /\ c.offset = 0
      /\ c.size = b.size /\ c.buf = b.buf
  BY <1>1, <1>2 DEF Struct
<1>6. /\ d \in Struct /\ d.peer = NoBio /\ d.init = FALSE /\ d.len = 0 /\ d.offset = 0
      /\ d.size = b.size /\ d.buf = NoBuf
  BY <1>3, <1>4, <1>5 DEF Struct
<1>7. Good(c)
  BY <1>1, <1>5 DEF Good, Sound
<1>8. Good(d)
  BY <1>1, <1>6 DEF Good, Sound
<1> QED
  BY <1>5, <1>6, <1>7, <1>8 DEF c, d

\* A pair is taken apart: no link is left to either end.
LEMMA ApartShape ==
  ASSUME Shape, NEW x \in Bio, NEW f, bio' = [e \in Bio |-> f[e]],
         \A e \in Bio : Good(f[e]) /\ f[e].peer = (IF e \in Pair(x) THEN NoBio ELSE bio[e].peer),
         Forget(Pair(x)), live' = live \/ live' = live \ {x}, x \in live
  PROVE  Shape'
<1>1. bio' \in [Bio -> Struct] /\ \A e \in Bio : bio'[e] = f[e]
  BY DEF Good
<1>2. place' \in [Bio -> Seq(Byte)] /\ data' \in Seq(Datum)
  BY ForgetFacts
<1>3. Rest_OK'
  BY <1>1, <1>2 DEF Rest_OK, Shape
<1>4. \A e \in Bio : Good(bio'[e])
  BY <1>1
<1>5. (\A e \in Bio : Good(bio[e]))'
  BY <1>4
<1>6. ASSUME NEW z \in Bio, bio'[z].peer # NoBio
      PROVE  {z, bio'[z].peer} \subseteq live' /\ bio'[bio'[z].peer].peer = z
  <2>1. z \notin Pair(x) /\ bio'[z].peer = bio[z].peer
    BY <1>1, <1>6
  <2>2. bio[z].peer \in Bio /\ bio[z].peer # NoBio
    BY <2>1, <1>6 DEF Shape, Rest_OK, Struct
  <2>3. {z, bio[z].peer} \subseteq live /\ bio[bio[z].peer].peer = z
    BY <2>2 DEF Shape, Links
  <2>4. bio[z].peer \notin Pair(x)
    <3>1. bio[z].peer # x
      BY <2>1, <2>3 DEF Pair
    <3>2. bio[z].peer # bio[x].peer
      <4>1. SUFFICES ASSUME bio[z].peer = bio[x].peer PROVE FALSE
        OBVIOUS
      <4>2. bio[bio[x].peer].peer = x
        BY <2>2, <4>1 DEF Shape, Links
      <4> QED
        BY <2>1, <2>3, <4>1, <4>2 DEF Pair
    <3> QED
      BY <3>1, <3>2 DEF Pair
  <2>5. z # x /\ bio[z].peer # x
    BY <2>1, <2>4 DEF Pair
  <2> QED
    BY <1>1, <2>1, <2>2, <2>3, <2>4, <2>5
<1>7. Links'
  BY <1>6 DEF Links
<1> QED
  BY <1>3, <1>5, <1>7 DEF Shape

LEMMA DestroyShape ==
  ASSUME Shape, NEW x \in Bio, bio_destroy_pair(x)
  PROVE  Shape'
<1> DEFINE f == [e \in Bio |-> IF e \in Pair(x) THEN Parted(bio[e]) ELSE bio[e]]
<1>1. bio' = [e \in Bio |-> f[e]] /\ Forget(Pair(x)) /\ live' = live /\ x \in live
  BY DEF bio_destroy_pair
<1>2. \A e \in Bio : Good(f[e]) /\ f[e].peer = (IF e \in Pair(x) THEN NoBio ELSE bio[e].peer)
  BY PartedFacts DEF Shape
<1> HIDE DEF f
<1> QED
  BY <1>1, <1>2, ApartShape

LEMMA FreeShape ==
  ASSUME Shape, NEW x \in Bio, bio_free(x)
  PROVE  Shape'
<1> DEFINE f == [e \in Bio |->
       IF e = x THEN [Parted(bio[e]) EXCEPT !.buf = NoBuf]
       ELSE IF e = bio[x].peer THEN Parted(bio[e]) ELSE bio[e]]
<1>1. bio' = [e \in Bio |-> f[e]] /\ Forget(Pair(x)) /\ live' = live \ {x} /\ x \in live
  BY DEF bio_free
<1>2. \A e \in Bio : Good(f[e]) /\ f[e].peer = (IF e \in Pair(x) THEN NoBio ELSE bio[e].peer)
  BY PartedFacts DEF Shape, Pair
<1> HIDE DEF f
<1> QED
  BY <1>1, <1>2, ApartShape

LEMMA FreshFacts ==
  ASSUME NEW b \in Fresh
  PROVE  Good(b) /\ b.peer = NoBio
<1>1. NoBuf \in Buffers /\ Default \in Sizes
  BY DEF Buffers, ConstantAssumption
<1>2. b.peer = NoBio /\ b.init = FALSE /\ b.buf = NoBuf
  BY DEF Fresh
<1>3. b \in Struct
  <2> DEFINE Natural == 0 .. 1
  <2>1. b \in [peer : {NoBio}, init : {FALSE}, closed : BOOLEAN, len : Natural, offset : Natural,
               size : {Default}, buf : {NoBuf}, request : Natural]
    BY DEF Fresh
  <2>2. Natural \subseteq Nat
    OBVIOUS
  <2> HIDE DEF Natural
  <2> QED
    BY <1>1, <2>1, <2>2 DEF Struct
<1> QED
  BY <1>2, <1>3 DEF Good

LEMMA NewShape ==
  ASSUME Shape, NEW x \in Bio, bio_new(x)
  PROVE  Shape'
<1>1. PICK b \in Fresh : Set(x, b)
  BY DEF bio_new
<1>2. Good(b) /\ b.peer = NoBio /\ b \in Struct
  BY FreshFacts DEF Good
<1>3. /\ x \notin live /\ live' = live \cup {x} /\ data' = <<>> /\ place' = place
  BY DEF bio_new
<1>4. bio \in [Bio -> Struct] /\ bio' = [bio EXCEPT ![x] = b]
  BY <1>1 DEF Shape, Rest_OK, Set
<1>5. \A z \in Bio : bio'[z] = IF z = x THEN b ELSE bio[z]
  BY <1>4
<1>6. Rest_OK'
  BY <1>2, <1>3, <1>4 DEF Shape, Rest_OK
<1>7. \A z \in Bio : Good(bio'[z])
  BY <1>2, <1>5 DEF Shape
<1>8. (\A z \in Bio : Good(bio[z]))'
  BY <1>7
<1>9. ASSUME NEW z \in Bio, bio'[z].peer # NoBio
      PROVE  {z, bio'[z].peer} \subseteq live' /\ bio'[bio'[z].peer].peer = z
  <2>1. z # x /\ bio'[z] = bio[z] /\ bio[z].peer # NoBio
    BY <1>2, <1>5, <1>9
  <2>2. {z, bio[z].peer} \subseteq live /\ bio[bio[z].peer].peer = z /\ bio[z].peer \in Bio
    BY <2>1 DEF Shape, Links, Rest_OK, Struct
  <2> QED
    BY <1>3, <1>5, <2>1, <2>2
<1>10. Links'
  BY <1>9 DEF Links
<1> QED
  BY <1>6, <1>8, <1>10 DEF Shape

LEMMA WordFacts ==
  ASSUME NEW n \in Nat, NEW w \in Words(n)
  PROVE  w \in Seq(Byte) /\ Len(w) = n
BY DEF Words

LEMMA InitShape == Init => Shape
<1> SUFFICES ASSUME Init PROVE Shape
  OBVIOUS
<1>1. \A x \in Bio : bio[x] \in Fresh
  BY DEF Init
<1>2. \A x \in Bio : Good(bio[x]) /\ bio[x].peer = NoBio
  BY <1>1, FreshFacts
<1>3. bio \in [Bio -> Struct]
  BY <1>2 DEF Init, Good
<1> QED
  BY <1>2, <1>3 DEF Init, Shape, Rest_OK, Links

LEMMA StepShape == Shape /\ [Next]_vars => Shape'
<1> SUFFICES ASSUME Shape, [Next]_vars PROVE Shape'
  OBVIOUS
<1>1. CASE UNCHANGED vars
  BY <1>1 DEF vars, Shape, Rest_OK, Links
<1>2. ASSUME NEW x \in Writers, NEW n \in 1 .. MaxAsk, NEW w \in Words(n),
             bio_write(x, w) \/ bio_nwrite0(x, w)
      PROVE  Shape'
  <2>1. x \in Bio /\ n \in Nat /\ w \in Seq(Byte)
    BY WordFacts DEF ConstantAssumption
  <2> QED
    BY <1>2, <2>1, WriteShape, Nwrite0Shape
<1>3. ASSUME NEW x \in Bio, NEW n \in 1 .. MaxAsk,
             bio_read(x, n) \/ bio_nread(x, n) \/ bio_nwrite(x, n)
      PROVE  Shape'
  <2>1. n \in Nat
    BY DEF ConstantAssumption
  <2> QED
    BY <1>3, <2>1, ReadShape, NreadShape, NwriteShape
<1>4. ASSUME NEW x \in Bio, bio_nread0(x) \/ write_refused(x)
      PROVE  Shape'
  BY <1>4, Nread0Shape, RefusedShape
<1>5. ASSUME NEW x \in Bio, NEW n \in Sizes,
             \/ reset_read_request(x) \/ shutdown_wr(x) \/ ctrl_reset(x)
             \/ set_write_buf_size(x, n) \/ make_pair_fails(x)
      PROVE  Shape'
  BY <1>5, CtrlShape
<1>6. ASSUME NEW x \in Bio, NEW y \in Bio, bio_make_pair(x, y)
      PROVE  Shape'
  BY <1>6, MakePairShape
<1>7. ASSUME NEW x \in Bio, bio_destroy_pair(x) \/ bio_free(x) \/ bio_new(x)
      PROVE  Shape'
  BY <1>7, DestroyShape, FreeShape, NewShape
<1>8. Default \in Sizes
  BY DEF ConstantAssumption
<1>9. CASE Next
  BY <1>9, <1>2, <1>3, <1>4, <1>5, <1>6, <1>7, <1>8 DEF Next
<1> QED
  BY <1>1, <1>9

-----------------------------------------------------------------------------
(* The theorems.                                                           *)

LEMMA Shaped == Spec => []Shape
BY InitShape, StepShape, PTL DEF Spec

\* Every struct has its type and every buffer the length of its size, whatever
\* calls the applications make on however many BIOs.
THEOREM Typing == Spec => []TypeOK
BY Shaped, ShapeParts, PTL

\* The comments in struct bio_bio_st hold: peers point at each other, the buffer
\* is there while they do, offset and len stay within it, and request asks for no
\* more than there is room for.
THEOREM Valid == Spec => []Documented
BY Shaped, ShapeParts, PTL

LEMMA GuaranteeFacts == Shape => GuaranteeKept
<1> SUFFICES ASSUME Shape, NEW x \in Bio, get_write_guarantee(bio[x]) > 0
             PROVE  LET b == bio[x]
                        one == [b EXCEPT !.len = b.len + WriteChunk(b)]
                    IN /\ ~Broken(b)
                       /\ WriteChunk(b) + (IF Broken(one) THEN 0 ELSE WriteChunk(one))
                            = get_write_guarantee(b)
  BY DEF GuaranteeKept
<1> DEFINE b == bio[x]  one == [b EXCEPT !.len = b.len + WriteChunk(b)]
           n == b.size  m == b.len  o == b.offset
<1>1. b.peer # NoBio /\ ~b.closed /\ get_write_guarantee(b) = n - m
  BY DEF get_write_guarantee
<1>2. Ring(b) /\ b \in Struct
  BY <1>1, ConstantAssumption DEF Shape, Good, Ring
<1>3. n \in Nat \ {0} /\ m \in 0 .. n /\ o \in 0 .. n - 1 /\ n - m > 0
  BY <1>1, <1>2, RingFacts
<1>4. one.size = n /\ one.offset = o /\ one.len = m + WriteChunk(b) /\ ~one.closed
  BY <1>1, <1>2 DEF Struct
<1> HIDE DEF one
<1>5. WriteChunk(b) = Least(n - m, n - (IF o + m >= n THEN o + m - n ELSE o + m))
  BY DEF WriteChunk, Space, WriteOffset
<1> DEFINE k == WriteChunk(b)
<1>6. WriteChunk(one)
        = Least(n - (m + k), n - (IF o + (m + k) >= n THEN o + (m + k) - n ELSE o + (m + k)))
  BY <1>4 DEF WriteChunk, Space, WriteOffset
<1>7. Broken(one) <=> m + k = n
  BY <1>4 DEF Broken
<1>8. ~Broken(b)
  BY <1>1, <1>3 DEF Broken
<1> HIDE DEF k, n, m, o
<1>9. k + (IF m + k = n THEN 0 ELSE WriteChunk(one)) = n - m
  <2>1. CASE o + m >= n
    <3>1. k = n - m
      BY <2>1, <1>3, <1>5 DEF Least, k
    <3> QED
      BY <3>1, <1>3
  <2>2. CASE o + m < n
    <3>1. k = n - (o + m)
      BY <2>2, <1>3, <1>5 DEF Least, k
    <3>2. WriteChunk(one) = Least(o, n)
      BY <3>1, <1>3, <1>6
    <3> QED
      BY <3>1, <3>2, <1>3 DEF Least
  <2> QED
    BY <2>1, <2>2, <1>3
<1> QED
  BY <1>1, <1>7, <1>8, <1>9 DEF k, one

\* BIO_ctrl_get_write_guarantee tells the truth: as many bytes as it says can be
\* written at once, or in place with two calls of BIO_nwrite.
THEOREM Guarantee == Spec => []GuaranteeKept
BY Shaped, GuaranteeFacts, PTL

-----------------------------------------------------------------------------
(* What is built in place stays where it is to be handed over.             *)

\* The bytes w are in b's buffer at the place the next ones go to.
Holds(b, w) ==
  /\ b.peer # NoBio /\ ~b.closed
  /\ Len(w) <= WriteChunk(b)
  /\ \A i \in 1 .. Len(w) : b.buf[WriteOffset(b) + i - 1] = w[i]

Built == \A x \in Bio : place[x] # <<>> => Holds(bio[x], place[x])

\* Where the next bytes go does not move, and no room is lost.
SamePlace(b, c) ==
  /\ c.peer = b.peer /\ c.closed = b.closed /\ c.buf = b.buf
  /\ WriteOffset(c) = WriteOffset(b) /\ WriteChunk(b) <= WriteChunk(c)

LEMMA SpaceFacts ==
  ASSUME NEW b, Ring(b)
  PROVE  /\ WriteOffset(b) \in Nat /\ WriteOffset(b) < b.size
         /\ Space(b) \in Nat /\ WriteChunk(b) \in Nat
         /\ WriteChunk(b) <= Space(b) /\ WriteOffset(b) + WriteChunk(b) <= b.size
         /\ Space(b) > 0 => WriteChunk(b) > 0
<1> DEFINE n == b.size  m == b.len  o == b.offset  f == WriteOffset(b)
<1>1. n \in Nat \ {0} /\ m \in 0 .. n /\ o \in 0 .. n - 1
  BY RingFacts
<1>2. f = (IF o + m >= n THEN o + m - n ELSE o + m)
  BY DEF WriteOffset
<1>3. WriteChunk(b) = Least(n - m, n - f) /\ Space(b) = n - m
  BY DEF WriteChunk, Space
<1> HIDE DEF n, m, o, f
<1>4. f \in Nat /\ f < n
  BY <1>1, <1>2
<1>5. /\ n - m \in Nat /\ Least(n - m, n - f) \in Nat
      /\ Least(n - m, n - f) <= n - m /\ f + Least(n - m, n - f) <= n
      /\ n - m > 0 => Least(n - m, n - f) > 0
  BY <1>1, <1>4 DEF Least
<1> QED
  BY <1>3, <1>4, <1>5 DEF n, f

LEMMA HoldsOn ==
  ASSUME NEW b, Ring(b), NEW c, Ring(c), SamePlace(b, c), NEW w \in Seq(Byte), Holds(b, w)
  PROVE  Holds(c, w)
<1>1. WriteChunk(b) \in Nat /\ WriteChunk(c) \in Nat /\ Len(w) \in Nat
  BY SpaceFacts
<1> QED
  BY <1>1 DEF Holds, SamePlace

\* A shorter queue that ends where it did leaves the place alone.
LEMMA ShorterFacts ==
  ASSUME NEW b, Ring(b), NEW c, Ring(c), SameEnd(b, c), c.buf = b.buf,
         c.len <= b.len, WriteOffset(c) = WriteOffset(b)
  PROVE  SamePlace(b, c)
<1>1. c.size = b.size /\ b.size \in Nat /\ b.len \in Nat /\ c.len \in Nat /\ WriteOffset(b) \in Nat
  BY RingFacts, SpaceFacts DEF SameEnd
<1> DEFINE n == b.size  m == b.len  f == WriteOffset(b)  l == c.len
<1>2. WriteChunk(b) = Least(n - m, n - f) /\ WriteChunk(c) = Least(n - l, n - f)
  BY <1>1 DEF WriteChunk, Space
<1>3. n \in Nat /\ m \in Nat /\ l \in Nat /\ f \in Nat /\ l <= m
  BY <1>1
<1> HIDE DEF n, m, f, l
<1>4. Least(n - m, n - f) <= Least(n - l, n - f)
  BY <1>3 DEF Least
<1> QED
  BY <1>2, <1>4 DEF SamePlace, SameEnd

\* A step that changes one struct and leaves what is in place at every end.
LEMMA BuiltOneEnd ==
  ASSUME Shape, Built, NEW x \in Bio, NEW b, Set(x, b), UNCHANGED place,
         place[x] # <<>> => Holds(b, place[x])
  PROVE  Built'
<1>1. \A z \in Bio : bio'[z] = IF z = x THEN b ELSE bio[z]
  BY DEF Set, Shape, Rest_OK
<1>2. \A z \in Bio : place'[z] # <<>> => Holds(bio'[z], place'[z])
  BY <1>1 DEF Built
<1> QED
  BY <1>2 DEF Built

LEMMA BuiltForget ==
  ASSUME Built, NEW S, Forget(S), \A z \in Bio \ S : bio'[z] = bio[z]
  PROVE  Built'
<1>1. \A z \in Bio : place'[z] = IF z \in S THEN <<>> ELSE place[z]
  BY DEF Forget
<1>2. \A z \in Bio : place'[z] # <<>> => Holds(bio'[z], place'[z])
  BY <1>1 DEF Built
<1> QED
  BY <1>2 DEF Built

-----------------------------------------------------------------------------
(* The queues of Pipe, read off the structs.                               *)

QueueOf(b) == IF b.peer # NoBio THEN Contents(b) ELSE <<>>
ClosedOf(b) == b.peer # NoBio /\ b.closed

peers == [x \in Bio |-> bio[x].peer]
queues == [x \in Bio |-> IF Joined(x) THEN Contents(bio[x]) ELSE <<>>]
closeds == [x \in Bio |-> Joined(x) /\ bio[x].closed]
caps == [x \in Bio |-> bio[x].size]

LEMMA View ==
  \A x \in Bio : /\ peers[x] = bio[x].peer /\ queues[x] = QueueOf(bio[x])
                 /\ closeds[x] = ClosedOf(bio[x]) /\ caps[x] = bio[x].size
BY DEF peers, queues, closeds, caps, Joined, QueueOf, ClosedOf

\* A step that changes one struct and not its peer changes the view of that end.
LEMMA ViewOneEnd ==
  ASSUME Shape, NEW x \in Bio, NEW b, Set(x, b), b.peer = bio[x].peer
  PROVE  /\ peers' = peers
         /\ queues' = [queues EXCEPT ![x] = QueueOf(b)]
         /\ closeds' = [closeds EXCEPT ![x] = ClosedOf(b)]
         /\ caps' = [caps EXCEPT ![x] = b.size]
<1>1. \A z \in Bio : bio'[z] = IF z = x THEN b ELSE bio[z]
  BY DEF Set, Shape, Rest_OK
<1>2. peers' = peers
  BY <1>1 DEF peers
<1>3. queues' = [queues EXCEPT ![x] = QueueOf(b)]
  BY <1>1 DEF queues, Joined, QueueOf
<1>4. closeds' = [closeds EXCEPT ![x] = ClosedOf(b)]
  BY <1>1 DEF closeds, Joined, ClosedOf
<1>5. caps' = [caps EXCEPT ![x] = b.size]
  BY <1>1 DEF caps
<1> QED
  BY <1>2, <1>3, <1>4, <1>5

\* Where a struct shows what it showed before, so does the view.
LEMMA ViewFunctions ==
  ASSUME NEW x \in Bio
  PROVE  /\ \A v : v = queues[x] => [queues EXCEPT ![x] = v] = queues
         /\ \A v : v = closeds[x] => [closeds EXCEPT ![x] = v] = closeds
         /\ \A v : v = caps[x] => [caps EXCEPT ![x] = v] = caps
BY DEF queues, closeds, caps

LEMMA ViewSame ==
  ASSUME Shape, NEW x \in Bio, NEW b, Set(x, b), b.peer = bio[x].peer,
         QueueOf(b) = QueueOf(bio[x]), b.closed = bio[x].closed, b.size = bio[x].size
  PROVE  peers' = peers /\ queues' = queues /\ closeds' = closeds /\ caps' = caps
<1>1. \A z \in Bio : bio'[z] = IF z = x THEN b ELSE bio[z]
  BY DEF Set, Shape, Rest_OK
<1>2. queues' = queues
  BY <1>1 DEF queues, Joined, QueueOf
<1>3. peers' = peers /\ closeds' = closeds /\ caps' = caps
  BY <1>1 DEF peers, closeds, caps, Joined
<1> QED
  BY <1>2, <1>3

-----------------------------------------------------------------------------
(* The steps of Pipe, in terms of the view.                                *)

\* A step the view does not show.
LEMMA NothingStep ==
  ASSUME data' = <<>>, peers' = peers, queues' = queues, place' = place, closeds' = closeds, caps' = caps
  PROVE  Queues!Next
<1>1. Queues!Nothing
  BY DEF Queues!Nothing, peers, queues, closeds, caps
<1> QED
  BY <1>1 DEF Queues!Next, peers, queues, closeds, caps

\* A write.
LEMMA WriteStep ==
  ASSUME NEW x \in Bio, NEW w \in Seq(Byte), Len(w) > 0,
         Len(w) <= caps[x] - Len(queues[x]), caps[x] - Len(queues[x]) \in Nat,
         peers[x] # NoBio, ~closeds[x], place[x] = <<>>, data' = <<>>,
         peers' = peers, queues' = [queues EXCEPT ![x] = queues[x] \o w], place' = place,
         closeds' = closeds, caps' = caps
  PROVE  Queues!Next
<1>1. Queues!Write(x, w)
  BY DEF Queues!Write, Queues!Joined, Queues!Room, peers, queues, closeds, caps
<1> QED
  BY <1>1 DEF Queues!Next, Queues!Joined, Queues!Room, peers, queues, closeds, caps

\* Bytes are built in place.
LEMMA StageStep ==
  ASSUME NEW x \in Bio, NEW w \in Seq(Byte), Len(w) > 0,
         Len(w) <= caps[x] - Len(queues[x]), caps[x] - Len(queues[x]) \in Nat,
         peers[x] # NoBio, ~closeds[x], data' = <<>>,
         peers' = peers, queues' = queues, place' = [place EXCEPT ![x] = w],
         closeds' = closeds, caps' = caps
  PROVE  Queues!Next
<1>1. Queues!Stage(x, w)
  BY DEF Queues!Stage, Queues!Joined, Queues!Room, peers, queues, closeds, caps
<1> QED
  BY <1>1 DEF Queues!Next, Queues!Joined, Queues!Room, peers, queues, closeds, caps

\* They are handed over.
LEMMA HandOverStep ==
  ASSUME NEW x \in Bio, NEW n \in 1 .. Len(place[x]),
         peers[x] # NoBio, ~closeds[x], data' = <<>>,
         peers' = peers, queues' = [queues EXCEPT ![x] = queues[x] \o SubSeq(place[x], 1, n)],
         place' = [place EXCEPT ![x] = SubSeq(place[x], n + 1, Len(place[x]))],
         closeds' = closeds, caps' = caps
  PROVE  Queues!Next
<1>1. Queues!HandOver(x, n)
  BY DEF Queues!HandOver, Queues!Joined, Queues!Prefix, Queues!Rest, peers, queues, closeds, caps
<1> QED
  BY <1>1 DEF Queues!Next, Queues!Joined, Queues!Prefix, Queues!Rest, peers, queues, closeds, caps

\* A read.
LEMMA ReadStep ==
  ASSUME NEW x \in Bio, peers[x] # NoBio, NEW n \in 1 .. Len(queues[peers[x]]),
         data' = SubSeq(queues[peers[x]], 1, n), peers' = peers,
         queues' = [queues EXCEPT ![peers[x]] = SubSeq(queues[peers[x]], n + 1, Len(queues[peers[x]]))], place' = place,
         closeds' = closeds, caps' = caps
  PROVE  Queues!Next
<1>1. Queues!Read(x, n)
  BY DEF Queues!Read, Queues!Joined, Queues!Prefix, Queues!Rest, peers, queues, closeds, caps
<1> QED
  BY <1>1 DEF Queues!Next, Queues!Joined, Queues!Prefix, Queues!Rest, peers, queues, closeds, caps

\* One end writes no more.
LEMMA CloseStep ==
  ASSUME NEW x \in Bio,
         peers[x] # NoBio, data' = <<>>, peers' = peers, queues' = queues,
         place' = [place EXCEPT ![x] = <<>>], closeds' = [closeds EXCEPT ![x] = TRUE], caps' = caps
  PROVE  Queues!Next
<1>1. Queues!Close(x)
  BY DEF Queues!Close, Queues!Joined, peers, queues, closeds, caps
<1> QED
  BY <1>1 DEF Queues!Next, Queues!Joined, peers, queues, closeds, caps

\* A queue is emptied.
LEMMA DropStep ==
  ASSUME NEW x \in Bio,
         data' = <<>>, peers' = peers, queues' = [queues EXCEPT ![x] = <<>>],
         place' = [place EXCEPT ![x] = <<>>], closeds' = closeds, caps' = caps
  PROVE  Queues!Next
<1>1. Queues!Drop(x)
  BY DEF Queues!Drop, peers, queues, closeds, caps
<1> QED
  BY <1>1 DEF Queues!Next, peers, queues, closeds, caps

\* The size asked for.
LEMMA ResizeStep ==
  ASSUME NEW x \in Bio, NEW n \in Sizes,
         peers[x] = NoBio, data' = <<>>, peers' = peers, queues' = queues, place' = place,
         closeds' = closeds, caps' = [caps EXCEPT ![x] = n]
  PROVE  Queues!Next
<1>1. Queues!Resize(x, n)
  BY DEF Queues!Resize, Queues!Joined, peers, queues, closeds, caps
<1> QED
  BY <1>1 DEF Queues!Next, Queues!Joined, peers, queues, closeds, caps

\* Two ends become a pair.
LEMMA JoinStep ==
  ASSUME NEW x \in Bio, NEW y \in Bio,
         peers[x] = NoBio, peers[y] = NoBio, data' = <<>>,
         peers' = [peers EXCEPT ![x] = y, ![y] = x], queues' = queues, place' = place,
         closeds' = closeds, caps' = caps
  PROVE  Queues!Next
<1>1. Queues!Join(x, y)
  BY DEF Queues!Join, Queues!Joined, peers, queues, closeds, caps
<1> QED
  BY <1>1 DEF Queues!Next, Queues!Joined, peers, queues, closeds, caps

\* A pair is taken apart.
LEMMA PartStep ==
  ASSUME NEW x \in Bio, NEW S, S = {x, peers[x]},
         peers[x] # NoBio, data' = <<>>,
         peers' = [e \in Bio |-> IF e \in S THEN NoBio ELSE peers[e]],
         queues' = [e \in Bio |-> IF e \in S THEN <<>> ELSE queues[e]],
         place' = [e \in Bio |-> IF e \in S THEN <<>> ELSE place[e]],
         closeds' = [e \in Bio |-> IF e \in S THEN FALSE ELSE closeds[e]], caps' = caps
  PROVE  Queues!Next
<1>1. Queues!Part(x)
  BY DEF Queues!Part, Queues!Joined, peers, queues, closeds, caps
<1> QED
  BY <1>1 DEF Queues!Next, Queues!Joined, peers, queues, closeds, caps

-----------------------------------------------------------------------------
(* What each action keeps and which step of Pipe it is.                    *)

LEMMA QueueFacts ==
  ASSUME Shape, NEW x \in Bio, Ready(x)
  PROVE  /\ peers[x] = bio[x].peer /\ peers[x] # NoBio /\ Joined(x)
         /\ queues[x] = Contents(bio[x]) /\ Len(queues[x]) = bio[x].len
         /\ queues[x] \in Seq(Datum)
         /\ closeds[x] = bio[x].closed /\ caps[x] = bio[x].size
         /\ caps[x] - Len(queues[x]) = Space(bio[x]) /\ Space(bio[x]) \in Nat
<1>1. Ring(bio[x]) /\ bio[x].peer \in Bio
  BY ReadyFacts
<1>2. bio[x].peer # NoBio /\ bio[x].closed \in BOOLEAN
  BY <1>1 DEF ConstantAssumption, Ring, Struct
<1>3. Joined(x)
  BY <1>2 DEF Joined
<1>4. /\ peers[x] = bio[x].peer /\ queues[x] = Contents(bio[x])
      /\ caps[x] = bio[x].size
  BY <1>3 DEF peers, queues, caps
<1>5. closeds[x] = bio[x].closed
  BY <1>2, <1>3 DEF closeds
<1>6. Len(queues[x]) = bio[x].len /\ queues[x] \in Seq(Datum)
  BY <1>1, <1>4, ContentsFacts
<1>7. Space(bio[x]) \in Nat
  BY <1>1, SpaceFacts
<1> QED
  BY <1>2, <1>3, <1>4, <1>5, <1>6, <1>7 DEF Space

\* Bytes leave the front of the peer's queue.
LEMMA TakeRefines ==
  ASSUME Shape, Built, NEW x \in Bio, Ready(x), NEW m \in Nat,
         NEW c, Ring(c), SameEnd(Source(x), c), c.buf = Source(x).buf,
         m <= Source(x).len, c.len = Source(x).len - m,
         m < Source(x).len => WriteOffset(c) = WriteOffset(Source(x)),
         Contents(c) = SubSeq(Contents(Source(x)), m + 1, Source(x).len),
         data' = SubSeq(Contents(Source(x)), 1, m),
         place[bio[x].peer] = <<>> \/ m < Source(x).len \/ m = 0,
         Set(bio[x].peer, c), UNCHANGED <<place, live>>
  PROVE  Built' /\ Queues!Next
<1> DEFINE y == bio[x].peer  b == Source(x)
<1>1. /\ y \in Bio /\ Ready(y) /\ b = bio[y] /\ Ring(b) /\ b.len \in Nat
  <2>1. y \in Bio /\ Ready(y) /\ Ring(b)
    BY ReadyFacts
  <2>2. b = bio[y]
    BY DEF Source
  <2> HIDE DEF y, b
  <2>3. b.len \in Nat
    BY <2>1, RingFacts
  <2> QED
    BY <2>1, <2>2, <2>3
<1>2. /\ peers[x] = y /\ peers[x] # NoBio
  BY QueueFacts
<1>3. /\ queues[y] = Contents(b) /\ Len(queues[y]) = b.len /\ queues[y] \in Seq(Datum)
  <2> HIDE DEF y, b
  <2>1. /\ queues[y] = Contents(bio[y]) /\ Len(queues[y]) = bio[y].len
        /\ queues[y] \in Seq(Datum)
    BY <1>1, QueueFacts
  <2> QED
    BY <1>1, <2>1
<1>4. Set(y, c) /\ c.peer = bio[y].peer /\ c.closed = bio[y].closed /\ c.size = bio[y].size
  BY <1>1 DEF SameEnd
<1>5. m <= b.len /\ (place[y] = <<>> \/ m < b.len \/ m = 0) /\ c.len = b.len - m
  OBVIOUS
<1>6. Contents(c) = SubSeq(queues[y], m + 1, b.len) /\ data' = SubSeq(queues[y], 1, m)
  BY <1>3
<1>7. SameEnd(b, c) /\ c.buf = b.buf /\ (m < b.len => WriteOffset(c) = WriteOffset(b))
  OBVIOUS
<1> HIDE DEF y, b
<1>8. Built'
  <2>1. place[y] # <<>> => Holds(c, place[y])
    <3>1. SUFFICES ASSUME place[y] # <<>> PROVE Holds(c, place[y])
      OBVIOUS
    <3>2. WriteOffset(c) = WriteOffset(b)
      <4>1. CASE m < b.len
        BY <4>1, <1>7
      <4>2. CASE m = 0 /\ b.len = 0
        <5>1. c.offset = 0 /\ b.offset = 0 /\ c.len = 0 /\ b.size = c.size /\ b.size \in Nat \ {0}
          <6>1. c.len = 0 /\ b.size = c.size
            <7>1. c.len = 0 - 0
              BY <4>2, <1>5
            <7>2. c.size = b.size
              BY <1>7 DEF SameEnd
            <7> QED
              BY <7>1, <7>2
          <6>2. c.offset = 0
            BY <6>1, RingFacts
          <6>3. b.offset = 0 /\ b.size \in Nat \ {0}
            BY <4>2, <1>1, RingFacts
          <6> QED
            BY <6>1, <6>2, <6>3
        <5> QED
          BY <4>2, <5>1 DEF WriteOffset
      <4> QED
        BY <4>1, <4>2, <1>1, <1>5, <3>1
    <3>3. c.len <= b.len
      BY <1>1, <1>5
    <3>4. SamePlace(b, c)
      BY <1>1, <1>7, <3>2, <3>3, ShorterFacts
    <3>5. Holds(b, place[y]) /\ place[y] \in Seq(Byte)
      BY <3>1, <1>1 DEF Built, Shape, Rest_OK
    <3> QED
      BY <1>1, <3>4, <3>5, HoldsOn
  <2> QED
    BY <1>1, <1>4, <2>1, BuiltOneEnd
<1>9. /\ peers' = peers /\ queues' = [queues EXCEPT ![y] = QueueOf(c)]
      /\ closeds' = [closeds EXCEPT ![y] = ClosedOf(c)]
      /\ caps' = [caps EXCEPT ![y] = c.size]
  BY <1>1, <1>4, ViewOneEnd
<1>10. QueueOf(c) = SubSeq(queues[y], m + 1, Len(queues[y]))
  <2>1. bio[y].peer # NoBio
    BY <1>1, QueueFacts DEF Joined
  <2> QED
    BY <2>1, <1>3, <1>4, <1>6 DEF QueueOf
<1>11. closeds' = closeds /\ caps' = caps
  <2>1. ClosedOf(c) = ClosedOf(bio[y])
    BY <1>4 DEF ClosedOf
  <2>2. ClosedOf(c) = closeds[y] /\ c.size = caps[y]
    BY <2>1, <1>1, <1>4, View
  <2>3. DOMAIN closeds = Bio /\ DOMAIN caps = Bio
    BY DEF closeds, caps
  <2> QED
    BY <1>1, <1>9, <2>2, ViewFunctions
<1>12. CASE m = 0
  <2>1. QueueOf(c) = queues[y] /\ data' = <<>>
    BY <1>3, <1>6, <1>10, <1>12, SubSeqFull, SubSeqEmpty
  <2>2. queues' = queues
    BY <1>1, <1>9, <2>1, ViewFunctions
  <2> QED
    BY <1>8, <1>9, <1>11, <2>1, <2>2, NothingStep
<1>13. CASE m > 0
  <2>1. m \in 1 .. Len(queues[peers[x]])
    BY <1>2, <1>3, <1>5, <1>13, <1>1
  <2> QED
    BY <1>2, <1>3, <1>6, <1>8, <1>9, <1>10, <1>11, <2>1, ReadStep
<1> QED
  BY <1>12, <1>13

\* To give up a request, or to make one, is a step nobody sees.
LEMMA RequestKeeps ==
  ASSUME NEW b, Ring(b), NEW r \in Nat
  PROVE  SamePlace(b, [b EXCEPT !.request = r])
<1> DEFINE c == [b EXCEPT !.request = r]
<1>1. /\ Ring(c) /\ SameEnd(b, c) /\ c.len = b.len /\ c.offset = b.offset /\ c.buf = b.buf
  BY RequestFacts
<1> HIDE DEF c
<1>2. WriteOffset(c) = WriteOffset(b)
  BY <1>1 DEF WriteOffset, SameEnd
<1>3. c.len <= b.len
  BY <1>1, RingFacts
<1>4. SamePlace(b, c)
  BY <1>1, <1>2, <1>3, ShorterFacts
<1> QED
  BY <1>4 DEF c

LEMMA ReadRefines ==
  ASSUME Shape, Built, Careful, NEW x \in Bio, NEW n \in Nat, bio_read(x, n)
  PROVE  Built' /\ Queues!Next
<1> DEFINE b == Source(x)  m == Least(n, b.len)  d == Drained(b, m)
           c == [d EXCEPT !.request = Asks(b, n)]
<1>1. /\ Ready(x) /\ Set(bio[x].peer, c) /\ data' = BytesRead(b, m) /\ UNCHANGED <<place, live>>
      /\ place[bio[x].peer] = <<>> \/ m < b.len \/ m = 0
  BY DEF bio_read, Calm
<1>2. Ring(b)
  BY <1>1, ReadyFacts
<1>3. m \in Nat /\ m <= b.len
  BY <1>2, RingFacts DEF Least
<1>4. Asks(b, n) \in Nat
  BY <1>2, RingFacts DEF Asks, Least
<1> HIDE DEF m
<1>5. /\ Ring(d) /\ SameEnd(b, d) /\ d.len = b.len - m /\ d.buf = b.buf
      /\ m < b.len => WriteOffset(d) = WriteOffset(b)
      /\ BytesRead(b, m) = SubSeq(Contents(b), 1, m)
      /\ Contents(d) = SubSeq(Contents(b), m + 1, b.len)
  BY <1>2, <1>3, DrainedFacts
<1> HIDE DEF d
<1>6. /\ Ring(c) /\ SameEnd(d, c) /\ c.len = d.len /\ c.buf = d.buf /\ Contents(c) = Contents(d)
      /\ WriteOffset(c) = WriteOffset(d)
  BY <1>4, <1>5, RequestFacts, RequestKeeps DEF SamePlace
<1> HIDE DEF c
<1>7. SameEnd(b, c)
  BY <1>5, <1>6 DEF SameEnd
<1> HIDE DEF b
<1> QED
  BY <1>1, <1>2, <1>3, <1>5, <1>6, <1>7, TakeRefines DEF b

LEMMA NreadRefines ==
  ASSUME Shape, Built, Careful, NEW x \in Bio, NEW n \in Nat, bio_nread(x, n)
  PROVE  Built' /\ Queues!Next
<1> DEFINE b == Source(x)  m == Least(n, ReadChunk(b))  d == Advance(b, m)
           c == [d EXCEPT !.request = 0]
<1>1. /\ Ready(x) /\ Set(bio[x].peer, c) /\ data' = Bytes(b, m) /\ UNCHANGED <<place, live>>
      /\ place[bio[x].peer] = <<>> \/ m < b.len
  BY DEF bio_nread, Calm
<1>2. Ring(b)
  BY <1>1, ReadyFacts
<1>3. ReadChunk(b) \in Nat
  BY <1>2, RingFacts DEF ReadChunk, Least
<1>4. m \in Nat /\ m <= ReadChunk(b)
  BY <1>3 DEF Least
<1> HIDE DEF m
<1>5. /\ Ring(d) /\ SameEnd(b, d) /\ d.len = b.len - m /\ d.buf = b.buf /\ m <= b.len
      /\ m < b.len => WriteOffset(d) = WriteOffset(b)
      /\ Bytes(b, m) = SubSeq(Contents(b), 1, m)
      /\ Contents(d) = SubSeq(Contents(b), m + 1, b.len)
  BY <1>2, <1>4, AdvanceFacts
<1> HIDE DEF d
<1>6. /\ Ring(c) /\ SameEnd(d, c) /\ c.len = d.len /\ c.buf = d.buf /\ Contents(c) = Contents(d)
      /\ WriteOffset(c) = WriteOffset(d)
  BY <1>5, RequestFacts, RequestKeeps DEF SamePlace
<1> HIDE DEF c
<1>7. SameEnd(b, c)
  BY <1>5, <1>6 DEF SameEnd
<1> HIDE DEF b
<1> QED
  BY <1>1, <1>2, <1>4, <1>5, <1>6, <1>7, TakeRefines DEF b

\* bio_nread0 and a refused write change request alone.
LEMMA RequestRefines ==
  ASSUME Shape, Built, NEW x \in Bio, bio_nread0(x) \/ write_refused(x)
  PROVE  Built' /\ Queues!Next
<1>1. PICK y \in Bio, r \in Nat : Ready(y) /\ Set(y, [bio[y] EXCEPT !.request = r]) /\ NoData
  <2>1. CASE bio_nread0(x)
    <3>1. bio[x].peer \in Bio /\ Ready(bio[x].peer) /\ Ring(Source(x)) /\ Source(x) = bio[bio[x].peer]
      BY <2>1, ReadyFacts DEF bio_nread0, Source
    <3>2. Asks(Source(x), 1) \in Nat
      BY <3>1, RingFacts DEF Asks, Least
    <3> QED
      BY <2>1, <3>1, <3>2 DEF bio_nread0
  <2>2. CASE write_refused(x)
    BY <2>2 DEF write_refused
  <2> QED
    BY <2>1, <2>2
<1> DEFINE b == bio[y]  c == [b EXCEPT !.request = r]
<1>2. Ring(b) /\ b.peer # NoBio
  BY <1>1, ReadyFacts, QueueFacts DEF Joined
<1>3. Ring(c) /\ SameEnd(b, c) /\ SamePlace(b, c) /\ Contents(c) = Contents(b)
  BY <1>2, RequestFacts, RequestKeeps
<1>4. Set(y, c) /\ data' = <<>> /\ place' = place
  BY <1>1 DEF NoData
<1> HIDE DEF c
<1>5. place[y] # <<>> => Holds(c, place[y])
  <2>1. place[y] \in Seq(Byte)
    BY DEF Shape, Rest_OK
  <2> QED
    BY <2>1, <1>2, <1>3, HoldsOn DEF Built
<1>6. peers' = peers /\ queues' = queues /\ closeds' = closeds /\ caps' = caps
  BY <1>2, <1>3, <1>4, ViewSame DEF SameEnd, QueueOf
<1> QED
  BY <1>4, <1>5, <1>6, BuiltOneEnd, NothingStep

LEMMA WriteRefines ==
  ASSUME Shape, Built, NEW x \in Bio, NEW w \in Seq(Byte), Len(w) > 0, bio_write(x, w)
  PROVE  Built' /\ Queues!Next
<1> DEFINE b == bio[x]  n == Least(Len(w), Space(b))  v == First(w, n)  d == Fill(b, v)
           c == [d EXCEPT !.request = 0]
<1>1. Ready(x) /\ ~Broken(b) /\ place[x] = <<>> /\ Set(x, c) /\ data' = <<>> /\ place' = place
  BY DEF bio_write, NoData
<1>2. Ring(b) /\ b.peer # NoBio
  BY <1>1, ReadyFacts, QueueFacts DEF Joined
<1>3. Space(b) \in Nat /\ Space(b) > 0 /\ ~b.closed
  BY <1>1, <1>2, RingFacts DEF Broken, Space
<1>4. n \in Nat /\ n <= Len(w) /\ n <= Space(b) /\ n > 0
  BY <1>3 DEF Least
<1> HIDE DEF n
<1>5. v \in Seq(Byte) /\ Len(v) = n
  BY <1>4, SubSeqProperties DEF First
<1> HIDE DEF v
<1>6. Ring(d) /\ SameEnd(b, d) /\ Contents(d) = Contents(b) \o v
  BY <1>2, <1>4, <1>5, FillFacts
<1> HIDE DEF d
<1>7. Ring(c) /\ SameEnd(d, c) /\ Contents(c) = Contents(d)
  BY <1>6, RequestFacts
<1> HIDE DEF c
<1>8. c.peer = b.peer /\ c.closed = b.closed /\ c.size = b.size
  BY <1>6, <1>7 DEF SameEnd
<1>9. /\ peers' = peers /\ queues' = [queues EXCEPT ![x] = QueueOf(c)]
      /\ closeds' = [closeds EXCEPT ![x] = ClosedOf(c)]
      /\ caps' = [caps EXCEPT ![x] = c.size]
  BY <1>1, <1>8, ViewOneEnd
<1>10. /\ peers[x] # NoBio /\ queues[x] = Contents(b) /\ closeds[x] = b.closed /\ caps[x] = b.size
       /\ caps[x] - Len(queues[x]) = Space(b)
  BY <1>1, QueueFacts
<1>11. QueueOf(c) = queues[x] \o v
  BY <1>2, <1>6, <1>7, <1>8, <1>10 DEF QueueOf
<1>12. closeds' = closeds /\ caps' = caps
  <2>1. ClosedOf(c) = closeds[x]
    BY <1>8, View DEF ClosedOf
  <2> QED
    BY <1>8, <1>9, <1>10, <2>1, ViewFunctions
<1>13. Built'
  BY <1>1, BuiltOneEnd
<1>14. ~closeds[x] /\ Len(v) > 0 /\ Len(v) <= caps[x] - Len(queues[x]) /\ caps[x] - Len(queues[x]) \in Nat
  BY <1>3, <1>4, <1>5, <1>10
<1> QED
  BY <1>1, <1>5, <1>9, <1>10, <1>11, <1>12, <1>13, <1>14, WriteStep

LEMMA Nwrite0Refines ==
  ASSUME Shape, Built, NEW x \in Bio, NEW w \in Seq(Byte), Len(w) > 0, bio_nwrite0(x, w)
  PROVE  Built' /\ Queues!Next
<1> DEFINE b == bio[x]  c == [b EXCEPT !.buf = Stored(b, w), !.request = 0]
<1>1. /\ Ready(x) /\ ~Broken(b) /\ Len(w) <= WriteChunk(b) /\ Set(x, c) /\ data' = <<>>
      /\ place' = [place EXCEPT ![x] = w]
  BY DEF bio_nwrite0
<1>2. Ring(b) /\ b.peer # NoBio
  BY <1>1, ReadyFacts, QueueFacts DEF Joined
<1>3. /\ Stored(b, w) \in Buffer(b.size) /\ Stored(b, w) \in Buffers
      /\ \A i \in 1 .. b.len : Stored(b, w)[Cell(b, i)] = b.buf[Cell(b, i)]
      /\ \A i \in 1 .. Len(w) : Stored(b, w)[WriteOffset(b) + i - 1] = w[i]
  BY <1>1, <1>2, StoredFacts DEF Buffers, Ring, Struct
<1>4. ~b.closed
  BY <1>1 DEF Broken
<1>5. /\ c \in Struct /\ SameEnd(b, c) /\ c.len = b.len
      /\ c.offset = b.offset /\ c.buf = Stored(b, w)
  BY <1>2, <1>3 DEF Ring, Struct, SameEnd
<1>6. \A z \in Bio : bio'[z] = IF z = x THEN c ELSE bio[z]
  BY <1>1 DEF Set, Shape, Rest_OK
<1> HIDE DEF c
<1>7. Ring(c)
  BY <1>2, <1>3, <1>5 DEF Ring, Sound, SameEnd
<1>8. Holds(c, w)
  <2>1. WriteOffset(c) = WriteOffset(b) /\ WriteChunk(c) = WriteChunk(b)
    BY <1>5 DEF WriteOffset, WriteChunk, Space, SameEnd
  <2> QED
    BY <2>1, <1>1, <1>2, <1>3, <1>4, <1>5 DEF Holds, SameEnd
<1>9. Built'
  <2>1. \A z \in Bio : place'[z] = IF z = x THEN w ELSE place[z]
    BY <1>1 DEF Shape, Rest_OK
  <2>2. \A z \in Bio : place'[z] # <<>> => Holds(bio'[z], place'[z])
    BY <1>6, <1>8, <2>1 DEF Built
  <2> QED
    BY <2>2 DEF Built
<1>10. Contents(c) = Contents(b)
  <2>1. \A i \in 1 .. b.len : Contents(c)[i] = Contents(b)[i]
    <3>1. \A i \in 1 .. b.len : Cell(c, i) = Cell(b, i)
      BY <1>5 DEF Cell, SameEnd
    <3> QED
      BY SMTT(30), <3>1, <1>2, <1>3, <1>5, <1>7, ContentsFacts
  <2> QED
    BY <2>1, <1>2, <1>5, <1>7, ContentsFacts, SeqEqual
<1>11. peers' = peers /\ queues' = queues /\ closeds' = closeds /\ caps' = caps
  BY <1>1, <1>2, <1>5, <1>10, ViewSame DEF SameEnd, QueueOf
<1>12. /\ peers[x] # NoBio /\ ~closeds[x] /\ Len(w) <= caps[x] - Len(queues[x])
       /\ caps[x] - Len(queues[x]) \in Nat
  <2>1. /\ peers[x] # NoBio /\ closeds[x] = b.closed /\ caps[x] - Len(queues[x]) = Space(b)
    BY <1>1, QueueFacts
  <2> QED
    BY <2>1, <1>1, <1>2, <1>4, SpaceFacts
<1> QED
  BY <1>1, <1>9, <1>11, <1>12, StageStep

LEMMA NwriteRefines ==
  ASSUME Shape, Built, NEW x \in Bio, NEW n \in Nat, n > 0, bio_nwrite(x, n)
  PROVE  Built' /\ Queues!Next
<1> DEFINE b == bio[x]  w == place[x]  k == Least(n, WriteChunk(b))  u == First(w, n)
           d == Put(b, u)  c == [b EXCEPT !.len = b.len + k, !.request = 0]
<1>1. /\ Ready(x) /\ n <= Len(w) /\ Set(x, c) /\ data' = <<>>
      /\ place' = [place EXCEPT ![x] = Rest(w, k)]
  BY DEF bio_nwrite
<1>2. Ring(b) /\ b.peer # NoBio
  BY <1>1, ReadyFacts, QueueFacts DEF Joined
<1>3. w \in Seq(Byte) /\ Len(w) \in Nat /\ w # <<>>
  <2>1. w \in Seq(Byte)
    BY DEF Shape, Rest_OK
  <2> QED
    BY <2>1, <1>1
<1>4. Holds(b, w)
  BY <1>3 DEF Built
<1> HIDE DEF w, b
<1>5. k = n /\ n <= WriteChunk(b)
  BY <1>1, <1>2, <1>3, <1>4, SpaceFacts DEF Holds, Least
<1>6. u \in Seq(Byte) /\ Len(u) = n /\ \A i \in 1 .. n : u[i] = w[i]
  <2>1. \A i \in 1 .. n : w[i] \in Byte
    BY <1>1, <1>3
  <2> QED
    BY <2>1, SubSeqProperties DEF First
<1> HIDE DEF u, k
<1> DEFINE f == WriteOffset(b)
<1>7. f \in Nat /\ f + n <= b.size /\ DOMAIN b.buf = 0 .. b.size - 1 /\ b.size \in Nat
  BY <1>2, <1>5, RingFacts, SpaceFacts
<1>8. \A i \in 1 .. Len(w) : b.buf[f + i - 1] = w[i]
  BY <1>4 DEF Holds
<1>9. Stored(b, u) = b.buf
  <2>1. ASSUME NEW i \in f .. f + n - 1 PROVE u[i - f + 1] = b.buf[i]
    <3>1. i - f + 1 \in 1 .. n /\ f + (i - f + 1) - 1 = i
      BY <1>7
    <3>2. i - f + 1 \in 1 .. Len(w)
      BY <3>1, <1>1, <1>3
    <3> QED
      BY <3>1, <3>2, <1>6, <1>8
  <2>2. Stored(b, u) = [i \in 0 .. b.size - 1 |-> IF i \in f .. f + n - 1 THEN u[i - f + 1] ELSE b.buf[i]]
    BY <1>6, <1>7 DEF Stored
  <2>3. \A i \in 0 .. b.size - 1 : Stored(b, u)[i] = b.buf[i]
    BY <2>1, <2>2
  <2> HIDE DEF f
  <2>4. b.buf = [i \in 0 .. b.size - 1 |-> b.buf[i]]
    BY <1>2, RingFacts
  <2> QED
    BY <2>2, <2>3, <2>4
<1>10. /\ Ring(d) /\ SameEnd(b, d) /\ d.len = b.len + n /\ d.offset = b.offset
       /\ Contents(d) = Contents(b) \o u
  BY <1>2, <1>5, <1>6, PutFacts
<1>11. d.buf = b.buf /\ c = [d EXCEPT !.request = 0]
  <2>1. d = [b EXCEPT !.buf = b.buf, !.len = b.len + n]
    BY <1>6, <1>9 DEF Put
  <2>2. b \in Struct
    BY <1>2 DEF Ring
  <2> HIDE DEF d
  <2> QED
    BY <2>1, <2>2, <1>5 DEF Struct
<1> HIDE DEF d, c
<1>12. /\ Ring(c) /\ SameEnd(d, c) /\ Contents(c) = Contents(d) /\ c.len = b.len + n
       /\ c.offset = b.offset /\ c.buf = b.buf
  <2> DEFINE e == [d EXCEPT !.request = 0]
  <2>1. /\ Ring(e) /\ SameEnd(d, e) /\ Contents(e) = Contents(d) /\ e.len = d.len
        /\ e.offset = d.offset /\ e.buf = d.buf
    BY <1>10, RequestFacts
  <2>2. c = e
    BY <1>11
  <2> HIDE DEF e
  <2> QED
    BY <1>10, <1>11, <2>1, <2>2
<1>13. SameEnd(b, c)
  BY <1>10, <1>12 DEF SameEnd
<1>14. n < WriteChunk(b) => WriteOffset(c) = f + n /\ WriteChunk(c) = WriteChunk(b) - n
  <2>1. c.size = b.size /\ c.len = b.len + n /\ c.offset = b.offset
    BY <1>12, <1>13 DEF SameEnd
  <2> DEFINE z == b.size  m == b.len  o == b.offset
  <2>2. z \in Nat \ {0} /\ m \in 0 .. z /\ o \in 0 .. z - 1
    BY <1>2, RingFacts
  <2>3. f = (IF o + m >= z THEN o + m - z ELSE o + m)
    BY DEF WriteOffset
  <2>4. WriteOffset(c) = (IF o + (m + n) >= z THEN o + (m + n) - z ELSE o + (m + n))
    BY <2>1 DEF WriteOffset
  <2>5. /\ WriteChunk(b) = Least(z - m, z - f)
        /\ WriteChunk(c) = Least(z - (m + n), z - WriteOffset(c))
    BY <2>1 DEF WriteChunk, Space
  <2> HIDE DEF z, m, o, f
  <2>6. ASSUME n < Least(z - m, z - f) PROVE WriteOffset(c) = f + n
    <3>1. CASE o + m >= z
      BY <3>1, <2>2, <2>3, <2>4, <2>6 DEF Least
    <3>2. CASE o + m < z
      BY <3>2, <2>2, <2>3, <2>4, <2>6 DEF Least
    <3> QED
      BY <3>1, <3>2, <2>2
  <2>7. f \in Nat
    BY <1>7
  <2>8. ASSUME n < Least(z - m, z - f)
        PROVE  Least(z - (m + n), z - (f + n)) = Least(z - m, z - f) - n
    BY <2>2, <2>7 DEF Least
  <2> QED
    BY <2>5, <2>6, <2>8
<1> DEFINE r == Rest(w, k)
<1>15. /\ r \in Seq(Byte) /\ Len(r) = Len(w) - n /\ \A i \in 1 .. Len(w) - n : r[i] = w[n + i]
       /\ r = SubSeq(w, n + 1, Len(w))
  <2>1. \A i \in n + 1 .. Len(w) : w[i] \in Byte
    BY <1>3
  <2>2. r = SubSeq(w, n + 1, Len(w))
    BY <1>5 DEF Rest
  <2> HIDE DEF r
  <2> QED
    BY <2>1, <2>2, <1>1, <1>3, SubSeqProperties
<1> HIDE DEF r, f
<1>16. r # <<>> => Holds(c, r)
  <2>1. SUFFICES ASSUME r # <<>> PROVE Holds(c, r)
    OBVIOUS
  <2>2. Len(r) > 0 /\ n < Len(w) /\ Len(w) <= WriteChunk(b)
    BY <2>1, <1>1, <1>3, <1>4, <1>15, EmptySeq DEF Holds
  <2>3. WriteChunk(b) \in Nat
    BY <1>2, SpaceFacts
  <2>4. WriteOffset(c) = f + n /\ WriteChunk(c) = WriteChunk(b) - n
    BY <1>3, <1>14, <2>2, <2>3
  <2>5. Len(r) <= WriteChunk(c)
    BY <1>3, <1>15, <2>2, <2>3, <2>4
  <2>6. ASSUME NEW i \in 1 .. Len(r) PROVE c.buf[WriteOffset(c) + i - 1] = r[i]
    <3>1. i \in 1 .. Len(w) - n /\ n + i \in 1 .. Len(w) /\ (f + n) + i - 1 = f + (n + i) - 1
      <4>1. i \in 1 .. Len(w) - n
        BY <1>15
      <4> DEFINE l == Len(w)
      <4>2. l \in Nat /\ i \in 1 .. l - n /\ f \in Nat
        BY <4>1, <1>3, <1>7
      <4> HIDE DEF l
      <4>3. n + i \in 1 .. l /\ (f + n) + i - 1 = f + (n + i) - 1
        BY <4>2
      <4> QED
        BY <4>1, <4>3 DEF l
    <3> QED
      BY <3>1, <1>8, <1>12, <1>15, <2>4
  <2> QED
    BY <2>5, <2>6, <1>4, <1>13 DEF Holds, SameEnd
<1>17. Built'
  <2>1. \A z \in Bio : bio'[z] = IF z = x THEN c ELSE bio[z]
    BY <1>1 DEF Set, Shape, Rest_OK
  <2>2. \A z \in Bio : place'[z] = IF z = x THEN r ELSE place[z]
    BY <1>1 DEF Shape, Rest_OK, r
  <2>3. \A z \in Bio : place'[z] # <<>> => Holds(bio'[z], place'[z])
    BY <1>16, <2>1, <2>2 DEF Built
  <2> QED
    BY <2>3 DEF Built
<1>18. c.peer = b.peer /\ c.closed = b.closed /\ c.size = b.size
  BY <1>13 DEF SameEnd
<1>19. /\ peers' = peers /\ queues' = [queues EXCEPT ![x] = QueueOf(c)]
       /\ closeds' = [closeds EXCEPT ![x] = ClosedOf(c)]
       /\ caps' = [caps EXCEPT ![x] = c.size]
  BY <1>1, <1>18, ViewOneEnd DEF b
<1>20. /\ peers[x] # NoBio /\ queues[x] = Contents(b) /\ closeds[x] = b.closed /\ caps[x] = b.size
  BY <1>1, QueueFacts DEF b
<1>21. QueueOf(c) = queues[x] \o SubSeq(w, 1, n)
  BY <1>2, <1>10, <1>12, <1>18, <1>20 DEF QueueOf, u, First
<1>22. closeds' = closeds /\ caps' = caps
  <2>1. ClosedOf(c) = closeds[x]
    BY <1>18, View DEF ClosedOf, b
  <2> QED
    BY <1>18, <1>19, <1>20, <2>1, ViewFunctions
<1>23. ~closeds[x] /\ n \in 1 .. Len(w)
  BY <1>1, <1>3, <1>4, <1>20 DEF Holds
<1>24. place' = [place EXCEPT ![x] = SubSeq(w, n + 1, Len(w))]
  BY <1>1, <1>15 DEF r
<1> QED
  BY <1>1, <1>17, <1>19, <1>20, <1>21, <1>22, <1>23, <1>24, HandOverStep DEF w

\* shutdown_wr closes the queue of a pair, ctrl_reset empties it; the others
\* change what is not seen, or the size of a buffer not in use.
LEMMA CtrlRefines ==
  ASSUME Shape, Built, NEW x \in Bio, NEW n \in Sizes,
         \/ reset_read_request(x) \/ shutdown_wr(x) \/ ctrl_reset(x)
         \/ set_write_buf_size(x, n) \/ make_pair_fails(x)
  PROVE  Built' /\ Queues!Next
<1> DEFINE b == bio[x]
<1>1. Good(b) /\ b \in Struct /\ place \in [Bio -> Seq(Byte)] /\ b.closed \in BOOLEAN
  BY DEF Shape, Rest_OK, Good, Struct
<1>2. peers[x] = b.peer /\ queues[x] = QueueOf(b) /\ closeds[x] = ClosedOf(b) /\ caps[x] = b.size
  BY View
<1>3. place[x] # <<>> => Holds(b, place[x])
  BY DEF Built
<1>4. b.peer = NoBio => place[x] = <<>> /\ place = [place EXCEPT ![x] = <<>>]
  BY <1>1, <1>3 DEF Holds
<1>5. CASE reset_read_request(x)
  <2> DEFINE c == [b EXCEPT !.request = 0]
  <2>1. Set(x, c) /\ data' = <<>> /\ place' = place
    BY <1>5 DEF reset_read_request, NoData
  <2>2. /\ c.peer = b.peer /\ c.buf = b.buf /\ c.size = b.size /\ c.closed = b.closed
        /\ c.len = b.len /\ c.offset = b.offset
    BY <1>1 DEF Struct
  <2> HIDE DEF c
  <2>3. Contents(c) = Contents(b) /\ QueueOf(c) = QueueOf(b)
    BY <2>2 DEF Contents, QueueOf
  <2>4. place[x] # <<>> => Holds(c, place[x])
    BY <2>2, <1>3 DEF Holds, WriteChunk, WriteOffset, Space
  <2>5. peers' = peers /\ queues' = queues /\ closeds' = closeds /\ caps' = caps
    BY <2>1, <2>2, <2>3, ViewSame
  <2> QED
    BY <2>1, <2>4, <2>5, BuiltOneEnd, NothingStep
<1>6. CASE shutdown_wr(x)
  <2> DEFINE c == [b EXCEPT !.closed = TRUE]
  <2>1. Set(x, c) /\ Forget({x})
    BY <1>6 DEF shutdown_wr
  <2>2. data' = <<>> /\ place' = [place EXCEPT ![x] = <<>>]
    BY <2>1, <1>1 DEF Forget
  <2>3. /\ c.peer = b.peer /\ c.buf = b.buf /\ c.size = b.size /\ c.closed = TRUE
        /\ c.len = b.len /\ c.offset = b.offset
    BY <1>1 DEF Struct
  <2> HIDE DEF c
  <2>4. QueueOf(c) = QueueOf(b) /\ ClosedOf(c) = (b.peer # NoBio)
    BY <2>3 DEF Contents, QueueOf, ClosedOf
  <2>5. /\ peers' = peers /\ queues' = [queues EXCEPT ![x] = QueueOf(c)]
        /\ closeds' = [closeds EXCEPT ![x] = ClosedOf(c)]
        /\ caps' = [caps EXCEPT ![x] = c.size]
    BY <2>1, <2>3, ViewOneEnd
  <2>6. queues' = queues /\ caps' = caps
    BY <2>3, <2>4, <2>5, <1>2, ViewFunctions
  <2>7. \A z \in Bio \ {x} : bio'[z] = bio[z]
    BY <2>1 DEF Set, Shape, Rest_OK
  <2>8. Built'
    BY <2>1, <2>7, BuiltForget
  <2>9. CASE b.peer # NoBio
    BY <2>2, <2>4, <2>5, <2>6, <2>8, <2>9, <1>2, CloseStep
  <2>10. CASE b.peer = NoBio
    <3>1. closeds' = closeds
      BY <2>4, <2>5, <2>10, <1>2, ViewFunctions DEF ClosedOf
    <3> QED
      BY <2>2, <2>5, <2>6, <2>8, <2>10, <3>1, <1>4, NothingStep
  <2> QED
    BY <2>9, <2>10
<1>7. CASE ctrl_reset(x)
  <2> DEFINE c == [b EXCEPT !.len = 0, !.offset = 0]
  <2>1. Set(x, c) /\ Forget({x})
    BY <1>7 DEF ctrl_reset
  <2>2. data' = <<>> /\ place' = [place EXCEPT ![x] = <<>>]
    BY <2>1, <1>1 DEF Forget
  <2>3. c.peer = b.peer /\ c.size = b.size /\ c.closed = b.closed /\ c.len = 0
    BY <1>1 DEF Struct
  <2> HIDE DEF c
  <2>4. QueueOf(c) = <<>> /\ ClosedOf(c) = ClosedOf(b)
    BY <2>3 DEF Contents, QueueOf, ClosedOf
  <2>5. /\ peers' = peers /\ queues' = [queues EXCEPT ![x] = QueueOf(c)]
        /\ closeds' = [closeds EXCEPT ![x] = ClosedOf(c)]
        /\ caps' = [caps EXCEPT ![x] = c.size]
    BY <2>1, <2>3, ViewOneEnd
  <2>6. closeds' = closeds /\ caps' = caps
    BY <2>3, <2>4, <2>5, <1>2, ViewFunctions
  <2>7. \A z \in Bio \ {x} : bio'[z] = bio[z]
    BY <2>1 DEF Set, Shape, Rest_OK
  <2>8. Built'
    BY <2>1, <2>7, BuiltForget
  <2> QED
    BY <2>2, <2>4, <2>5, <2>6, <2>8, DropStep
<1>8. CASE set_write_buf_size(x, n)
  <2> DEFINE c == [b EXCEPT !.size = n, !.buf = IF b.size = n THEN b.buf ELSE NoBuf]
  <2>1. Set(x, c) /\ data' = <<>> /\ place' = place /\ b.peer = NoBio
    BY <1>8 DEF set_write_buf_size, NoData
  <2>2. c.peer = b.peer /\ c.size = n
    BY <1>1 DEF Struct
  <2> HIDE DEF c
  <2>3. QueueOf(c) = QueueOf(b) /\ ClosedOf(c) = ClosedOf(b)
    BY <2>1, <2>2 DEF QueueOf, ClosedOf
  <2>4. /\ peers' = peers /\ queues' = [queues EXCEPT ![x] = QueueOf(c)]
        /\ closeds' = [closeds EXCEPT ![x] = ClosedOf(c)]
        /\ caps' = [caps EXCEPT ![x] = c.size]
    BY <2>1, <2>2, ViewOneEnd
  <2>5. queues' = queues /\ closeds' = closeds
    BY <2>3, <2>4, <1>2, ViewFunctions
  <2> QED
    BY <2>1, <2>2, <2>4, <2>5, <1>2, <1>4, BuiltOneEnd, ResizeStep
<1>9. CASE make_pair_fails(x)
  <2> DEFINE c == Allocated(b)
  <2>1. Set(x, c) /\ data' = <<>> /\ place' = place /\ b.peer = NoBio
    BY <1>9 DEF make_pair_fails, NoData
  <2>2. c.peer = b.peer /\ c.size = b.size /\ c.closed = b.closed
    BY <1>1, <2>1, AllocatedFacts
  <2> HIDE DEF c
  <2>3. QueueOf(c) = QueueOf(b)
    BY <2>1, <2>2 DEF QueueOf
  <2>4. peers' = peers /\ queues' = queues /\ closeds' = closeds /\ caps' = caps
    BY <2>1, <2>2, <2>3, ViewSame
  <2> QED
    BY <2>1, <2>4, <1>4, BuiltOneEnd, NothingStep
<1> QED
  BY <1>5, <1>6, <1>7, <1>8, <1>9

LEMMA MakePairRefines ==
  ASSUME Shape, Built, NEW x \in Bio, NEW y \in Bio, bio_make_pair(x, y)
  PROVE  Built' /\ Queues!Next
<1> DEFINE b == Linked(bio[x], y)  c == Linked(bio[y], x)
<1>1. /\ bio[x].peer = NoBio /\ bio[y].peer = NoBio
      /\ bio' = [bio EXCEPT ![x] = b, ![y] = c] /\ data' = <<>> /\ place' = place
  BY DEF bio_make_pair, NoData
<1>2. Good(bio[x]) /\ Good(bio[y]) /\ bio \in [Bio -> Struct]
  BY DEF Shape, Rest_OK
<1>3. ASSUME NEW e \in Bio, NEW z \in Bio, bio[e].peer = NoBio
      PROVE  /\ QueueOf(Linked(bio[e], z)) = <<>> /\ Linked(bio[e], z).peer = z
             /\ ~Linked(bio[e], z).closed /\ Linked(bio[e], z).size = bio[e].size
             /\ ~ClosedOf(Linked(bio[e], z))
  <2> DEFINE a == Allocated(bio[e])  d == Linked(bio[e], z)
  <2>1. a.len = 0 /\ a.size = bio[e].size /\ a \in Struct
    BY <1>3, AllocatedFacts DEF Shape, Good
  <2>2. d = [a EXCEPT !.peer = z, !.init = TRUE, !.closed = FALSE, !.request = 0]
    BY DEF Linked
  <2> HIDE DEF a, d
  <2>3. d.len = 0 /\ d.peer = z /\ d.closed = FALSE /\ d.size = bio[e].size
    BY <2>1, <2>2 DEF Struct
  <2>4. QueueOf(d) = <<>> /\ ~ClosedOf(d)
    BY <2>3 DEF QueueOf, Contents, ClosedOf
  <2> QED
    BY <2>3, <2>4 DEF d
<1>4. /\ QueueOf(b) = <<>> /\ ~ClosedOf(b) /\ b.peer = y /\ b.size = bio[x].size
      /\ QueueOf(c) = <<>> /\ ~ClosedOf(c) /\ c.peer = x /\ c.size = bio[y].size
  BY <1>1, <1>3
<1> HIDE DEF b, c
<1>5. \A z \in Bio : bio'[z] = IF z = y THEN c ELSE IF z = x THEN b ELSE bio[z]
  BY <1>1, <1>2
<1>6. /\ QueueOf(bio[x]) = <<>> /\ QueueOf(bio[y]) = <<>>
      /\ ~ClosedOf(bio[x]) /\ ~ClosedOf(bio[y])
  BY <1>1 DEF QueueOf, ClosedOf
<1>7. queues' = queues
  BY <1>4, <1>5, <1>6 DEF queues, Joined, QueueOf
<1>8. closeds' = closeds
  BY <1>4, <1>5, <1>6 DEF closeds, Joined, ClosedOf
<1>9. caps' = caps
  BY <1>4, <1>5 DEF caps
<1>10. peers' = [peers EXCEPT ![x] = y, ![y] = x]
  BY <1>4, <1>5 DEF peers
<1>11. peers[x] = NoBio /\ peers[y] = NoBio
  BY <1>1, View
<1>12. place[x] = <<>> /\ place[y] = <<>>
  BY <1>1 DEF Built, Holds
<1>13. \A z \in Bio : place'[z] # <<>> => Holds(bio'[z], place'[z])
  BY <1>1, <1>5, <1>12 DEF Built
<1>14. Built'
  BY <1>13 DEF Built
<1> QED
  BY <1>1, <1>7, <1>8, <1>9, <1>10, <1>11, <1>14, JoinStep

\* A pair that is taken apart, by bio_destroy_pair or by freeing one end.
LEMMA ApartRefines ==
  ASSUME Shape, Built, NEW x \in Bio, NEW f, bio' = [e \in Bio |-> f[e]],
         \A e \in Bio : /\ e \in Pair(x) => f[e].peer = NoBio
                        /\ e \notin Pair(x) => f[e] = bio[e]
                        /\ f[e].size = bio[e].size,
         Forget(Pair(x))
  PROVE  Built' /\ Queues!Next
<1>1. \A e \in Bio : bio'[e] = f[e]
  OBVIOUS
<1>2. Built'
  BY <1>1, BuiltForget
<1>3. data' = <<>> /\ place' = [e \in Bio |-> IF e \in Pair(x) THEN <<>> ELSE place[e]]
  BY DEF Forget
<1>4. Pair(x) = {x, peers[x]}
  BY DEF Pair, peers
<1>5. peers' = [e \in Bio |-> IF e \in Pair(x) THEN NoBio ELSE peers[e]]
  BY <1>1 DEF peers
<1>6. queues' = [e \in Bio |-> IF e \in Pair(x) THEN <<>> ELSE queues[e]]
  BY <1>1 DEF queues, Joined
<1>7. closeds' = [e \in Bio |-> IF e \in Pair(x) THEN FALSE ELSE closeds[e]]
  BY <1>1 DEF closeds, Joined
<1>8. caps' = caps
  BY <1>1 DEF caps
<1>9. CASE peers[x] # NoBio
  BY <1>2, <1>3, <1>4, <1>5, <1>6, <1>7, <1>8, <1>9, PartStep
<1>10. CASE peers[x] = NoBio
  <2>1. \A e \in Bio : e \in Pair(x) => e = x
    BY <1>4, <1>10
  <2>2. bio[x].peer = NoBio /\ queues[x] = <<>> /\ closeds[x] = FALSE
    BY <1>10, View DEF QueueOf, ClosedOf
  <2>3. place[x] = <<>> /\ place \in [Bio -> Seq(Byte)]
    BY <2>2 DEF Built, Holds, Shape, Rest_OK
  <2>4. place' = place
    BY <1>3, <2>1, <2>3
  <2>5. peers' = peers
    BY <1>5, <1>10, <2>1 DEF peers
  <2>6. queues' = queues
    BY <1>6, <2>1, <2>2 DEF queues
  <2>7. closeds' = closeds
    BY <1>7, <2>1, <2>2 DEF closeds
  <2> QED
    BY <1>2, <1>3, <1>8, <2>4, <2>5, <2>6, <2>7, NothingStep
<1> QED
  BY <1>9, <1>10

LEMMA SizeKept ==
  ASSUME NEW b \in Struct
  PROVE  /\ Parted(b).size = b.size /\ Parted(b).peer = NoBio
         /\ [Parted(b) EXCEPT !.buf = NoBuf].size = b.size
         /\ [Parted(b) EXCEPT !.buf = NoBuf].peer = NoBio
<1> DEFINE c == Parted(b)
<1>1. c = [b EXCEPT !.peer = NoBio, !.init = FALSE, !.len = 0, !.offset = 0]
  BY DEF Parted
<1> HIDE DEF c
<1>2. c \in [peer : {NoBio}, init : BOOLEAN, closed : BOOLEAN, len : Nat, offset : Nat,
             size : Sizes, buf : Buffers, request : Nat] /\ c.size = b.size
  BY <1>1 DEF Struct
<1>3. [c EXCEPT !.buf = NoBuf].size = c.size /\ [c EXCEPT !.buf = NoBuf].peer = c.peer /\ c.peer = NoBio
  BY <1>2
<1> QED
  BY <1>2, <1>3 DEF c

LEMMA DestroyRefines ==
  ASSUME Shape, Built, NEW x \in Bio, bio_destroy_pair(x)
  PROVE  Built' /\ Queues!Next
<1> DEFINE f == [e \in Bio |-> IF e \in Pair(x) THEN Parted(bio[e]) ELSE bio[e]]
<1>1. bio' = [e \in Bio |-> f[e]] /\ Forget(Pair(x))
  BY DEF bio_destroy_pair
<1>2. \A e \in Bio : /\ e \in Pair(x) => f[e].peer = NoBio
                     /\ e \notin Pair(x) => f[e] = bio[e]
                     /\ f[e].size = bio[e].size
  BY SizeKept DEF Shape, Rest_OK
<1> HIDE DEF f
<1> QED
  BY <1>1, <1>2, ApartRefines

LEMMA FreeRefines ==
  ASSUME Shape, Built, NEW x \in Bio, bio_free(x)
  PROVE  Built' /\ Queues!Next
<1> DEFINE f == [e \in Bio |->
       IF e = x THEN [Parted(bio[e]) EXCEPT !.buf = NoBuf]
       ELSE IF e = bio[x].peer THEN Parted(bio[e]) ELSE bio[e]]
<1>1. bio' = [e \in Bio |-> f[e]] /\ Forget(Pair(x))
  BY DEF bio_free
<1>2. \A e \in Bio : /\ e \in Pair(x) => f[e].peer = NoBio
                     /\ e \notin Pair(x) => f[e] = bio[e]
                     /\ f[e].size = bio[e].size
  BY SizeKept DEF Shape, Rest_OK, Pair
<1> HIDE DEF f
<1> QED
  BY <1>1, <1>2, ApartRefines

\* A new BIO has the size bio_new gives.
LEMMA NewRefines ==
  ASSUME Shape, Built, NEW x \in Bio, bio_new(x)
  PROVE  Built' /\ Queues!Next
<1>1. PICK b \in Fresh : Set(x, b)
  BY DEF bio_new
<1>2. b.peer = NoBio /\ b.size = Default /\ Default \in Sizes
  BY DEF Fresh, ConstantAssumption
<1>3. x \notin live /\ data' = <<>> /\ place' = place
  BY DEF bio_new
<1>4. bio[x].peer = NoBio
  BY <1>3 DEF Shape, Links
<1>5. place[x] = <<>>
  BY <1>4 DEF Built, Holds
<1>6. /\ peers' = peers /\ queues' = [queues EXCEPT ![x] = QueueOf(b)]
      /\ closeds' = [closeds EXCEPT ![x] = ClosedOf(b)]
      /\ caps' = [caps EXCEPT ![x] = b.size]
  BY <1>1, <1>2, <1>4, ViewOneEnd
<1>7. /\ QueueOf(b) = queues[x] /\ ClosedOf(b) = closeds[x] /\ peers[x] = NoBio
  BY <1>2, <1>4, View DEF QueueOf, ClosedOf
<1>8. queues' = queues /\ closeds' = closeds
  BY <1>6, <1>7, ViewFunctions
<1>9. Built'
  BY <1>1, <1>3, <1>5, BuiltOneEnd
<1> QED
  BY <1>2, <1>3, <1>6, <1>7, <1>8, <1>9, ResizeStep

-----------------------------------------------------------------------------
(* The theorem.                                                            *)

LEMMA InitRefines == Init => Built /\ Queues!Init
<1> SUFFICES ASSUME Init PROVE Built /\ Queues!Init
  OBVIOUS
<1>1. \A x \in Bio : bio[x].peer = NoBio /\ bio[x].size = Default /\ place[x] = <<>>
  BY DEF Init, Fresh
<1>2. Built
  BY <1>1 DEF Built
<1>3. /\ peers = [x \in Bio |-> NoBio] /\ queues = [x \in Bio |-> <<>>]
      /\ place = [x \in Bio |-> <<>>] /\ closeds = [x \in Bio |-> FALSE]
      /\ caps \in [Bio -> Sizes] /\ data = <<>>
  <2>1. Default \in Sizes
    BY DEF ConstantAssumption
  <2> QED
    BY <1>1, <2>1 DEF peers, queues, closeds, caps, Joined, Init
<1>4. Queues!Init
  BY <1>3 DEF Queues!Init, peers, queues, closeds, caps
<1> QED
  BY <1>2, <1>4

LEMMA StepRefines ==
  ASSUME Careful
  PROVE  Shape /\ Built /\ [Next]_vars => Built' /\ [Queues!Next]_(Queues!vars)
<1> SUFFICES ASSUME Shape, Built, [Next]_vars
             PROVE  Built' /\ [Queues!Next]_(Queues!vars)
  OBVIOUS
<1>1. CASE UNCHANGED vars
  <2>1. bio' = bio /\ place' = place /\ data' = data
    BY <1>1 DEF vars
  <2>2. Built'
    BY <2>1 DEF Built
  <2>3. UNCHANGED Queues!vars
    BY <2>1 DEF Queues!vars, Joined
  <2> QED
    BY <2>2, <2>3
<1>2. ASSUME NEW x \in Writers, NEW n \in 1 .. MaxAsk, NEW w \in Words(n),
             bio_write(x, w) \/ bio_nwrite0(x, w)
      PROVE  Built' /\ Queues!Next
  <2>1. x \in Bio /\ n \in Nat /\ w \in Seq(Byte) /\ Len(w) > 0
    BY WordFacts DEF ConstantAssumption
  <2> QED
    BY <1>2, <2>1, WriteRefines, Nwrite0Refines
<1>3. ASSUME NEW x \in Bio, NEW n \in 1 .. MaxAsk,
             bio_read(x, n) \/ bio_nread(x, n) \/ bio_nwrite(x, n)
      PROVE  Built' /\ Queues!Next
  <2>1. n \in Nat /\ n > 0
    BY DEF ConstantAssumption
  <2> QED
    BY <1>3, <2>1, ReadRefines, NreadRefines, NwriteRefines
<1>4. ASSUME NEW x \in Bio, bio_nread0(x) \/ write_refused(x)
      PROVE  Built' /\ Queues!Next
  BY <1>4, RequestRefines
<1>5. ASSUME NEW x \in Bio, NEW n \in Sizes,
             \/ reset_read_request(x) \/ shutdown_wr(x) \/ ctrl_reset(x)
             \/ set_write_buf_size(x, n) \/ make_pair_fails(x)
      PROVE  Built' /\ Queues!Next
  BY <1>5, CtrlRefines
<1>6. ASSUME NEW x \in Bio, NEW y \in Bio, bio_make_pair(x, y)
      PROVE  Built' /\ Queues!Next
  BY <1>6, MakePairRefines
<1>7. ASSUME NEW x \in Bio, bio_destroy_pair(x) \/ bio_free(x) \/ bio_new(x)
      PROVE  Built' /\ Queues!Next
  BY <1>7, DestroyRefines, FreeRefines, NewRefines
<1>8. Default \in Sizes
  BY DEF ConstantAssumption
<1>9. CASE Next
  <2>1. Built' /\ Queues!Next
    BY <1>9, <1>2, <1>3, <1>4, <1>5, <1>6, <1>7, <1>8 DEF Next
  <2> QED
    BY <2>1
<1> QED
  BY <1>1, <1>9

\* A BIO pair is two byte queues: what is read is what was written, in order,
\* nothing of it lost or repeated and nothing of an earlier pair, across
\* wrap-around, bytes built in place, resets, closing, parting and joining anew,
\* for an application that empties no buffer in which bytes are being built.
THEOREM Implements ==
  ASSUME Careful
  PROVE  Spec => ImplementsPipe
<1>1. Init => Built /\ Queues!Init
  BY InitRefines
<1>2. Shape /\ Built /\ [Next]_vars => Built' /\ [Queues!Next]_(Queues!vars)
  BY StepRefines
<1>3. Spec => []Shape
  BY Shaped
<1> QED
  BY <1>1, <1>2, <1>3, PTL DEF Spec, ImplementsPipe, Queues!Spec
=============================================================================
