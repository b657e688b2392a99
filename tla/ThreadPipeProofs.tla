-------------------------- MODULE ThreadPipeProofs --------------------------
(***************************************************************************)
(* Proofs about ThreadPipe, for every number of threads, every buffer size *)
(* and every length of a request.                                          *)
(***************************************************************************)
EXTENDS ThreadPipe, SequenceTheorems, TLAPS

-----------------------------------------------------------------------------
(* Arithmetic of the circular buffer                                       *)

\* An index that is at most once around the buffer.
LEMMA ModOnce ==
    ASSUME NEW N \in Nat \ {0}, NEW a \in Nat, a < 2 * N
    PROVE  a % N = IF a < N THEN a ELSE a - N
  BY SMT

LEMMA ModRange ==
    ASSUME NEW N \in Nat \ {0}, NEW a \in Nat
    PROVE  a % N \in 0 .. N - 1
  BY SMT

\* Walking on from an index that was reduced already.
LEMMA ModWalk ==
    ASSUME NEW N \in Nat \ {0}, NEW f \in 0 .. N - 1, NEW k \in Nat, NEW j \in Nat,
           k + j < N
    PROVE  (((f + k) % N) + j) % N = (f + k + j) % N
  <1>1. (f + k) % N = IF f + k < N THEN f + k ELSE f + k - N
    <2> DEFINE a == f + k
    <2>1. a \in Nat /\ a < 2 * N
      OBVIOUS
    <2> HIDE DEF a
    <2>2. a % N = IF a < N THEN a ELSE a - N
      BY <2>1, ModOnce
    <2> QED
      BY <2>2 DEF a
  <1>2. (f + k + j) % N = IF f + k + j < N THEN f + k + j ELSE f + k + j - N
    <2> DEFINE a == f + k + j
    <2>1. a \in Nat /\ a < 2 * N
      OBVIOUS
    <2> HIDE DEF a
    <2>2. a % N = IF a < N THEN a ELSE a - N
      BY <2>1, ModOnce
    <2> QED
      BY <2>2 DEF a
  <1>3. CASE f + k < N
    BY <1>1, <1>3
  <1>4. CASE f + k >= N
    <2> DEFINE a == f + k - N + j
    <2>1. a \in Nat /\ a < N
      BY <1>4
    <2> HIDE DEF a
    <2>2. a % N = a
      BY <2>1, ModOnce
    <2> QED
      BY <1>1, <1>2, <1>4, <2>2 DEF a
  <1> QED
    BY <1>3, <1>4

\* n bytes of a circular buffer b of length N, from index f on.
Ring(b, N, f, n) == [i \in 1 .. n |-> b[(f + i - 1) % N]]

LEMMA RingType ==
    ASSUME NEW N \in Nat \ {0}, NEW f \in 0 .. N - 1, NEW n \in 0 .. N,
           NEW b \in [0 .. N - 1 -> Bytes]
    PROVE  /\ Ring(b, N, f, n) \in Seq(Bytes)
           /\ Len(Ring(b, N, f, n)) = n
           /\ DOMAIN Ring(b, N, f, n) = 1 .. n
  <1>1. \A i \in 1 .. n : f + i - 1 \in Nat
    OBVIOUS
  <1>2. \A i \in 1 .. n : b[(f + i - 1) % N] \in Bytes
    BY <1>1, ModRange
  <1>3. Ring(b, N, f, n) \in [1 .. n -> Bytes]
    BY <1>2 DEF Ring
  <1> QED
    BY <1>3, LenProperties, SeqDef

\* Two sequences over Bytes are equal when they have the same length and elements.
LEMMA SameSequence ==
    ASSUME NEW s \in Seq(Bytes), NEW u \in Seq(Bytes), NEW n \in Nat,
           Len(s) = n, Len(u) = n, \A i \in 1 .. n : s[i] = u[i]
    PROVE  s = u
  BY SeqEqual

\* Taking r bytes off the front moves the index by r, around the end.
LEMMA RingTail ==
    ASSUME NEW N \in Nat \ {0}, NEW f \in 0 .. N - 1, NEW n \in 0 .. N, NEW r \in 0 .. n,
           NEW b \in [0 .. N - 1 -> Bytes]
    PROVE  Ring(b, N, (f + r) % N, n - r) = SubSeq(Ring(b, N, f, n), r + 1, n)
  <1> DEFINE g == (f + r) % N
             s == Ring(b, N, g, n - r)
             c == Ring(b, N, f, n)
             u == SubSeq(c, r + 1, n)
  <1>1. g \in 0 .. N - 1
    BY ModRange
  <1>2. n - r \in 0 .. N
    OBVIOUS
  <1>3. s \in Seq(Bytes) /\ Len(s) = n - r
    BY <1>1, <1>2, RingType
  <1>4. c \in Seq(Bytes) /\ Len(c) = n
    BY RingType
  <1>5. /\ u \in Seq(Bytes) /\ Len(u) = n - r
        /\ \A i \in 1 .. n - r : u[i] = c[r + 1 + i - 1]
    BY <1>4, SubSeqProperties
  <1>6. \A i \in 1 .. n - r : s[i] = u[i]
    <2> SUFFICES ASSUME NEW i \in 1 .. n - r PROVE s[i] = u[i]
      OBVIOUS
    <2>1. s[i] = b[(g + i - 1) % N]
      BY DEF Ring
    <2>2. u[i] = b[(f + (r + i) - 1) % N]
      BY <1>5 DEF Ring
    <2>3. (((f + r) % N) + (i - 1)) % N = (f + r + (i - 1)) % N
      <3>1. i - 1 \in Nat /\ r \in Nat /\ r + (i - 1) < N
        OBVIOUS
      <3> QED
        BY <3>1, ModWalk
    <2>4. g + i - 1 = ((f + r) % N) + (i - 1) /\ f + (r + i) - 1 = f + r + (i - 1)
      BY <1>1
    <2> QED
      BY <2>1, <2>2, <2>3, <2>4
  <1>7. s = u
    <2>1. n - r \in Nat
      OBVIOUS
    <2> HIDE DEF s, u
    <2> QED
      BY <1>3, <1>5, <1>6, <2>1, SameSequence
  <1> QED
    BY <1>7

\* n bytes of b from f on, without wrapping, as Slice of the specification.
LEMMA StraightType ==
    ASSUME NEW N \in Nat \ {0}, NEW f \in Nat, NEW n \in Nat, f + n <= N,
           NEW b \in [0 .. N - 1 -> Bytes],
           NEW c, c = [i \in 1 .. n |-> b[f + i - 1]]
    PROVE  c \in Seq(Bytes) /\ Len(c) = n
  <1>1. c \in [1 .. n -> Bytes]
    <2>1. \A i \in 1 .. n : f + i - 1 \in 0 .. N - 1
      OBVIOUS
    <2> QED
      BY <2>1
  <1> QED
    BY <1>1, LenProperties, SeqDef

\* The two parts in which read copies data are the front of the buffer's contents.
LEMMA ReadData ==
    ASSUME TypeOK, NEW r \in 1 .. remaining
    PROVE  IF readIdx + r >= BufferSize
           THEN Slice(readIdx, BufferSize - readIdx) \o Slice(0, r - (BufferSize - readIdx))
                  = SubSeq(Content, 1, r)
           ELSE Slice(readIdx, r) = SubSeq(Content, 1, r)
  <1> DEFINE x == BufferSize - readIdx
             u == SubSeq(Content, 1, r)
  <1> USE SizePositive
  <1>1. /\ Content \in Seq(Bytes) /\ Len(Content) = remaining
        /\ \A i \in 1 .. r : Content[i] = buf[(readIdx + i - 1) % BufferSize]
    BY RingType DEF TypeOK, Indices, Content, Ring
  <1>2. u \in Seq(Bytes) /\ Len(u) = r /\ \A i \in 1 .. r : u[i] = Content[i]
    <2>1. \A i \in 1 .. r : Content[i] \in Bytes
      BY <1>1, ElementOfSeq DEF TypeOK
    <2> QED
      BY <2>1, SubSeqProperties DEF TypeOK
  <1>3. CASE readIdx + r >= BufferSize
    <2> DEFINE s1 == Slice(readIdx, x)
               s2 == Slice(0, r - x)
               s  == s1 \o s2
    <2>1. s1 \in Seq(Bytes) /\ Len(s1) = x
      <3>1. x \in Nat /\ readIdx + x <= BufferSize
        BY DEF TypeOK, Indices
      <3> QED
        BY <3>1, StraightType DEF Slice, TypeOK, Indices
    <2>2. s2 \in Seq(Bytes) /\ Len(s2) = r - x
      <3>1. r - x \in Nat /\ 0 + (r - x) <= BufferSize
        BY <1>3 DEF TypeOK, Indices
      <3> QED
        BY <3>1, StraightType DEF Slice, TypeOK, Indices
    <2>3. /\ s \in Seq(Bytes) /\ Len(s) = r
          /\ \A i \in 1 .. r : s[i] = IF i <= x THEN s1[i] ELSE s2[i - x]
      <3> HIDE DEF s1, s2
      <3>1. x + (r - x) = r
        BY DEF TypeOK, Indices
      <3> QED
        BY <2>1, <2>2, <3>1, ConcatProperties
    <2>4. \A i \in 1 .. r : s[i] = u[i]
      <3> SUFFICES ASSUME NEW i \in 1 .. r PROVE s[i] = u[i]
        OBVIOUS
      <3> DEFINE a == readIdx + i - 1
      <3>1. a \in Nat /\ a < 2 * BufferSize
        BY DEF TypeOK, Indices
      <3>2. u[i] = buf[a % BufferSize]
        BY <1>1, <1>2
      <3>3. a % BufferSize = IF a < BufferSize THEN a ELSE a - BufferSize
        <4> HIDE DEF a
        <4> QED
          BY <3>1, ModOnce
      <3>4. CASE i <= x
        <4>1. s[i] = buf[a]
          BY <2>3, <3>4 DEF Slice, TypeOK, Indices
        <4>2. a < BufferSize
          BY <3>4 DEF TypeOK, Indices
        <4> QED
          BY <3>2, <3>3, <4>1, <4>2
      <3>5. CASE i > x
        <4>1. i - x \in 1 .. r - x /\ a - BufferSize = 0 + (i - x) - 1
          BY <3>5 DEF TypeOK, Indices
        <4>2. s[i] = s2[i - x]
          BY <2>3, <3>5 DEF TypeOK, Indices
        <4>3. s2[i - x] = buf[0 + (i - x) - 1]
          BY <4>1 DEF Slice
        <4>4. a >= BufferSize
          BY <3>5 DEF TypeOK, Indices
        <4>5. a % BufferSize = 0 + (i - x) - 1
          <5> HIDE DEF a
          <5> QED
            BY <3>1, <3>3, <4>1, <4>4
        <4> HIDE DEF s, u, s2
        <4> QED
          BY <3>2, <4>2, <4>3, <4>5
      <3>6. i <= x \/ i > x
        BY DEF TypeOK, Indices
      <3> HIDE DEF s, u
      <3> QED
        BY <3>4, <3>5, <3>6
    <2>5. s = u
      <3> HIDE DEF s, u
      <3> QED
        BY <1>2, <2>3, <2>4, SameSequence
    <2> QED
      BY <1>3, <2>5
  <1>4. CASE ~(readIdx + r >= BufferSize)
    <2> DEFINE s == Slice(readIdx, r)
    <2>1. s \in Seq(Bytes) /\ Len(s) = r
      <3>1. readIdx + r <= BufferSize
        BY <1>4 DEF TypeOK, Indices
      <3> QED
        BY <3>1, StraightType DEF Slice, TypeOK, Indices
    <2>2. \A i \in 1 .. r : s[i] = u[i]
      <3> SUFFICES ASSUME NEW i \in 1 .. r PROVE s[i] = u[i]
        OBVIOUS
      <3> DEFINE a == readIdx + i - 1
      <3>1. a \in Nat /\ a < BufferSize
        BY <1>4 DEF TypeOK, Indices
      <3>2. u[i] = buf[a % BufferSize] /\ s[i] = buf[a]
        BY <1>1, <1>2 DEF Slice
      <3>3. a % BufferSize = a
        <4> HIDE DEF a
        <4> QED
          BY <3>1, ModOnce
      <3> QED
        BY <3>2, <3>3
    <2>3. s = u
      <3> HIDE DEF s, u
      <3> QED
        BY <1>2, <2>1, <2>2, SameSequence
    <2> QED
      BY <1>4, <2>3
  <1> QED
    BY <1>3, <1>4

-----------------------------------------------------------------------------
(* write                                                                   *)

writeIdx == (readIdx + remaining) % BufferSize

\* The buffer after write has copied w bytes of s.
Written(s, w) ==
    IF w + writeIdx >= BufferSize
    THEN Copied(Copied(buf, writeIdx, s, 0, BufferSize - writeIdx), 0, s,
                BufferSize - writeIdx, w - (BufferSize - writeIdx))
    ELSE Copied(buf, writeIdx, s, 0, w)

\* Where the free room begins.
LEMMA WriteIndex ==
    ASSUME TypeOK
    PROVE  /\ writeIdx \in Indices
           /\ writeIdx = IF readIdx + remaining < BufferSize THEN readIdx + remaining
                         ELSE readIdx + remaining - BufferSize
  <1> USE SizePositive
  <1> DEFINE a == readIdx + remaining
  <1>1. a \in Nat /\ (remaining < BufferSize \/ readIdx < BufferSize) /\ a < 2 * BufferSize
    BY DEF TypeOK, Indices
  <1>2. a % BufferSize = IF a < BufferSize THEN a ELSE a - BufferSize
    <2> HIDE DEF a
    <2> QED
      BY <1>1, ModOnce
  <1> QED
    BY <1>1, <1>2 DEF writeIdx, TypeOK, Indices

\* Index by index, what write leaves in the buffer.
LEMMA WrittenAt ==
    ASSUME TypeOK, NEW s \in Seq(Bytes), NEW w \in 1 .. Room, w <= Len(s), NEW i \in Indices
    PROVE  /\ writeIdx <= i /\ i < writeIdx + w => Written(s, w)[i] = s[i - writeIdx + 1]
           /\ i < writeIdx + w - BufferSize
                => Written(s, w)[i] = s[i - writeIdx + BufferSize + 1]
           /\ ~(writeIdx <= i /\ i < writeIdx + w) /\ ~(i < writeIdx + w - BufferSize)
                => Written(s, w)[i] = buf[i]
  <1> USE SizePositive
  <1>1. /\ writeIdx \in Int /\ w \in Int /\ BufferSize \in Int /\ i \in Int
        /\ writeIdx \in 0 .. BufferSize - 1 /\ i \in 0 .. BufferSize - 1
        /\ w \in 1 .. BufferSize
    BY WriteIndex DEF TypeOK, Indices, Room
  <1>2. CASE w + writeIdx >= BufferSize
    <2> DEFINE x == BufferSize - writeIdx
               c == Copied(buf, writeIdx, s, 0, x)
    <2>1. c[i] = IF i \in writeIdx .. writeIdx + x - 1 THEN s[0 + i - writeIdx + 1] ELSE buf[i]
      BY DEF Copied
    <2>2. Written(s, w)[i] = IF i \in 0 .. 0 + (w - x) - 1 THEN s[x + i - 0 + 1] ELSE c[i]
      BY <1>2 DEF Written, Copied
    <2> HIDE DEF c
    <2>3. x + i - 0 + 1 = i - writeIdx + BufferSize + 1 /\ 0 + i - writeIdx + 1 = i - writeIdx + 1
      BY <1>1
    <2>4. i \in 0 .. 0 + (w - x) - 1 <=> i < writeIdx + w - BufferSize
      BY <1>1
    <2>5. i \in writeIdx .. writeIdx + x - 1 <=> writeIdx <= i
      BY <1>1
    <2>6. writeIdx + w - BufferSize <= writeIdx
      BY <1>1
    <2>7. writeIdx <= i => i < writeIdx + w /\ ~(i < writeIdx + w - BufferSize)
      BY <1>1, <1>2, <2>6
    <2> QED
      BY <2>1, <2>2, <2>3, <2>4, <2>5, <2>7
  <1>3. CASE ~(w + writeIdx >= BufferSize)
    <2>1. Written(s, w)[i] = IF i \in writeIdx .. writeIdx + w - 1 THEN s[0 + i - writeIdx + 1]
                             ELSE buf[i]
      BY <1>3 DEF Written, Copied
    <2>2. ~(i < writeIdx + w - BufferSize)
      BY <1>1, <1>3
    <2>3. i \in writeIdx .. writeIdx + w - 1 <=> writeIdx <= i /\ i < writeIdx + w
      BY <1>1
    <2>4. 0 + i - writeIdx + 1 = i - writeIdx + 1
      BY <1>1
    <2> QED
      BY <2>1, <2>2, <2>3, <2>4
  <1> QED
    BY <1>2, <1>3

LEMMA WrittenType ==
    ASSUME TypeOK, NEW s \in Seq(Bytes), NEW w \in 1 .. Room, w <= Len(s)
    PROVE  Written(s, w) \in [Indices -> Bytes]
  <1> USE SizePositive
  <1> DEFINE c == Written(s, w)
  <1>1. c = [i \in Indices |-> c[i]]
    BY DEF Written, Copied
  <1>2. \A i \in Indices : c[i] \in Bytes
    <2> SUFFICES ASSUME NEW i \in Indices PROVE c[i] \in Bytes
      OBVIOUS
    <2> HIDE DEF c
    <2>1. \A k \in 1 .. Len(s) : s[k] \in Bytes
      BY ElementOfSeq
    <2>2. /\ writeIdx \in 0 .. BufferSize - 1 /\ i \in 0 .. BufferSize - 1
          /\ w \in 1 .. BufferSize /\ Len(s) \in Nat
      BY WriteIndex, LenProperties DEF TypeOK, Indices, Room
    <2>3. CASE writeIdx <= i /\ i < writeIdx + w
      <3>1. i - writeIdx + 1 \in 1 .. Len(s)
        BY <2>2, <2>3
      <3> QED
        BY <2>1, <2>3, <3>1, WrittenAt DEF c
    <2>4. CASE i < writeIdx + w - BufferSize
      <3>1. i - writeIdx + BufferSize + 1 \in 1 .. Len(s)
        BY <2>2, <2>4
      <3> QED
        BY <2>1, <2>4, <3>1, WrittenAt DEF c
    <2>5. CASE ~(writeIdx <= i /\ i < writeIdx + w) /\ ~(i < writeIdx + w - BufferSize)
      <3>1. buf[i] \in Bytes
        BY DEF TypeOK
      <3> QED
        BY <2>5, <3>1, WrittenAt DEF c
    <2> QED
      BY <2>3, <2>4, <2>5
  <1> HIDE DEF c
  <1> QED
    BY <1>1, <1>2 DEF c

\* The bytes that can still be read are not overwritten.
LEMMA WrittenOld ==
    ASSUME TypeOK, NEW s \in Seq(Bytes), NEW w \in 1 .. Room, w <= Len(s),
           NEW j \in 0 .. remaining - 1
    PROVE  Written(s, w)[(readIdx + j) % BufferSize] = buf[(readIdx + j) % BufferSize]
  <1> USE SizePositive
  <1> DEFINE a == readIdx + j
             i == a % BufferSize
  <1>1. /\ readIdx \in 0 .. BufferSize - 1 /\ remaining \in 0 .. BufferSize
        /\ BufferSize \in Nat /\ w \in 1 .. BufferSize - remaining /\ writeIdx \in Int
    BY WriteIndex DEF TypeOK, Indices, Room
  <1>2. a \in Nat /\ a < 2 * BufferSize
    BY <1>1
  <1>3. i = (IF a < BufferSize THEN a ELSE a - BufferSize) /\ i \in Indices
    <2> HIDE DEF a
    <2> QED
      BY <1>2, ModOnce, ModRange DEF Indices
  <1>4. /\ ~(writeIdx <= i /\ i < writeIdx + w)
        /\ ~(i < writeIdx + w - BufferSize)
    <2> HIDE DEF i
    <2>1. i \in Int
      BY <1>3 DEF Indices
    <2>2. writeIdx = IF readIdx + remaining < BufferSize THEN readIdx + remaining
                     ELSE readIdx + remaining - BufferSize
      BY WriteIndex
    <2> QED
      BY <1>1, <1>3, <2>1, <2>2
  <1> HIDE DEF i
  <1>5. Written(s, w)[i] = buf[i]
    BY <1>3, <1>4, WrittenAt
  <1> QED
    BY <1>5 DEF i

\* The new bytes follow them, in order.
LEMMA WrittenNew ==
    ASSUME TypeOK, NEW s \in Seq(Bytes), NEW w \in 1 .. Room, w <= Len(s),
           NEW j \in 0 .. w - 1
    PROVE  Written(s, w)[(readIdx + remaining + j) % BufferSize] = s[j + 1]
  <1> USE SizePositive
  <1> DEFINE a == readIdx + remaining + j
             i == a % BufferSize
  <1>1. /\ readIdx \in 0 .. BufferSize - 1 /\ remaining \in 0 .. BufferSize
        /\ BufferSize \in Nat /\ w \in 1 .. BufferSize - remaining /\ writeIdx \in Int
    BY WriteIndex DEF TypeOK, Indices, Room
  <1>2. a \in Nat /\ a < 2 * BufferSize
    BY <1>1
  <1>3. i = (IF a < BufferSize THEN a ELSE a - BufferSize) /\ i \in Indices
    <2> HIDE DEF a
    <2> QED
      BY <1>2, ModOnce, ModRange DEF Indices
  <1>4. \/ writeIdx <= i /\ i < writeIdx + w /\ i - writeIdx + 1 = j + 1
        \/ i < writeIdx + w - BufferSize /\ i - writeIdx + BufferSize + 1 = j + 1
    <2> HIDE DEF i
    <2>1. i \in Int
      BY <1>3 DEF Indices
    <2>2. writeIdx = IF readIdx + remaining < BufferSize THEN readIdx + remaining
                     ELSE readIdx + remaining - BufferSize
      BY WriteIndex
    <2> QED
      BY <1>1, <1>3, <2>1, <2>2
  <1> HIDE DEF i
  <1>5. Written(s, w)[i] = s[j + 1]
    BY <1>3, <1>4, WrittenAt
  <1> QED
    BY <1>5 DEF i

\* So write appends to what the buffer holds.
LEMMA RingAppend ==
    ASSUME TypeOK, NEW s \in Seq(Bytes), NEW w \in 1 .. Room, w <= Len(s)
    PROVE  Ring(Written(s, w), BufferSize, readIdx, remaining + w)
             = Content \o SubSeq(s, 1, w)
  <1> USE SizePositive
  <1> DEFINE c == Ring(Written(s, w), BufferSize, readIdx, remaining + w)
             d == SubSeq(s, 1, w)
             e == Content \o d
  <1>1. /\ readIdx \in 0 .. BufferSize - 1 /\ remaining \in 0 .. BufferSize
        /\ BufferSize \in Nat /\ w \in 1 .. BufferSize - remaining
    BY DEF TypeOK, Indices, Room
  <1>2. c \in Seq(Bytes) /\ Len(c) = remaining + w
    <2>1. remaining + w \in 0 .. BufferSize
      BY <1>1
    <2> QED
      BY <1>1, <2>1, WrittenType, RingType DEF Indices
  <1>3. Content \in Seq(Bytes) /\ Len(Content) = remaining
    BY <1>1, RingType DEF TypeOK, Indices, Content, Ring
  <1>4. d \in Seq(Bytes) /\ Len(d) = w /\ \A k \in 1 .. w : d[k] = s[k]
    <2>1. \A k \in 1 .. w : s[k] \in Bytes
      BY ElementOfSeq, LenProperties
    <2>2. /\ d \in Seq(Bytes) /\ Len(d) = w
          /\ \A k \in 1 .. w - 1 + 1 : d[k] = s[1 + k - 1]
      BY <1>1, <2>1, SubSeqProperties
    <2> HIDE DEF d
    <2> QED
      BY <1>1, <2>2
  <1>5. /\ e \in Seq(Bytes) /\ Len(e) = remaining + w
        /\ \A k \in 1 .. remaining + w : e[k] = IF k <= remaining THEN Content[k] ELSE d[k - remaining]
    <2> HIDE DEF d
    <2> QED
      BY <1>3, <1>4, ConcatProperties
  <1>6. \A k \in 1 .. remaining + w : c[k] = e[k]
    <2> SUFFICES ASSUME NEW k \in 1 .. remaining + w PROVE c[k] = e[k]
      OBVIOUS
    <2>1. c[k] = Written(s, w)[(readIdx + k - 1) % BufferSize]
      BY DEF Ring
    <2>2. CASE k <= remaining
      <3>1. k - 1 \in 0 .. remaining - 1 /\ readIdx + k - 1 = readIdx + (k - 1)
        BY <1>1, <2>2
      <3>2. c[k] = buf[(readIdx + k - 1) % BufferSize]
        BY <2>1, <3>1, WrittenOld
      <3>3. Content[k] = buf[(readIdx + k - 1) % BufferSize]
        BY <1>1, <2>2 DEF Content
      <3> HIDE DEF c, e
      <3> QED
        BY <1>5, <2>2, <3>2, <3>3
    <2>3. CASE k > remaining
      <3> DEFINE j == k - remaining - 1
      <3>1. /\ j \in 0 .. w - 1 /\ readIdx + k - 1 = readIdx + remaining + j
            /\ j + 1 = k - remaining /\ k - remaining \in 1 .. w
        BY <1>1, <2>3
      <3> HIDE DEF j
      <3>2. c[k] = s[j + 1]
        BY <2>1, <3>1, WrittenNew
      <3>3. d[k - remaining] = s[k - remaining]
        BY <1>4, <3>1
      <3>4. e[k] = d[k - remaining]
        BY <1>1, <1>5, <2>3
      <3> HIDE DEF c, e, d
      <3> QED
        BY <3>1, <3>2, <3>3, <3>4
    <2>4. k <= remaining \/ k > remaining
      BY <1>1
    <2> QED
      BY <2>2, <2>3, <2>4
  <1>7. remaining + w \in Nat
    BY <1>1
  <1> HIDE DEF c, e
  <1>8. c = e
    BY <1>2, <1>5, <1>6, <1>7, SameSequence
  <1> QED
    BY <1>8 DEF c, e

-----------------------------------------------------------------------------
(* The inductive invariant                                                 *)

\* A thread in read or write asked for something.
RequestsMade ==
    \A t \in Threads : /\ at[t] = "read"  => dst[t] > 0
                       /\ at[t] = "write" => src[t] # <<>>

IInv == TypeOK /\ SleepersHaveToWait /\ RequestsMade

LEMMA InitIInv == Init => IInv
  <1> SUFFICES ASSUME Init PROVE IInv
    OBVIOUS
  <1> USE SizePositive DEF Init
  <1>1. TypeOK
    <2>1. <<>> \in Seq(Bytes)
      BY EmptySeq
    <2>2. src \in [Threads -> Seq(Bytes)] /\ result \in Seq(Bytes) \cup {Eof}
      BY <2>1
    <2>3. readIdx \in Indices /\ remaining \in 0 .. BufferSize
      BY DEF Indices
    <2> QED
      BY <2>2, <2>3 DEF TypeOK
  <1>2. SleepersHaveToWait
    BY DEF SleepersHaveToWait
  <1>3. RequestsMade
    BY DEF RequestsMade
  <1> QED
    BY <1>1, <1>2, <1>3 DEF IInv

\* The end of a call keeps the types of what it sets.
LEMMA ReturnType ==
    ASSUME TypeOK, NEW t \in Threads, NEW from, NEW moved, Return(t, from, moved)
    PROVE  /\ at' \in [Threads -> {"idle", "read", "write"}]
           /\ dst' \in [Threads -> Nat]
           /\ src' \in [Threads -> Seq(Bytes)]
           /\ result' = moved
           /\ \A u \in Threads : u # t => at'[u] = at[u]
           /\ at'[t] = "idle"
  BY EmptySeq DEF TypeOK, Return, Goto

\* How much a read moves, and from where to where.
LEMMA ReadFacts ==
    ASSUME TypeOK, NEW t \in Threads, Read(t)
    PROVE  LET r == Least(remaining, dst[t]) IN
           /\ r \in 0 .. remaining
           /\ dst[t] > 0 => r \in 1 .. remaining
           /\ remaining' = remaining - r
           /\ r # 0 => /\ Return(t, "read", SubSeq(Content, 1, r))
                       /\ readIdx' = (readIdx + r) % BufferSize
           /\ condition' = {} /\ UNCHANGED <<buf, closed>>
  <1> USE SizePositive
  <1> DEFINE r == Least(remaining, dst[t])
             x == BufferSize - readIdx
  <1>1. r \in 0 .. remaining /\ (dst[t] > 0 => r \in 1 .. remaining)
    BY DEF Read, Least, TypeOK
  <1>2. remaining' = remaining - r /\ condition' = {} /\ UNCHANGED <<buf, closed>>
    BY DEF Read, notifyAll
  <1>3. ASSUME r # 0
        PROVE  /\ Return(t, "read", SubSeq(Content, 1, r))
               /\ readIdx' = (readIdx + r) % BufferSize
    <2> HIDE DEF r
    <2>1. r \in 1 .. remaining
      BY <1>1, <1>3 DEF TypeOK
    <2>2. CASE readIdx + r >= BufferSize
      <3>1. /\ Return(t, "read", Slice(readIdx, x) \o Slice(0, r - x))
            /\ readIdx' = (r - x) % BufferSize
        BY <2>2 DEF Read, r
      <3>2. Slice(readIdx, x) \o Slice(0, r - x) = SubSeq(Content, 1, r)
        BY <2>1, <2>2, ReadData
      <3>3. (r - x) % BufferSize = (readIdx + r) % BufferSize
        <4> DEFINE a == r - x
                   b == readIdx + r
        <4>1. /\ a \in Nat /\ a < BufferSize /\ b \in Nat /\ b < 2 * BufferSize
              /\ b >= BufferSize /\ a = b - BufferSize
          <5>1. readIdx \in 0 .. BufferSize - 1 /\ r \in 1 .. BufferSize
            BY <2>1 DEF TypeOK, Indices
          <5> QED
            BY <2>2, <5>1
        <4> HIDE DEF a, b
        <4>2. a % BufferSize = a
          BY <4>1, ModOnce
        <4>3. b % BufferSize = IF b < BufferSize THEN b ELSE b - BufferSize
          BY <4>1, ModOnce
        <4>4. a % BufferSize = b % BufferSize
          BY <4>1, <4>2, <4>3
        <4> QED
          BY <4>4 DEF a, b
      <3> QED
        BY <3>1, <3>2, <3>3
    <2>3. CASE ~(readIdx + r >= BufferSize)
      <3>1. Return(t, "read", Slice(readIdx, r)) /\ readIdx' = (readIdx + r) % BufferSize
        BY <2>3 DEF Read, r
      <3>2. Slice(readIdx, r) = SubSeq(Content, 1, r)
        BY <2>1, <2>3, ReadData
      <3> QED
        BY <3>1, <3>2
    <2> QED
      BY <2>2, <2>3
  <1> QED
    BY <1>1, <1>2, <1>3

\* How much a write moves.
LEMMA WriteFacts ==
    ASSUME IInv, NEW t \in Threads, Write(t)
    PROVE  LET w == Least(Room, Len(src[t])) IN
           /\ w \in 1 .. Room /\ w <= Len(src[t])
           /\ src[t] \in Seq(Bytes)
           /\ Return(t, "write", SubSeq(src[t], 1, w))
           /\ SubSeq(src[t], 1, w) \in Seq(Bytes)
           /\ buf' = Written(src[t], w)
           /\ remaining' = remaining + w
           /\ condition' = {} /\ UNCHANGED <<readIdx, closed>>
  <1> USE SizePositive
  <1> DEFINE w == Least(Room, Len(src[t]))
  <1>1. src[t] \in Seq(Bytes) /\ src[t] # <<>> /\ Len(src[t]) \in Nat \ {0}
    BY EmptySeq DEF IInv, TypeOK, RequestsMade, Write, Return, Goto
  <1>2. Room \in Nat \ {0}
    BY DEF IInv, TypeOK, Room, Write
  <1>3. w \in 1 .. Room /\ w <= Len(src[t])
    BY <1>1, <1>2 DEF Least
  <1>4. SubSeq(src[t], 1, w) \in Seq(Bytes)
    <2>1. \A k \in 1 .. w : src[t][k] \in Bytes
      <3> HIDE DEF w
      <3> QED
        BY <1>1, <1>2, <1>3, ElementOfSeq
    <2> HIDE DEF w
    <2> QED
      BY <1>2, <1>3, <2>1, SubSeqProperties
  <1>5. /\ Return(t, "write", SubSeq(src[t], 1, w))
        /\ buf' = Written(src[t], w)
        /\ remaining' = remaining + w
        /\ condition' = {} /\ UNCHANGED <<readIdx, closed>>
    BY DEF Write, Written, writeIdx, notifyAll
  <1> QED
    BY <1>1, <1>3, <1>4, <1>5

-----------------------------------------------------------------------------
LEMMA TypeStep ==
    ASSUME IInv, [Next]_vars
    PROVE  TypeOK'
  <1> USE SizePositive
  <1>0. TypeOK
    BY DEF IInv
  <1>1. ASSUME NEW t \in Threads, CallRead(t) PROVE TypeOK'
    <2>1. PICK n \in 1 .. MaxRequest : dst' = [dst EXCEPT ![t] = n]
      BY <1>1 DEF CallRead
    <2>2. n \in Nat
      BY RequestPositive
    <2> QED
      BY <1>0, <1>1, <2>1, <2>2 DEF TypeOK, CallRead, Goto, pipe, Indices
  <1>2. ASSUME NEW t \in Threads, CallWrite(t) PROVE TypeOK'
    <2>1. PICK n \in 1 .. MaxRequest : \E s \in [1 .. n -> Bytes] : src' = [src EXCEPT ![t] = s]
      BY <1>2 DEF CallWrite
    <2>2. PICK s \in [1 .. n -> Bytes] : src' = [src EXCEPT ![t] = s]
      BY <2>1
    <2>3. s \in Seq(Bytes)
      BY RequestPositive, SeqDef
    <2> QED
      BY <1>0, <1>2, <2>2, <2>3 DEF TypeOK, CallWrite, Goto, pipe, Indices
  <1>3. ASSUME NEW t \in Threads, ReadWait(t) \/ WriteWait(t) \/ SpuriousWakeup(t) PROVE TypeOK'
    BY <1>0, <1>3 DEF TypeOK, ReadWait, WriteWait, SpuriousWakeup, call, pipe, Indices
  <1>4. ASSUME NEW t \in Threads, ReadEof(t) \/ WriteEof(t) PROVE TypeOK'
    <2>1. /\ \E from \in {"read", "write"} : Return(t, from, Eof)
          /\ t \notin condition /\ UNCHANGED <<condition, pipe>>
      BY <1>4 DEF ReadEof, WriteEof
    <2> QED
      BY <1>0, <2>1, ReturnType DEF TypeOK, pipe, Indices
  <1>5. ASSUME NEW t \in Threads, Read(t) PROVE TypeOK'
    <2> DEFINE r == Least(remaining, dst[t])
    <2>1. at[t] = "read"
      BY <1>5 DEF Read, Return, Goto
    <2>2. dst[t] > 0
      BY <2>1 DEF IInv, RequestsMade
    <2>3. /\ r \in 1 .. remaining /\ remaining' = remaining - r
          /\ Return(t, "read", SubSeq(Content, 1, r))
          /\ readIdx' = (readIdx + r) % BufferSize
          /\ condition' = {} /\ UNCHANGED <<buf, closed>>
      BY <1>0, <1>5, <2>2, ReadFacts
    <2> HIDE DEF r
    <2>4. readIdx' \in Indices
      <3>1. readIdx + r \in Nat
        BY <1>0, <2>3 DEF TypeOK, Indices
      <3> QED
        BY <2>3, <3>1, ModRange DEF Indices
    <2>5. remaining' \in 0 .. BufferSize
      BY <1>0, <2>3 DEF TypeOK
    <2>6. SubSeq(Content, 1, r) \in Seq(Bytes)
      <3>1. Content \in Seq(Bytes) /\ Len(Content) = remaining
        BY <1>0, RingType DEF TypeOK, Indices, Content, Ring
      <3>2. \A k \in 1 .. r : Content[k] \in Bytes
        BY <1>0, <2>3, <3>1, ElementOfSeq DEF TypeOK
      <3> QED
        BY <1>0, <2>3, <3>2, SubSeqProperties DEF TypeOK
    <2> QED
      BY <1>0, <2>3, <2>4, <2>5, <2>6, ReturnType DEF TypeOK, Indices
  <1>6. ASSUME NEW t \in Threads, Write(t) PROVE TypeOK'
    <2> DEFINE w == Least(Room, Len(src[t]))
    <2>1. /\ w \in 1 .. Room /\ w <= Len(src[t])
          /\ src[t] \in Seq(Bytes)
          /\ Return(t, "write", SubSeq(src[t], 1, w))
          /\ SubSeq(src[t], 1, w) \in Seq(Bytes)
          /\ buf' = Written(src[t], w)
          /\ remaining' = remaining + w
          /\ condition' = {} /\ UNCHANGED <<readIdx, closed>>
      BY <1>6, WriteFacts
    <2> HIDE DEF w
    <2>2. buf' \in [Indices -> Bytes]
      BY <1>0, <2>1, WrittenType
    <2>3. remaining' \in 0 .. BufferSize
      BY <1>0, <2>1 DEF TypeOK, Room
    <2>4. /\ at' \in [Threads -> {"idle", "read", "write"}]
          /\ dst' \in [Threads -> Nat]
          /\ src' \in [Threads -> Seq(Bytes)]
          /\ result' \in Seq(Bytes) \cup {Eof}
      <3> DEFINE moved == SubSeq(src[t], 1, w)
      <3>1. Return(t, "write", moved) /\ moved \in Seq(Bytes)
        BY <2>1
      <3> HIDE DEF moved
      <3> QED
        BY <1>0, <3>1, ReturnType
    <2>5. condition' = {} /\ readIdx' \in Indices /\ closed' \in BOOLEAN
      BY <1>0, <2>1 DEF TypeOK
    <2> QED
      BY <2>2, <2>3, <2>4, <2>5 DEF TypeOK
  <1>7. ASSUME NEW t \in Threads, Clear(t) PROVE TypeOK'
    <2>1. readIdx + remaining \in Nat
      BY <1>0 DEF TypeOK, Indices
    <2>2. readIdx' \in Indices
      BY <1>7, <2>1, ModRange DEF Clear, Indices
    <2> QED
      BY <1>0, <1>7, <2>2 DEF TypeOK, Clear, notifyAll, call, Indices
  <1>8. ASSUME NEW t \in Threads, Stop(t) PROVE TypeOK'
    BY <1>0, <1>8 DEF TypeOK, Stop, notifyAll, call, Indices
  <1>9. CASE UNCHANGED vars
    BY <1>0, <1>9 DEF TypeOK, vars, call, pipe, Indices
  <1> QED
    BY <1>1, <1>2, <1>3, <1>4, <1>5, <1>6, <1>7, <1>8, <1>9 DEF Next, Step

\* Nobody sleeps after any change that makes room, data or the end.
LEMMA SleepersStep ==
    ASSUME IInv, [Next]_vars
    PROVE  SleepersHaveToWait'
  <1> USE DEF SleepersHaveToWait
  <1>1. ASSUME NEW t \in Threads, CallRead(t) \/ CallWrite(t) PROVE SleepersHaveToWait'
    <2>1. t \notin condition
      BY <1>1 DEF IInv, TypeOK, CallRead, CallWrite, Goto
    <2>2. \A u \in Threads : u # t => at'[u] = at[u]
      BY <1>1 DEF IInv, TypeOK, CallRead, CallWrite, Goto
    <2> QED
      BY <1>1, <2>1, <2>2 DEF IInv, TypeOK, CallRead, CallWrite, pipe
  <1>2. ASSUME NEW t \in Threads, ReadWait(t) \/ WriteWait(t) PROVE SleepersHaveToWait'
    BY <1>2 DEF IInv, ReadWait, WriteWait, call, pipe
  <1>3. ASSUME NEW t \in Threads, ReadEof(t) \/ WriteEof(t) PROVE SleepersHaveToWait'
    <2>1. closed /\ UNCHANGED condition
      BY <1>3 DEF ReadEof, WriteEof
    <2>2. condition = {}
      BY <2>1 DEF IInv
    <2> QED
      BY <2>1, <2>2
  <1>4. ASSUME NEW t \in Threads, Read(t) \/ Write(t) \/ Clear(t) \/ Stop(t)
        PROVE  SleepersHaveToWait'
    BY <1>4 DEF Read, Write, Clear, Stop, notifyAll
  <1>5. ASSUME NEW t \in Threads, SpuriousWakeup(t) PROVE SleepersHaveToWait'
    BY <1>5 DEF IInv, SpuriousWakeup, call, pipe
  <1>6. CASE UNCHANGED vars
    BY <1>6 DEF IInv, vars, call, pipe
  <1> QED
    BY <1>1, <1>2, <1>3, <1>4, <1>5, <1>6 DEF Next, Step

LEMMA RequestsStep ==
    ASSUME IInv, [Next]_vars
    PROVE  RequestsMade'
  <1> USE DEF RequestsMade
  <1>1. ASSUME NEW t \in Threads, CallRead(t) PROVE RequestsMade'
    <2>1. PICK n \in 1 .. MaxRequest : dst' = [dst EXCEPT ![t] = n]
      BY <1>1 DEF CallRead
    <2>2. n > 0
      BY RequestPositive
    <2> QED
      BY <1>1, <2>1, <2>2 DEF IInv, TypeOK, CallRead, Goto
  <1>2. ASSUME NEW t \in Threads, CallWrite(t) PROVE RequestsMade'
    <2>1. PICK n \in 1 .. MaxRequest : \E s \in [1 .. n -> Bytes] : src' = [src EXCEPT ![t] = s]
      BY <1>2 DEF CallWrite
    <2>2. PICK s \in [1 .. n -> Bytes] : src' = [src EXCEPT ![t] = s]
      BY <2>1
    <2>3. s # <<>>
      <3>1. 1 \in DOMAIN s
        BY RequestPositive
      <3> QED
        BY <3>1
    <2> QED
      BY <1>2, <2>2, <2>3 DEF IInv, TypeOK, CallWrite, Goto
  <1>3. ASSUME NEW t \in Threads, NEW from, NEW moved, Return(t, from, moved) PROVE RequestsMade'
    BY <1>3 DEF IInv, TypeOK, Return, Goto
  <1>4. ASSUME NEW t \in Threads, Read(t) \/ Write(t) \/ ReadEof(t) \/ WriteEof(t)
        PROVE  \E from, moved : Return(t, from, moved)
    BY <1>4 DEF Read, Write, ReadEof, WriteEof
  <1>5. ASSUME NEW t \in Threads,
               ReadWait(t) \/ WriteWait(t) \/ Clear(t) \/ Stop(t) \/ SpuriousWakeup(t)
        PROVE  UNCHANGED call
    BY <1>5 DEF ReadWait, WriteWait, Clear, Stop, SpuriousWakeup
  <1>6. CASE UNCHANGED call
    BY <1>6 DEF IInv, call
  <1>7. CASE UNCHANGED vars
    BY <1>6, <1>7 DEF vars
  <1> QED
    BY <1>1, <1>2, <1>3, <1>4, <1>5, <1>6, <1>7 DEF Next, Step

LEMMA Inductive == Spec => []IInv
  <1>1. IInv /\ [Next]_vars => IInv'
    BY TypeStep, SleepersStep, RequestsStep DEF IInv
  <1> QED
    BY InitIInv, <1>1, PTL DEF Spec

\* The variables keep their types: the indices stay inside the buffer.
THEOREM TypeCorrect == Spec => []TypeOK
  <1>1. IInv => TypeOK
    BY DEF IInv
  <1> QED
    BY Inductive, <1>1, PTL

\* A thread sleeps only while its call cannot end.
THEOREM NoWakeupLost == Spec => []SleepersHaveToWait
  <1>1. IInv => SleepersHaveToWait
    BY DEF IInv
  <1> QED
    BY Inductive, <1>1, PTL

-----------------------------------------------------------------------------
(* Refinement                                                              *)

\* What the buffer holds is as long as remaining says.
LEMMA ContentFacts ==
    ASSUME TypeOK
    PROVE  /\ Content \in Seq(Bytes) /\ Len(Content) = remaining
           /\ Content = <<>> <=> remaining = 0
  <1>1. Content \in Seq(Bytes) /\ Len(Content) = remaining
    BY SizePositive, RingType DEF TypeOK, Indices, Content, Ring
  <1>2. remaining = 0 => Content = <<>>
    BY <1>1, EmptySeq
  <1>3. Content = <<>> => remaining = 0
    BY <1>1, EmptySeq
  <1> QED
    BY <1>1, <1>2, <1>3

\* The contents are a function of the pipe's variables.
LEMMA ContentKept ==
    ASSUME UNCHANGED <<buf, readIdx, remaining>>
    PROVE  Content' = Content
  BY DEF Content

LEMMA InitImplements == Init => BP!Init
  <1> SUFFICES ASSUME Init PROVE BP!Init
    OBVIOUS
  <1>1. Content = <<>>
    BY InitIInv, ContentFacts DEF IInv, Init
  <1> QED
    BY <1>1 DEF Init, BP!Init

\* A read takes the front of the contents.
LEMMA ReadImplements ==
    ASSUME IInv, NEW t \in Threads, Read(t)
    PROVE  BP!Read(t)
  <1> DEFINE r == Least(remaining, dst[t])
  <1>1. at[t] = "read" /\ dst[t] > 0 /\ TypeOK
    BY DEF IInv, RequestsMade, Read, Return, Goto
  <1>2. /\ r \in 1 .. remaining /\ remaining' = remaining - r
        /\ Return(t, "read", SubSeq(Content, 1, r))
        /\ readIdx' = (readIdx + r) % BufferSize
        /\ UNCHANGED <<buf, closed>>
    BY <1>1, ReadFacts
  <1>3. BP!Least(dst[t], Len(Content)) = r
    BY <1>1, ContentFacts DEF BP!Least, Least, TypeOK
  <1> HIDE DEF r
  <1>4. Content' = SubSeq(Content, r + 1, Len(Content))
    <2>1. /\ readIdx \in 0 .. BufferSize - 1 /\ remaining \in 0 .. BufferSize
          /\ r \in 0 .. remaining /\ buf \in [0 .. BufferSize - 1 -> Bytes]
      BY <1>1, <1>2 DEF TypeOK, Indices
    <2>2. Ring(buf, BufferSize, (readIdx + r) % BufferSize, remaining - r)
            = SubSeq(Ring(buf, BufferSize, readIdx, remaining), r + 1, remaining)
      BY <2>1, SizePositive, RingTail
    <2>3. Content = Ring(buf, BufferSize, readIdx, remaining)
      BY DEF Content, Ring
    <2>4. Content' = Ring(buf, BufferSize, (readIdx + r) % BufferSize, remaining - r)
      BY <1>2 DEF Content, Ring
    <2> QED
      BY <1>1, <2>2, <2>3, <2>4, ContentFacts
  <1>5. Content # <<>>
    BY <1>1, <1>2, ContentFacts DEF TypeOK
  <1> QED
    BY <1>2, <1>3, <1>4, <1>5 DEF BP!Read, BP!Finish, Return, Goto

\* A write appends to the contents.
LEMMA WriteImplements ==
    ASSUME IInv, NEW t \in Threads, Write(t)
    PROVE  BP!Write(t)
  <1> DEFINE w == Least(Room, Len(src[t]))
  <1>1. TypeOK /\ at[t] = "write" /\ ~closed /\ remaining < BufferSize
    BY DEF IInv, Write, Return, Goto
  <1>2. /\ w \in 1 .. Room /\ w <= Len(src[t])
        /\ src[t] \in Seq(Bytes)
        /\ Return(t, "write", SubSeq(src[t], 1, w))
        /\ buf' = Written(src[t], w)
        /\ remaining' = remaining + w
        /\ UNCHANGED <<readIdx, closed>>
    BY WriteFacts
  <1>3. BP!Least(Len(src[t]), BufferSize - Len(Content)) = w
    <2>1. Len(src[t]) \in Nat /\ Room \in Nat
      BY <1>1, <1>2, LenProperties, SizePositive DEF Room, TypeOK
    <2> QED
      BY <1>1, <2>1, ContentFacts DEF BP!Least, Least, Room
  <1> HIDE DEF w
  <1>4. Content' = Content \o SubSeq(src[t], 1, w)
    <2>1. Content' = Ring(Written(src[t], w), BufferSize, readIdx, remaining + w)
      BY <1>2 DEF Content, Ring
    <2> QED
      BY <1>1, <1>2, <2>1, RingAppend
  <1>5. Len(Content) < BufferSize
    BY <1>1, ContentFacts
  <1> QED
    BY <1>1, <1>2, <1>3, <1>4, <1>5 DEF BP!Write, BP!Finish, Return, Goto

LEMMA StepImplements ==
    ASSUME IInv, [Next]_vars
    PROVE  [BP!Next]_BP!pvars
  <1>0. TypeOK
    BY DEF IInv
  <1>1. ASSUME NEW t \in Threads, CallRead(t) PROVE BP!Call(t)
    <2>1. PICK n \in 1 .. MaxRequest : dst' = [dst EXCEPT ![t] = n]
      BY <1>1 DEF CallRead
    <2>2. dst'[t] = n /\ n > 0
      BY <1>0, <2>1, RequestPositive DEF TypeOK
    <2>3. Content' = Content
      BY <1>1, ContentKept DEF CallRead, pipe
    <2> QED
      BY <1>1, <2>1, <2>2, <2>3 DEF BP!Call, CallRead, Goto, pipe
  <1>2. ASSUME NEW t \in Threads, CallWrite(t) PROVE BP!Call(t)
    <2>1. PICK n \in 1 .. MaxRequest : \E s \in [1 .. n -> Bytes] : src' = [src EXCEPT ![t] = s]
      BY <1>2 DEF CallWrite
    <2>2. PICK s \in [1 .. n -> Bytes] : src' = [src EXCEPT ![t] = s]
      BY <2>1
    <2>3. s # <<>>
      <3>1. 1 \in DOMAIN s
        BY RequestPositive
      <3> QED
        BY <3>1
    <2>4. src'[t] = s
      BY <1>0, <2>2 DEF TypeOK
    <2>5. Content' = Content
      BY <1>2, ContentKept DEF CallWrite, pipe
    <2> QED
      BY <1>2, <2>2, <2>3, <2>4, <2>5 DEF BP!Call, CallWrite, Goto, pipe
  <1>3. ASSUME NEW t \in Threads, ReadWait(t) \/ WriteWait(t) \/ SpuriousWakeup(t)
        PROVE  UNCHANGED BP!pvars
    <2>1. UNCHANGED <<call, pipe, result>>
      BY <1>3 DEF ReadWait, WriteWait, SpuriousWakeup
    <2>2. Content' = Content
      BY <2>1, ContentKept DEF pipe
    <2> QED
      BY <2>1, <2>2 DEF BP!pvars, BP!call, call, pipe
  <1>4. ASSUME NEW t \in Threads, ReadEof(t) PROVE BP!ReadEof(t)
    <2>1. Content' = Content
      BY <1>4, ContentKept DEF ReadEof, pipe
    <2>2. Content = <<>>
      BY <1>0, <1>4, ContentFacts DEF ReadEof
    <2> QED
      BY <1>4, <2>1, <2>2 DEF ReadEof, Return, Goto, pipe, BP!ReadEof, BP!Finish
  <1>5. ASSUME NEW t \in Threads, WriteEof(t) PROVE BP!WriteEof(t)
    <2>1. Content' = Content
      BY <1>5, ContentKept DEF WriteEof, pipe
    <2> QED
      BY <1>5, <2>1 DEF WriteEof, Return, Goto, pipe, BP!WriteEof, BP!Finish
  <1>6. ASSUME NEW t \in Threads, Clear(t) PROVE BP!Clear
    <2>1. Content' = <<>>
      <3>1. TypeOK' /\ remaining' = 0
        BY <1>6, TypeStep DEF Clear
      <3>2. Content' = [i \in 1 .. 0 |-> buf'[(readIdx' + i - 1) % BufferSize]]
        BY <3>1 DEF Content
      <3> QED
        BY <3>2
    <2> QED
      BY <1>6, <2>1 DEF BP!Clear, BP!call, Clear, call
  <1>7. ASSUME NEW t \in Threads, Stop(t) PROVE BP!Stop
    <2>1. Content' = Content
      BY <1>7, ContentKept DEF Stop
    <2> QED
      BY <1>7, <2>1 DEF BP!Stop, BP!call, Stop, call
  <1>8. CASE UNCHANGED vars
    <2>1. Content' = Content
      BY <1>8, ContentKept DEF vars, pipe
    <2> QED
      BY <1>8, <2>1 DEF BP!pvars, BP!call, vars, call, pipe
  <1> QED
    BY <1>1, <1>2, <1>3, <1>4, <1>5, <1>6, <1>7, <1>8, ReadImplements, WriteImplements
    DEF Next, Step, BP!Next, BP!End

\* The circular buffer is a first-in first-out stream of bytes, however often it
\* wraps around and whoever waits, is overtaken, clears or stops it.
THEOREM Refinement == Spec => ImplementsBytePipe
  <1>1. IInv /\ [Next]_vars => [BP!Next]_BP!pvars
    BY StepImplements
  <1> QED
    BY Inductive, InitImplements, <1>1, PTL DEF Spec, ImplementsBytePipe, BP!Spec
=============================================================================
