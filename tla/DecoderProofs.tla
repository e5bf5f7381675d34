--------------------------- MODULE DecoderProofs ----------------------------
(***************************************************************************)
(* Theorems about the decoder, for any streams of encoded frames, any      *)
(* damage to them, any pieces they are fed in and any points at which the  *)
(* buffer is compacted: the frames consumed are those of the bytes fed, a  *)
(* frame that arrived whole is decoded, and no message and no byte is lost *)
(* without being counted.                                                  *)
(***************************************************************************)
EXTENDS FrameDecoder, SequenceTheorems, FiniteSetTheorems, TLAPS

(* A non-empty set of naturals has a least element.                        *)
LEMMA LeastNatural ==
  ASSUME NEW T \in SUBSET Nat, T # {}
  PROVE  \E x \in T : \A y \in T : x <= y
<1>1. PICK x \in T : \A y \in T : ~ (<<y, x>> \in OpToRel(<, Nat))
  BY NatLessThanWellFounded, WFMin, Zenon
<1>2. \A y \in T : ~(y < x)
  BY <1>1, Zenon DEF OpToRel
<1> QED  BY <1>2

(* Two sequences that agree on a range have the same units there.          *)
LEMMA SameRange ==
  ASSUME NEW s \in Seq(Nat), NEW t \in Seq(Nat), NEW a \in Nat, NEW b \in Nat, NEW d \in Int,
         1 <= a, b <= Len(s), a + d >= 1, b + d <= Len(t),
         \A i \in a..b : t[i + d] = s[i]
  PROVE  /\ SubSeq(s, a, b) = SubSeq(t, a + d, b + d)
         /\ SubSeq(s, a, b) \in Seq(Nat)
         /\ Len(SubSeq(s, a, b)) = IF a <= b THEN b - a + 1 ELSE 0
         /\ \A i \in 1..(b - a + 1) : SubSeq(s, a, b)[i] = s[a + i - 1]
<1>1. /\ \A i \in a..b : s[i] \in Nat
      /\ \A i \in (a + d)..(b + d) : t[i] \in Nat
  BY ElementOfSeq
<1>2. a + d \in Int /\ b + d \in Int /\ a \in Int /\ b \in Int
  OBVIOUS
<1> DEFINE x == SubSeq(s, a, b)
           a2 == a + d
           b2 == b + d
           y == SubSeq(t, a2, b2)
<1>3. /\ x \in Seq(Nat) /\ Len(x) = (IF a <= b THEN b - a + 1 ELSE 0)
      /\ \A i \in 1..(b - a + 1) : x[i] = s[a + i - 1]
  BY <1>1, <1>2, SubSeqProperties
<1>4. /\ y \in Seq(Nat) /\ Len(y) = (IF a2 <= b2 THEN b2 - a2 + 1 ELSE 0)
      /\ \A i \in 1..(b2 - a2 + 1) : y[i] = t[a2 + i - 1]
  <2>1. a2 \in Int /\ b2 \in Int /\ \A i \in a2..b2 : t[i] \in Nat
    BY <1>1, <1>2
  <2> HIDE DEF a2, b2
  <2> QED  BY <2>1, SubSeqProperties
<1> HIDE DEF x, y
<1>5. Len(x) = Len(y)
  BY <1>3, <1>4
<1>6. ASSUME NEW i \in 1..Len(x)
      PROVE  x[i] = y[i]
  <2>1. i \in 1..(b - a + 1) /\ i \in 1..(b2 - a2 + 1) /\ a + i - 1 \in a..b
        /\ a2 + i - 1 = (a + i - 1) + d
    BY <1>3
  <2>2. x[i] = s[a + i - 1] /\ y[i] = t[a2 + i - 1]
    BY <1>3, <1>4, <2>1, Zenon
  <2> QED  BY <2>1, <2>2
<1>7. x = y
  BY <1>3, <1>4, <1>5, <1>6, SeqEqual, Zenon
<1> QED  BY <1>3, <1>7 DEF x, y

(* t has s as its beginning.                                               *)
Begins(s, t) ==
    /\ s \in Seq(Nat) /\ t \in Seq(Nat) /\ Len(s) <= Len(t)
    /\ \A i \in 1..Len(s) : t[i] = s[i]

(* No unit that may follow makes a frame of what is at offset q: its magic *)
(* or its header is wrong, or it is complete and its checksum does not     *)
(* hold.                                                                   *)
Dead(s, q) ==
    \/ q + 2 <= Len(s) /\ <<s[q + 1], s[q + 2]>> # kMagic
    \/ q + kHeaderSize <= Len(s) /\ ~HeaderAt(s, q)
    \/ HeaderAt(s, q) /\ EndAt(s, q) <= Len(s) /\ ~FrameAt(s, q)

(* A header stays what it is, and so does a frame.                         *)
LEMMA HeaderKept ==
  ASSUME NEW s, NEW t, Begins(s, t), NEW q \in Nat, q + kHeaderSize <= Len(s)
  PROVE  /\ HeaderAt(t, q) <=> HeaderAt(s, q)
         /\ EndAt(t, q) = EndAt(s, q) /\ EndAt(s, q) \in Nat
         /\ EndAt(s, q) <= Len(s) => (FrameAt(t, q) <=> FrameAt(s, q))
<1>1. s \in Seq(Nat) /\ t \in Seq(Nat) /\ Len(s) \in Nat /\ Len(t) \in Nat /\ Len(s) <= Len(t)
      /\ q + 7 <= Len(s) /\ q + 7 <= Len(t)
  BY DEF Begins, kHeaderSize
<1>2. \A i \in 1..7 : t[q + i] = s[q + i] /\ s[q + i] \in Nat
  <2> SUFFICES ASSUME NEW i \in 1..7 PROVE t[q + i] = s[q + i] /\ s[q + i] \in Nat
    BY Zenon
  <2>1. q + i \in 1..Len(s)
    BY <1>1
  <2> QED  BY <1>1, <2>1, ElementOfSeq, Zenon DEF Begins
<1>3. /\ t[q + 1] = s[q + 1] /\ t[q + 2] = s[q + 2] /\ t[q + 3] = s[q + 3]
      /\ t[q + 4] = s[q + 4] /\ t[q + 5] = s[q + 5] /\ t[q + 7] = s[q + 7] /\ s[q + 5] \in Nat
  BY <1>2
<1>4. HeaderAt(t, q) <=> HeaderAt(s, q)
  BY <1>1, <1>3 DEF HeaderAt, kHeaderSize
<1>5. EndAt(t, q) = EndAt(s, q) /\ EndAt(s, q) \in Nat /\ EndAt(s, q) >= q + 7
  BY <1>3 DEF EndAt, kHeaderSize
<1>6. ASSUME EndAt(s, q) <= Len(s)
      PROVE  FrameAt(t, q) <=> FrameAt(s, q)
  <2> DEFINE a == q + kHeaderSize + 1
             b == EndAt(s, q)
  <2>1. a \in Nat /\ b \in Nat /\ 1 <= a /\ b <= Len(s) /\ a + 0 = a /\ b + 0 = b /\ b <= Len(t)
    BY <1>1, <1>5, <1>6 DEF kHeaderSize
  <2>2. \A i \in a..b : t[i + 0] = s[i]
    <3>1. \A i \in a..b : i \in 1..Len(s) /\ i + 0 = i
      BY <1>1, <2>1
    <3>2. \A i \in 1..Len(s) : t[i] = s[i]
      BY DEF Begins
    <3> QED  BY <3>1, <3>2, Zenon
  <2>3. SubSeq(s, a, b) = SubSeq(t, a, b)
    <3> HIDE DEF a, b
    <3>1. SubSeq(s, a, b) = SubSeq(t, a + 0, b + 0)
      BY <1>1, <2>1, <2>2, SameRange
    <3> QED  BY <2>1, <3>1
  <2>4. FrameAt(s, q) <=> HeaderAt(s, q) /\ fletcher16(SubSeq(s, a, b)) = s[q + 7]
    BY <1>6, Zenon DEF FrameAt
  <2>5. FrameAt(t, q) <=> HeaderAt(t, q) /\ fletcher16(SubSeq(t, a, b)) = t[q + 7]
    BY <1>5, <2>1, Zenon DEF FrameAt
  <2> QED  BY <1>3, <1>4, <2>3, <2>4, <2>5, Zenon
<1> QED  BY <1>4, <1>5, <1>6

(* A frame is still one when more follows.                                 *)
LEMMA FrameKept ==
  ASSUME NEW s, NEW t, Begins(s, t), NEW q \in Nat, FrameAt(s, q)
  PROVE  FrameAt(t, q) /\ EndAt(t, q) = EndAt(s, q) /\ EndAt(s, q) \in Nat /\ q < EndAt(s, q)
<1>1. q + kHeaderSize <= Len(s) /\ EndAt(s, q) <= Len(s)
  BY DEF FrameAt, HeaderAt
<1>2. s[q + 5] \in Nat
  <2>1. s \in Seq(Nat) /\ q + 7 <= Len(s)
    BY <1>1 DEF Begins, kHeaderSize
  <2>2. q + 5 \in 1..Len(s)
    BY <2>1
  <2> QED  BY <2>1, <2>2, ElementOfSeq, Zenon
<1> QED  BY <1>1, <1>2, HeaderKept DEF EndAt, kHeaderSize

(* What is dead stays so when more follows.                                *)
LEMMA DeadKept ==
  ASSUME NEW s, NEW t, Begins(s, t), NEW q \in Nat, Dead(s, q)
  PROVE  Dead(t, q)
<1>1. Len(s) \in Nat /\ Len(t) \in Nat /\ Len(s) <= Len(t)
  BY DEF Begins
<1>2. CASE q + 2 <= Len(s) /\ <<s[q + 1], s[q + 2]>> # kMagic
  <2>1. q + 2 <= Len(t) /\ q + 1 \in 1..Len(s) /\ q + 2 \in 1..Len(s)
    BY <1>1, <1>2
  <2>2. t[q + 1] = s[q + 1] /\ t[q + 2] = s[q + 2]
    BY <2>1 DEF Begins
  <2> QED  BY <1>2, <2>1, <2>2 DEF Dead
<1>3. CASE q + kHeaderSize <= Len(s) /\ ~HeaderAt(s, q)
  <2>1. q + kHeaderSize <= Len(t)
    BY <1>1, <1>3 DEF kHeaderSize
  <2> QED  BY <1>3, <2>1, HeaderKept DEF Dead
<1>4. CASE HeaderAt(s, q) /\ EndAt(s, q) <= Len(s) /\ ~FrameAt(s, q)
  <2>1. q + kHeaderSize <= Len(s)
    BY <1>4 DEF HeaderAt
  <2>2. HeaderAt(t, q) /\ EndAt(t, q) = EndAt(s, q) /\ EndAt(s, q) \in Nat /\ ~FrameAt(t, q)
    BY <1>4, <2>1, HeaderKept
  <2> QED  BY <1>1, <1>4, <2>2 DEF Dead
<1> QED  BY <1>2, <1>3, <1>4 DEF Dead

(* What is dead is neither a frame nor the beginning of one.               *)
LEMMA DeadIsNone ==
  ASSUME NEW s \in Seq(Nat), NEW q \in Nat, Dead(s, q)
  PROVE  ~FrameAt(s, q) /\ ~StallsAt(s, q)
<1>1. HeaderAt(s, q) => <<s[q + 1], s[q + 2]>> = kMagic
  BY DEF HeaderAt
<1>2. HeaderAt(s, q) => s[q + 5] \in Nat
  <2>1. HeaderAt(s, q) => q + 7 <= Len(s)
    BY DEF HeaderAt, kHeaderSize
  <2>2. q + 7 <= Len(s) => q + 5 \in 1..Len(s)
    OBVIOUS
  <2> QED  BY <2>1, <2>2, ElementOfSeq, Zenon
<1>3. Len(s) \in Nat /\ (HeaderAt(s, q) => EndAt(s, q) \in Nat)
  BY <1>2 DEF EndAt, kHeaderSize
<1> QED  BY <1>1, <1>3 DEF Dead, FrameAt, StallsAt

-----------------------------------------------------------------------------
(* The part of the invariant about the buffer: from rpos on it holds the   *)
(* units fed last, and every unit fed since the reset is accounted for.    *)
BufferHolds ==
    /\ stream \in Streams /\ fed \in 0..Len(stream.units) /\ origin \in 0..fed
    /\ buf \in Seq(Nat) /\ rpos \in 0..Len(buf) /\ Buffered <= fed - origin
    /\ \A i \in 1..Buffered : buf[rpos + i] = stream.units[Offset + i]
    /\ bytes_consumed \in Int /\ bytes_discarded \in Int
    /\ bytes_consumed + bytes_discarded + Buffered = fed - origin
    /\ calling \in BOOLEAN /\ drained \in BOOLEAN /\ ~(calling /\ drained)

(* The units of a stream are a sequence of numbers.                        *)
LEMMA StreamFacts ==
  ASSUME stream \in Streams
  PROVE  stream.units \in Seq(Nat) /\ Len(stream.units) \in Nat
<1>1. stream \in Stream
  BY DecoderAssumption
<1> QED  BY <1>1 DEF Stream

(* compact moves the units behind rpos and appends the tail.               *)
LEMMA CompactFacts ==
  ASSUME buf \in Seq(Nat), NEW r \in 0..Len(buf), NEW tail \in Seq(Nat), compact(r, tail)
  PROVE  /\ buf' \in Seq(Nat) /\ rpos' \in 0..Len(buf')
         /\ Len(buf') - rpos' = Len(buf) - r + Len(tail)
         /\ \A i \in 1..(Len(buf) - r) : buf'[rpos' + i] = buf[r + i]
         /\ \A i \in 1..Len(tail) : buf'[rpos' + (Len(buf) - r) + i] = tail[i]
<1>1. Len(buf) \in Nat /\ Len(tail) \in Nat /\ r \in Nat /\ r <= Len(buf)
  OBVIOUS
<1>2. CASE r # 0 /\ (r >= CompactAt \/ r * 2 >= Len(buf))
  <2> DEFINE x == SubSeq(buf, r + 1, Len(buf))
             y == x \o tail
  <2>1. buf' = y /\ rpos' = 0
    BY <1>2 DEF compact
  <2>2. /\ x \in Seq(Nat) /\ Len(x) = Len(buf) - r
        /\ \A i \in 1..(Len(buf) - r) : x[i] = buf[r + i]
    <3>1. r + 1 \in Nat /\ \A i \in (r + 1)..Len(buf) : buf[i + 0] = buf[i]
      BY <1>1
    <3>2. /\ x \in Seq(Nat) /\ Len(x) = (IF r + 1 <= Len(buf) THEN Len(buf) - (r + 1) + 1 ELSE 0)
          /\ \A i \in 1..(Len(buf) - (r + 1) + 1) : x[i] = buf[(r + 1) + i - 1]
      <4>1. r + 1 >= 1 /\ Len(buf) <= Len(buf) /\ (r + 1) + 0 >= 1 /\ Len(buf) + 0 <= Len(buf) /\ 0 \in Int
        BY <1>1
      <4> DEFINE k == r + 1
      <4>2. k \in Nat /\ 1 <= k /\ k + 0 >= 1 /\ \A i \in k..Len(buf) : buf[i + 0] = buf[i]
        BY <3>1, <4>1
      <4> HIDE DEF k
      <4>3. /\ SubSeq(buf, k, Len(buf)) \in Seq(Nat)
            /\ Len(SubSeq(buf, k, Len(buf))) = IF k <= Len(buf) THEN Len(buf) - k + 1 ELSE 0
            /\ \A i \in 1..(Len(buf) - k + 1) : SubSeq(buf, k, Len(buf))[i] = buf[k + i - 1]
        BY <1>1, <4>1, <4>2, SameRange
      <4> QED  BY <4>3 DEF k
    <3>3. \A i \in 1..(Len(buf) - r) : i \in 1..(Len(buf) - (r + 1) + 1) /\ (r + 1) + i - 1 = r + i
      BY <1>1
    <3>4. Len(x) = Len(buf) - r
      BY <1>1, <3>2
    <3>5. \A i \in 1..(Len(buf) - r) : x[i] = buf[r + i]
      <4> HIDE DEF x
      <4> QED  BY <3>2, <3>3, Zenon
    <3> QED  BY <3>2, <3>4, <3>5
  <2> HIDE DEF x
  <2>3. /\ y \in Seq(Nat) /\ Len(y) = Len(x) + Len(tail)
        /\ \A i \in 1..(Len(x) + Len(tail)) : y[i] = IF i <= Len(x) THEN x[i] ELSE tail[i - Len(x)]
    BY <2>2, ConcatProperties, Zenon
  <2> HIDE DEF y
  <2>4. ASSUME NEW i \in 1..(Len(buf) - r)
        PROVE  buf'[rpos' + i] = buf[r + i]
    <3>1. i \in 1..(Len(x) + Len(tail)) /\ i <= Len(x) /\ 0 + i = i
      BY <1>1, <2>2
    <3> QED  BY <2>1, <2>2, <2>3, <3>1, Zenon
  <2>5. ASSUME NEW i \in 1..Len(tail)
        PROVE  buf'[rpos' + (Len(buf) - r) + i] = tail[i]
    <3> DEFINE k == 0 + (Len(buf) - r) + i
    <3>1. k \in 1..(Len(x) + Len(tail)) /\ ~(k <= Len(x)) /\ k - Len(x) = i
      BY <1>1, <2>2
    <3>2. y[k] = tail[i]
      <4> HIDE DEF k
      <4> QED  BY <2>3, <3>1, Zenon
    <3> QED  BY <2>1, <3>2
  <2>6. Len(y) \in Nat /\ 0 \in 0..Len(y) /\ Len(y) - 0 = Len(buf) - r + Len(tail)
    BY <1>1, <2>2, <2>3
  <2> QED  BY <2>1, <2>3, <2>4, <2>5, <2>6, Zenon
<1>3. CASE ~(r # 0 /\ (r >= CompactAt \/ r * 2 >= Len(buf)))
  <2> DEFINE y == buf \o tail
  <2>1. buf' = y /\ rpos' = r
    BY <1>3 DEF compact
  <2>2. /\ y \in Seq(Nat) /\ Len(y) = Len(buf) + Len(tail)
        /\ \A i \in 1..(Len(buf) + Len(tail)) : y[i] = IF i <= Len(buf) THEN buf[i] ELSE tail[i - Len(buf)]
    BY ConcatProperties
  <2> HIDE DEF y
  <2>3. ASSUME NEW i \in 1..(Len(buf) - r)
        PROVE  buf'[rpos' + i] = buf[r + i]
    <3>1. r + i \in 1..(Len(buf) + Len(tail)) /\ r + i <= Len(buf)
      BY <1>1
    <3> QED  BY <2>1, <2>2, <3>1
  <2>4. ASSUME NEW i \in 1..Len(tail)
        PROVE  buf'[rpos' + (Len(buf) - r) + i] = tail[i]
    <3> DEFINE k == r + (Len(buf) - r) + i
    <3>1. k \in 1..(Len(buf) + Len(tail)) /\ ~(k <= Len(buf)) /\ k - Len(buf) = i
      BY <1>1
    <3>2. y[k] = tail[i]
      <4> HIDE DEF k
      <4> QED  BY <2>2, <3>1, Zenon
    <3> QED  BY <2>1, <3>2
  <2> QED  BY <1>1, <2>1, <2>2, <2>3, <2>4
<1> QED  BY <1>2, <1>3

(* A prefix.                                                               *)
LEMMA PrefixFacts ==
  ASSUME NEW u \in Seq(Nat), NEW n \in 0..Len(u)
  PROVE  /\ SubSeq(u, 1, n) \in Seq(Nat) /\ Len(SubSeq(u, 1, n)) = n
         /\ \A i \in 1..n : SubSeq(u, 1, n)[i] = u[i]
         /\ Begins(SubSeq(u, 1, n), u)
<1>1. Len(u) \in Nat /\ n \in Nat /\ n <= Len(u)
  OBVIOUS
<1>2. /\ SubSeq(u, 1, n) \in Seq(Nat)
      /\ Len(SubSeq(u, 1, n)) = IF 1 <= n THEN n - 1 + 1 ELSE 0
      /\ \A i \in 1..(n - 1 + 1) : SubSeq(u, 1, n)[i] = u[1 + i - 1]
  <2>1. 1 \in Nat /\ 0 \in Int /\ 1 + 0 >= 1 /\ n + 0 <= Len(u) /\ \A i \in 1..n : u[i + 0] = u[i]
    BY <1>1
  <2> QED  BY <1>1, <2>1, SameRange
<1>3. \A i \in 1..n : i \in 1..(n - 1 + 1) /\ 1 + i - 1 = i
  BY <1>1
<1>4. Len(SubSeq(u, 1, n)) = n
  BY <1>1, <1>2
<1>5. \A i \in 1..n : SubSeq(u, 1, n)[i] = u[i]
  BY <1>2, <1>3
<1> QED  BY <1>1, <1>2, <1>4, <1>5 DEF Begins

(* The units fed so far.                                                   *)
Arrived == SubSeq(stream.units, 1, fed)

(* The units that arrived are the beginning of the stream.                 *)
LEMMA ArrivedFacts ==
  ASSUME stream \in Streams, fed \in 0..Len(stream.units)
  PROVE  /\ Arrived \in Seq(Nat) /\ Len(Arrived) = fed
         /\ \A i \in 1..fed : Arrived[i] = stream.units[i]
         /\ Begins(Arrived, stream.units)
<1>1. stream.units \in Seq(Nat)
  BY StreamFacts
<1> QED  BY <1>1, PrefixFacts, Zenon DEF Arrived

(* What every part of the invariant uses of it.                            *)
LEMMA BufferFacts ==
  ASSUME BufferHolds
  PROVE  /\ stream.units \in Seq(Nat) /\ Len(stream.units) \in Nat
         /\ fed \in Nat /\ fed <= Len(stream.units) /\ origin \in Nat /\ origin <= fed
         /\ buf \in Seq(Nat) /\ Len(buf) \in Nat /\ rpos \in Nat /\ rpos <= Len(buf)
         /\ Buffered \in Nat /\ Offset \in Nat /\ origin <= Offset /\ Offset + Buffered = fed
         /\ Arrived \in Seq(Nat) /\ Len(Arrived) = fed /\ Begins(Arrived, stream.units)
         /\ \A i \in 1..Buffered : buf[rpos + i] = Arrived[Offset + i]
<1>1. /\ stream.units \in Seq(Nat) /\ Len(stream.units) \in Nat
      /\ fed \in Nat /\ fed <= Len(stream.units) /\ origin \in Nat /\ origin <= fed
      /\ buf \in Seq(Nat) /\ Len(buf) \in Nat /\ rpos \in Nat /\ rpos <= Len(buf)
  BY StreamFacts DEF BufferHolds
<1>2. Buffered \in Nat /\ Offset \in Nat /\ origin <= Offset /\ Offset + Buffered = fed
  <2>1. Buffered \in Nat
    BY <1>1 DEF Buffered
  <2>2. Buffered <= fed - origin
    BY DEF BufferHolds
  <2> QED  BY <1>1, <2>1, <2>2 DEF Offset
<1>3. /\ Arrived \in Seq(Nat) /\ Len(Arrived) = fed /\ Begins(Arrived, stream.units)
      /\ \A i \in 1..fed : Arrived[i] = stream.units[i]
  BY ArrivedFacts, Zenon DEF BufferHolds
<1>4. ASSUME NEW i \in 1..Buffered
      PROVE  buf[rpos + i] = Arrived[Offset + i]
  <2>1. Offset + i \in 1..fed
    BY <1>1, <1>2
  <2>2. buf[rpos + i] = stream.units[Offset + i]
    BY Zenon DEF BufferHolds
  <2> QED  BY <1>3, <2>1, <2>2
<1> QED  BY <1>1, <1>2, <1>3, <1>4

(* The header and the body at rpos are those at its offset of the units.   *)
LEMMA HeaderFacts ==
  ASSUME BufferHolds, Buffered >= kHeaderSize
  PROVE  /\ Offset + kHeaderSize <= Len(Arrived)
         /\ \A i \in 0..6 : Field(i) = Arrived[Offset + i + 1] /\ Field(i) \in Nat
         /\ Plausible <=> HeaderAt(Arrived, Offset)
         /\ BodyLen \in Nat /\ EndAt(Arrived, Offset) = Offset + FrameLen
         /\ Buffered >= FrameLen => (fletcher16(Body) = Field(6) <=>
              fletcher16(SubSeq(Arrived, Offset + kHeaderSize + 1, EndAt(Arrived, Offset))) = Arrived[Offset + 7])
<1>1. /\ fed \in Nat /\ buf \in Seq(Nat) /\ Len(buf) \in Nat /\ rpos \in Nat /\ rpos <= Len(buf)
      /\ Buffered \in Nat /\ Offset \in Nat /\ Offset + Buffered = fed
      /\ Arrived \in Seq(Nat) /\ Len(Arrived) = fed
      /\ \A i \in 1..Buffered : buf[rpos + i] = Arrived[Offset + i]
  BY BufferFacts
<1>2. Offset + kHeaderSize <= Len(Arrived) /\ Buffered >= 7
  BY <1>1 DEF kHeaderSize
<1>3. ASSUME NEW i \in 0..6
      PROVE  Field(i) = Arrived[Offset + i + 1] /\ Field(i) \in Nat
  <2>1. i + 1 \in 1..Buffered /\ rpos + (i + 1) = rpos + 1 + i /\ Offset + (i + 1) = Offset + i + 1
        /\ Offset + i + 1 \in 1..Len(Arrived)
    <3>1. /\ fed \in Nat /\ rpos \in Nat /\ Buffered \in Nat /\ Offset \in Nat
          /\ Offset + Buffered = fed /\ Len(Arrived) = fed /\ Buffered >= 7
      BY <1>1, <1>2
    <3> QED  BY <3>1
  <2>2. buf[rpos + (i + 1)] = Arrived[Offset + (i + 1)]
    BY <1>1, <2>1, Zenon
  <2>3. Arrived[Offset + i + 1] \in Nat
    BY <1>1, <2>1, ElementOfSeq
  <2> QED  BY <2>1, <2>2, <2>3 DEF Field
<1>4. /\ Field(0) = Arrived[Offset + 1] /\ Field(1) = Arrived[Offset + 2] /\ Field(2) = Arrived[Offset + 3]
      /\ Field(3) = Arrived[Offset + 4] /\ Field(4) = Arrived[Offset + 5] /\ Field(6) = Arrived[Offset + 7]
      /\ Field(4) \in Nat
  <2>1. /\ Offset + 0 + 1 = Offset + 1 /\ Offset + 1 + 1 = Offset + 2 /\ Offset + 2 + 1 = Offset + 3
        /\ Offset + 3 + 1 = Offset + 4 /\ Offset + 4 + 1 = Offset + 5 /\ Offset + 6 + 1 = Offset + 7
    BY <1>1
  <2>2. /\ Field(0) = Arrived[Offset + 0 + 1] /\ Field(1) = Arrived[Offset + 1 + 1]
        /\ Field(2) = Arrived[Offset + 2 + 1] /\ Field(3) = Arrived[Offset + 3 + 1]
        /\ Field(4) = Arrived[Offset + 4 + 1] /\ Field(6) = Arrived[Offset + 6 + 1] /\ Field(4) \in Nat
    BY <1>3
  <2> QED  BY <2>1, <2>2
<1>5. Plausible <=> HeaderAt(Arrived, Offset)
  BY <1>2, <1>4, Zenon DEF Plausible, HeaderAt, Known, BodyLen
<1>6. BodyLen \in Nat /\ EndAt(Arrived, Offset) = Offset + FrameLen /\ FrameLen = kHeaderSize + BodyLen
  BY <1>1, <1>4 DEF BodyLen, EndAt, FrameLen, kHeaderSize
<1>7. ASSUME Buffered >= FrameLen
      PROVE  Body = SubSeq(Arrived, Offset + kHeaderSize + 1, EndAt(Arrived, Offset))
  <2> DEFINE a == rpos + kHeaderSize + 1
             b == rpos + kHeaderSize + BodyLen
             d == Offset - rpos
             arrived == Arrived
  <2>1. /\ a \in Nat /\ b \in Nat /\ d \in Int /\ 1 <= a /\ b <= Len(buf) /\ a + d >= 1
        /\ b + d <= Len(Arrived) /\ a + d = Offset + kHeaderSize + 1 /\ b + d = EndAt(Arrived, Offset)
    <3>1. Buffered = Len(buf) - rpos
      BY DEF Buffered
    <3> HIDE DEF arrived
    <3> QED  BY <1>1, <1>6, <1>7, <3>1 DEF kHeaderSize
  <2>2. ASSUME NEW i \in a..b PROVE Arrived[i + d] = buf[i]
    <3>1. i - rpos \in 1..Buffered /\ rpos + (i - rpos) = i /\ Offset + (i - rpos) = i + d
      BY <1>1, <1>6, <1>7, <2>1 DEF kHeaderSize
    <3> QED  BY <1>1, <3>1, Zenon
  <2>3. Body = SubSeq(buf, a, b)
    BY DEF Body
  <2> HIDE DEF a, b, d
  <2>4. SubSeq(buf, a, b) = SubSeq(Arrived, a + d, b + d)
    <3>1. /\ buf \in Seq(Nat) /\ arrived \in Seq(Nat) /\ a \in Nat /\ b \in Nat /\ d \in Int
          /\ 1 <= a /\ b <= Len(buf) /\ a + d >= 1 /\ b + d <= Len(arrived)
          /\ \A i \in a..b : arrived[i + d] = buf[i]
      BY <1>1, <2>1, <2>2, Zenon
    <3> HIDE DEF arrived
    <3>2. SubSeq(buf, a, b) = SubSeq(arrived, a + d, b + d)
      BY <3>1, SameRange
    <3> QED  BY <3>2 DEF arrived
  <2> QED  BY <2>1, <2>3, <2>4, Zenon
<1> QED  BY <1>2, <1>3, <1>4, <1>5, <1>6, <1>7, Zenon

(* So next() takes what is at rpos for what it is.                         *)
LEMMA Judged ==
  ASSUME BufferHolds, Buffered >= kHeaderSize
  PROVE  /\ Plausible /\ Buffered >= FrameLen /\ fletcher16(Body) = Field(6) => FrameAt(Arrived, Offset)
         /\ ~Plausible \/ (Plausible /\ Buffered >= FrameLen /\ fletcher16(Body) # Field(6)) => Dead(Arrived, Offset)
         /\ Plausible /\ Buffered < FrameLen => StallsAt(Arrived, Offset)
<1>1. Len(Arrived) \in Nat /\ Offset \in Nat /\ Buffered \in Nat /\ Offset + Buffered = Len(Arrived)
  BY BufferFacts
<1>2. FrameLen \in Nat
  <2>1. BodyLen \in Nat
    BY HeaderFacts, Zenon
  <2> QED  BY <2>1 DEF FrameLen, kHeaderSize
<1>3. (Buffered >= FrameLen <=> Offset + FrameLen <= Len(Arrived)) /\ (Buffered < FrameLen <=> Offset + FrameLen > Len(Arrived))
  BY <1>1, <1>2
<1> QED  BY <1>3, HeaderFacts, Zenon DEF FrameAt, Dead, StallsAt

(* First is the least of a non-empty set of positions.                     *)
LEMMA FirstFacts ==
  ASSUME NEW S \in SUBSET Nat, S # {}
  PROVE  First(S) \in S /\ \A q \in S : First(S) <= q
<1>1. \E p \in S : \A q \in S : p <= q
  BY LeastNatural
<1> QED  BY <1>1, Zenon DEF First

(* The hunt passes over no magic and goes forward.                         *)
LEMMA HuntFacts ==
  ASSUME BufferHolds, Buffered >= kHeaderSize
  PROVE  /\ Hunt \in (rpos + 1)..(Len(buf) - 1)
         /\ \A p \in (rpos + 1)..(Hunt - 1) : p + 2 <= Len(buf) /\ <<buf[p + 1], buf[p + 2]>> # kMagic
         /\ MagicsAfter(rpos) = {} => Len(buf) - Hunt = 1
<1>1. rpos \in Nat /\ Len(buf) \in Nat /\ Len(buf) >= rpos + 7
  BY BufferFacts DEF Buffered, kHeaderSize
<1>2. CASE MagicsAfter(rpos) = {}
  <2>1. Hunt = Len(buf) - 1
    BY <1>2 DEF Hunt
  <2>2. ASSUME NEW p \in (rpos + 1)..(Hunt - 1)
        PROVE  p + 2 <= Len(buf) /\ <<buf[p + 1], buf[p + 2]>> # kMagic
    <3>1. p \in (rpos + 1)..(Len(buf) - 2) /\ p + 2 <= Len(buf)
      BY <1>1, <2>1
    <3> QED  BY <1>2, <3>1 DEF MagicsAfter
  <2> QED  BY <1>1, <2>1, <2>2
<1>3. CASE MagicsAfter(rpos) # {}
  <2>1. MagicsAfter(rpos) \in SUBSET Nat
    BY <1>1 DEF MagicsAfter
  <2>2. Hunt \in MagicsAfter(rpos) /\ \A q \in MagicsAfter(rpos) : Hunt <= q
    BY <1>3, <2>1, FirstFacts DEF Hunt
  <2>3. Hunt \in (rpos + 1)..(Len(buf) - 2)
    BY <2>2 DEF MagicsAfter
  <2>4. ASSUME NEW p \in (rpos + 1)..(Hunt - 1)
        PROVE  p + 2 <= Len(buf) /\ <<buf[p + 1], buf[p + 2]>> # kMagic
    <3>1. p \in (rpos + 1)..(Len(buf) - 2) /\ p + 2 <= Len(buf) /\ ~(Hunt <= p)
      BY <1>1, <2>3
    <3> QED  BY <2>2, <3>1 DEF MagicsAfter
  <2> QED  BY <1>1, <1>3, <2>3, <2>4
<1> QED  BY <1>2, <1>3

(* rpos moves forward and the buffer is compacted.                         *)
LEMMA Moved ==
  ASSUME BufferHolds, NEW r \in rpos..Len(buf), compact(r, << >>), UNCHANGED <<stream, fed, origin>>
  PROVE  /\ buf' \in Seq(Nat) /\ rpos' \in 0..Len(buf')
         /\ Buffered' = Buffered - (r - rpos) /\ Offset' = Offset + (r - rpos)
         /\ Buffered' <= fed - origin
         /\ (\A i \in 1..Buffered : buf[rpos + i] = stream.units[Offset + i])'
<1>1. /\ fed \in Nat /\ buf \in Seq(Nat) /\ Len(buf) \in Nat /\ rpos \in Nat /\ r \in Nat
      /\ rpos <= r /\ r <= Len(buf) /\ r \in 0..Len(buf)
      /\ Buffered \in Nat /\ Offset \in Nat /\ origin \in Nat /\ origin <= Offset /\ Offset + Buffered = fed
  BY BufferFacts
<1>2. << >> \in Seq(Nat) /\ Len(<< >>) = 0
  BY EmptySeq
<1>3. /\ buf' \in Seq(Nat) /\ rpos' \in 0..Len(buf')
      /\ Len(buf') - rpos' = Len(buf) - r + Len(<< >>)
      /\ \A i \in 1..(Len(buf) - r) : buf'[rpos' + i] = buf[r + i]
  BY <1>1, <1>2, CompactFacts, Zenon
<1>4. Buffered = Len(buf) - rpos /\ Buffered' = Len(buf') - rpos' /\ Offset' = fed - Buffered' /\ Offset = fed - Buffered
  BY DEF Buffered, Offset
<1>5. Len(buf') \in Nat /\ rpos' \in Nat
  BY <1>3
<1>6. Buffered' = Len(buf) - r /\ Buffered' = Buffered - (r - rpos) /\ Offset' = Offset + (r - rpos)
      /\ Buffered' <= fed - origin
  BY <1>1, <1>2, <1>3, <1>4, <1>5, SMTT(40)
<1>7. ASSUME NEW i \in 1..(Len(buf) - r)
      PROVE  buf'[rpos' + i] = stream.units[Offset' + i]
  <2>1. (r - rpos) + i \in 1..Buffered /\ rpos + ((r - rpos) + i) = r + i
        /\ Offset + ((r - rpos) + i) = Offset' + i
    BY <1>1, <1>4, <1>6
  <2>2. buf[rpos + ((r - rpos) + i)] = stream.units[Offset + ((r - rpos) + i)]
    BY <2>1 DEF BufferHolds
  <2> QED  BY <1>3, <2>1, <2>2
<1> QED  BY <1>3, <1>6, <1>7, Zenon

(* Every step keeps the buffer what is left of the units that arrived, and *)
(* counts the bytes it takes from it.                                      *)
LEMMA BufferKept ==
  ASSUME BufferHolds, [Next]_vars
  PROVE  BufferHolds'
<1>1. /\ fed \in Nat /\ buf \in Seq(Nat) /\ Len(buf) \in Nat /\ rpos \in Nat /\ rpos <= Len(buf)
      /\ stream.units \in Seq(Nat) /\ Len(stream.units) \in Nat /\ fed <= Len(stream.units)
      /\ Buffered \in Nat /\ Offset \in Nat /\ origin \in Nat /\ origin <= Offset /\ Offset + Buffered = fed
  BY BufferFacts
<1>2. ASSUME NEW n \in 1..Len(stream.units), feed(n)
      PROVE  BufferHolds'
  <2> DEFINE tail == SubSeq(stream.units, fed + 1, fed + n)
             u == stream.units
  <2>1. /\ ~calling /\ n \in 1..(Len(u) - fed) /\ compact(rpos, tail)
        /\ fed' = fed + n /\ drained' = FALSE
        /\ UNCHANGED <<counts, calling, stream, origin>>
    BY <1>2 DEF feed
  <2>2. tail \in Seq(Nat) /\ Len(tail) = n /\ \A i \in 1..n : tail[i] = u[fed + i]
    <3> DEFINE a == fed + 1
               b == fed + n
    <3>1. /\ a \in Nat /\ b \in Nat /\ 1 <= a /\ b <= Len(u) /\ a + 0 >= 1 /\ b + 0 <= Len(u) /\ 0 \in Int
          /\ (\A i \in a..b : u[i + 0] = u[i]) /\ u \in Seq(Nat) /\ a <= b /\ b - a + 1 = n
      BY <1>1, <2>1
    <3>2. \A i \in 1..n : a + i - 1 = fed + i
      BY <1>1
    <3> HIDE DEF a, b, u
    <3>3. /\ SubSeq(u, a, b) \in Seq(Nat) /\ Len(SubSeq(u, a, b)) = (IF a <= b THEN b - a + 1 ELSE 0)
          /\ \A i \in 1..(b - a + 1) : SubSeq(u, a, b)[i] = u[a + i - 1]
      BY <3>1, SameRange
    <3>4. Len(SubSeq(u, a, b)) = n
      BY <3>1, <3>3
    <3>5. \A i \in 1..n : SubSeq(u, a, b)[i] = u[fed + i]
      BY <3>1, <3>2, <3>3
    <3> QED  BY <3>3, <3>4, <3>5, Zenon DEF a, b, u
  <2> HIDE DEF tail
  <2>3. /\ buf' \in Seq(Nat) /\ rpos' \in 0..Len(buf')
        /\ Len(buf') - rpos' = Len(buf) - rpos + n
        /\ \A i \in 1..(Len(buf) - rpos) : buf'[rpos' + i] = buf[rpos + i]
        /\ \A i \in 1..n : buf'[rpos' + (Len(buf) - rpos) + i] = tail[i]
    <3>1. rpos \in 0..Len(buf)
      BY <1>1
    <3> QED  BY <1>1, <2>1, <2>2, <3>1, CompactFacts, Zenon
  <2>4. Buffered = Len(buf) - rpos /\ Buffered' = Len(buf') - rpos' /\ Offset' = fed' - Buffered' /\ Offset = fed - Buffered
    BY DEF Buffered, Offset
  <2>5. Len(buf') \in Nat /\ rpos' \in Nat
    BY <2>3
  <2>6. Buffered' = Buffered + n /\ Offset' = Offset
    BY <1>1, <2>1, <2>3, <2>4, <2>5
  <2>7. ASSUME NEW i \in 1..(Buffered + n)
        PROVE  buf'[rpos' + i] = u[Offset + i]
    <3>1. CASE i <= Buffered
      <4>1. i \in 1..Buffered /\ i \in 1..(Len(buf) - rpos)
        BY <1>1, <2>4, <3>1
      <4>2. buf[rpos + i] = u[Offset + i]
        BY <4>1, Zenon DEF BufferHolds
      <4> QED  BY <2>3, <4>1, <4>2
    <3>2. CASE ~(i <= Buffered)
      <4> DEFINE k == i - Buffered
      <4>1. k \in 1..n /\ rpos' + (Len(buf) - rpos) + k = rpos' + i /\ fed + k = Offset + i
        <5>1. /\ rpos \in Nat /\ rpos' \in Nat /\ Buffered \in Nat /\ Offset \in Nat /\ fed \in Nat
              /\ Len(buf) \in Nat /\ Buffered = Len(buf) - rpos /\ Offset + Buffered = fed /\ i \in Nat
              /\ n \in Nat /\ i <= Buffered + n /\ i > Buffered
          BY <1>1, <2>4, <2>5, <3>2
        <5> QED  BY <5>1, SMTT(40)
      <4> HIDE DEF k
      <4>2. buf'[rpos' + (Len(buf) - rpos) + k] = tail[k] /\ tail[k] = u[fed + k]
        BY <2>2, <2>3, <4>1, Zenon
      <4> QED  BY <4>1, <4>2
    <3> QED  BY <3>1, <3>2
  <2>8. fed' \in 0..Len(u) /\ origin \in 0..fed' /\ Buffered' <= fed' - origin
        /\ bytes_consumed + bytes_discarded + Buffered' = fed' - origin
    <3>1. bytes_consumed \in Int /\ bytes_discarded \in Int /\ bytes_consumed + bytes_discarded + Buffered = fed - origin
      BY DEF BufferHolds
    <3> QED  BY <1>1, <2>1, <2>6, <3>1
  <2>9. \A i \in 1..Buffered' : buf'[rpos' + i] = stream'.units[Offset' + i]
    BY <2>1, <2>6, <2>7
  <2> QED  BY <2>1, <2>3, <2>8, <2>9, Zenon DEF BufferHolds, counts
<1>3. ASSUME NEW r \in rpos..Len(buf), compact(r, << >>), UNCHANGED <<stream, fed, origin>>,
             bytes_consumed' \in Int, bytes_discarded' \in Int,
             bytes_consumed' + bytes_discarded' = bytes_consumed + bytes_discarded + (r - rpos),
             calling' \in BOOLEAN, drained' \in BOOLEAN, ~(calling' /\ drained')
      PROVE  BufferHolds'
  <2>1. /\ buf' \in Seq(Nat) /\ rpos' \in 0..Len(buf')
        /\ Buffered' = Buffered - (r - rpos) /\ Offset' = Offset + (r - rpos)
        /\ Buffered' <= fed - origin
        /\ (\A i \in 1..Buffered : buf[rpos + i] = stream.units[Offset + i])'
    BY <1>3, Moved
  <2>2. bytes_consumed' + bytes_discarded' + Buffered' = fed - origin
    <3>1. bytes_consumed \in Int /\ bytes_discarded \in Int /\ bytes_consumed + bytes_discarded + Buffered = fed - origin
      BY DEF BufferHolds
    <3>2. r \in Nat
      BY <1>1
    <3>3. Buffered' = Buffered - (r - rpos) /\ Buffered \in Nat /\ rpos \in Nat /\ fed \in Nat /\ origin \in Nat
      BY <1>1, <2>1, Zenon
    <3>4. bytes_consumed' + bytes_discarded' = bytes_consumed + bytes_discarded + (r - rpos)
      BY <1>3, Zenon
    <3> DEFINE c == bytes_consumed' + bytes_discarded'
               b == Buffered'
    <3>5. c = bytes_consumed + bytes_discarded + (r - rpos) /\ b = Buffered - (r - rpos)
      BY <3>3, <3>4
    <3> HIDE DEF c, b
    <3>6. c + b = fed - origin
      BY <3>1, <3>2, <3>3, <3>5
    <3> QED  BY <3>6 DEF c, b
  <2>3. stream' \in Streams /\ fed' \in 0..Len(stream'.units) /\ origin' \in 0..fed'
    BY <1>3 DEF BufferHolds
  <2> QED  BY <1>3, <2>1, <2>2, <2>3, Zenon DEF BufferHolds
<1>4. ASSUME Call \/ Wait \/ UNCHANGED vars
      PROVE  BufferHolds'
  <2>1. /\ UNCHANGED <<buf, rpos, stream, fed, origin, bytes_consumed, bytes_discarded>>
        /\ calling' \in BOOLEAN /\ drained' \in BOOLEAN /\ ~(calling' /\ drained')
    <3>1. calling \in BOOLEAN /\ drained \in BOOLEAN /\ ~(calling /\ drained)
      BY DEF BufferHolds
    <3>2. CASE Call
      BY <3>2, Zenon DEF Call, counts, source
    <3>3. CASE Wait
      BY <3>3, Zenon DEF Wait, counts, source
    <3>4. CASE UNCHANGED vars
      BY <3>1, <3>4, Zenon DEF vars, counts, source
    <3> QED  BY <1>4, <3>2, <3>3, <3>4, Zenon
  <2>2. Buffered' = Buffered /\ Offset' = Offset
    BY <2>1 DEF Buffered, Offset
  <2> QED  BY <2>1, <2>2, Zenon DEF BufferHolds
<1>5. ASSUME resync
      PROVE  BufferHolds'
  <2>1. Hunt \in rpos..Len(buf) /\ Hunt \in Int
    BY <1>1, <1>5, HuntFacts DEF resync
  <2>2. /\ compact(Hunt, << >>) /\ UNCHANGED <<stream, fed, origin, bytes_consumed>>
        /\ bytes_discarded' = bytes_discarded + (Hunt - rpos)
        /\ calling' \in BOOLEAN /\ drained' \in BOOLEAN /\ ~(calling' /\ drained')
    BY <1>5, Zenon DEF resync, source
  <2>3. bytes_discarded \in Int /\ bytes_consumed \in Int
    BY DEF BufferHolds
  <2>4. bytes_discarded' \in Int /\ bytes_consumed' \in Int
        /\ bytes_consumed' + bytes_discarded' = bytes_consumed + bytes_discarded + (Hunt - rpos)
    BY <1>1, <2>1, <2>2, <2>3
  <2> QED  BY <1>3, <2>1, <2>2, <2>4, Zenon
<1>6. ASSUME Deliver \/ SkipUnknown
      PROVE  BufferHolds'
  <2>1. Consume /\ calling' \in BOOLEAN /\ drained' = drained /\ (calling' = FALSE \/ calling' = calling)
    BY <1>6, Zenon DEF Deliver, SkipUnknown, BufferHolds
  <2>2. /\ calling /\ Buffered >= kHeaderSize /\ Buffered >= FrameLen /\ compact(rpos + FrameLen, << >>)
        /\ bytes_consumed' = bytes_consumed + FrameLen /\ UNCHANGED <<bytes_discarded, stream, fed, origin>>
    BY <2>1 DEF Consume, source
  <2>3. FrameLen \in Nat
    <3>1. BodyLen \in Nat
      BY <2>2, HeaderFacts, Zenon
    <3> QED  BY <3>1 DEF FrameLen, kHeaderSize
  <2> DEFINE r == rpos + FrameLen
  <2>4. r \in rpos..Len(buf) /\ r - rpos = FrameLen
    BY <1>1, <2>2, <2>3 DEF Buffered
  <2>5. bytes_discarded \in Int /\ bytes_consumed \in Int /\ drained = FALSE
    BY <2>2 DEF BufferHolds
  <2>6. bytes_discarded' \in Int /\ bytes_consumed' \in Int
        /\ bytes_consumed' + bytes_discarded' = bytes_consumed + bytes_discarded + (r - rpos)
    BY <2>2, <2>3, <2>4, <2>5
  <2> HIDE DEF r
  <2>7. compact(r, << >>)
    BY <2>2 DEF r
  <2> QED  BY <1>3, <2>1, <2>2, <2>4, <2>5, <2>6, <2>7, Zenon
<1>7. ASSUME reset
      PROVE  BufferHolds'
  <2>1. /\ buf' = << >> /\ rpos' = 0 /\ bytes_consumed' = 0 /\ bytes_discarded' = 0
        /\ drained' = FALSE /\ origin' = fed /\ UNCHANGED <<calling, stream, fed>>
    BY <1>7 DEF reset
  <2>2. buf' \in Seq(Nat) /\ Len(buf') = 0
    BY <2>1, EmptySeq
  <2>3. Buffered' = 0 /\ Offset' = fed
    BY <1>1, <2>1, <2>2 DEF Buffered, Offset
  <2>4. \A i \in 1..Buffered' : buf'[rpos' + i] = stream'.units[Offset' + i]
    BY <2>3
  <2>5. rpos' \in 0..Len(buf') /\ origin' \in 0..fed' /\ Buffered' <= fed' - origin'
        /\ bytes_consumed' + bytes_discarded' + Buffered' = fed' - origin' /\ bytes_consumed' \in Int /\ bytes_discarded' \in Int
    BY <1>1, <2>1, <2>2, <2>3
  <2>6. stream' \in Streams /\ fed' \in 0..Len(stream'.units) /\ calling' \in BOOLEAN /\ drained' \in BOOLEAN
        /\ ~(calling' /\ drained')
    BY <2>1, Zenon DEF BufferHolds
  <2> QED  BY <2>2, <2>4, <2>5, <2>6, Zenon DEF BufferHolds
<1> QED  BY <1>2, <1>4, <1>5, <1>6, <1>7 DEF Next, next

-----------------------------------------------------------------------------
(* Where the i-th frame of ps ends.                                        *)
EndOf(s, ps, lo, i) == IF i = 0 THEN lo ELSE EndAt(s, ps[i])

(* From lo to hi the units s are the frames ps, and dead between them.     *)
Scanned(s, ps, lo, hi) ==
    /\ s \in Seq(Nat) /\ ps \in Seq(Nat) /\ lo \in Nat /\ hi \in Nat
    /\ \A i \in 1..Len(ps) :
         /\ FrameAt(s, ps[i]) /\ EndOf(s, ps, lo, i - 1) <= ps[i]
         /\ \A q \in EndOf(s, ps, lo, i - 1)..(ps[i] - 1) : Dead(s, q)
    /\ EndOf(s, ps, lo, Len(ps)) <= hi
    /\ \A q \in EndOf(s, ps, lo, Len(ps))..(hi - 1) : Dead(s, q)

(* Where a frame ends.                                                     *)
LEMMA FrameEnds ==
  ASSUME NEW s \in Seq(Nat), NEW q \in Nat, FrameAt(s, q)
  PROVE  EndAt(s, q) \in Nat /\ q + 7 <= EndAt(s, q) /\ EndAt(s, q) <= Len(s) /\ q + 7 <= Len(s)
<1>1. q + 7 <= Len(s) /\ EndAt(s, q) <= Len(s)
  BY DEF FrameAt, HeaderAt, kHeaderSize
<1>2. s[q + 5] \in Nat
  BY <1>1, ElementOfSeq
<1> QED  BY <1>1, <1>2 DEF EndAt, kHeaderSize

(* Where the frames of a scan end.                                         *)
LEMMA EndFacts ==
  ASSUME NEW s, NEW ps, NEW lo, NEW hi, Scanned(s, ps, lo, hi)
  PROVE  /\ Len(ps) \in Nat /\ \A i \in 1..Len(ps) : ps[i] \in Nat
         /\ \A i \in 0..Len(ps) : EndOf(s, ps, lo, i) \in Nat
<1>1. s \in Seq(Nat) /\ ps \in Seq(Nat) /\ lo \in Nat /\ Len(ps) \in Nat
  BY DEF Scanned
<1>2. \A i \in 1..Len(ps) : ps[i] \in Nat
  BY <1>1, ElementOfSeq
<1>3. ASSUME NEW i \in 0..Len(ps) PROVE EndOf(s, ps, lo, i) \in Nat
  <2>1. CASE i = 0
    BY <1>1, <2>1 DEF EndOf
  <2>2. CASE i # 0
    <3>1. i \in 1..Len(ps)
      BY <1>1, <2>2
    <3>2. ps[i] \in Nat /\ FrameAt(s, ps[i])
      BY <1>2, <3>1 DEF Scanned
    <3> QED  BY <1>1, <2>2, <3>2, FrameEnds DEF EndOf
  <2> QED  BY <2>1, <2>2
<1> QED  BY <1>1, <1>2, <1>3

(* Units that follow change nothing of it.                                 *)
LEMMA ScannedKept ==
  ASSUME NEW s, NEW t, Begins(s, t), NEW ps, NEW lo, NEW hi, Scanned(s, ps, lo, hi)
  PROVE  Scanned(t, ps, lo, hi)
<1>1. /\ s \in Seq(Nat) /\ t \in Seq(Nat) /\ ps \in Seq(Nat) /\ lo \in Nat /\ hi \in Nat /\ Len(ps) \in Nat
      /\ \A i \in 1..Len(ps) : ps[i] \in Nat
      /\ \A i \in 0..Len(ps) : EndOf(s, ps, lo, i) \in Nat
  BY EndFacts, Zenon DEF Begins, Scanned
<1>2. ASSUME NEW i \in 1..Len(ps)
      PROVE  FrameAt(t, ps[i]) /\ EndAt(t, ps[i]) = EndAt(s, ps[i])
  <2>1. ps[i] \in Nat /\ FrameAt(s, ps[i])
    BY <1>1 DEF Scanned
  <2> QED  BY <2>1, FrameKept
<1>3. ASSUME NEW i \in 0..Len(ps) PROVE EndOf(t, ps, lo, i) = EndOf(s, ps, lo, i)
  <2>1. CASE i = 0
    BY <2>1 DEF EndOf
  <2>2. CASE i # 0
    <3>1. i \in 1..Len(ps)
      BY <1>1, <2>2
    <3> QED  BY <1>2, <2>2, <3>1, Zenon DEF EndOf
  <2> QED  BY <2>1, <2>2
<1>4. ASSUME NEW i \in 1..Len(ps)
      PROVE  /\ FrameAt(t, ps[i]) /\ EndOf(t, ps, lo, i - 1) <= ps[i]
             /\ \A q \in EndOf(t, ps, lo, i - 1)..(ps[i] - 1) : Dead(t, q)
  <2>1. i - 1 \in 0..Len(ps)
    BY <1>1
  <2> DEFINE e == EndOf(s, ps, lo, i - 1)
  <2>2. EndOf(t, ps, lo, i - 1) = e /\ e \in Nat
    BY <1>1, <1>3, <2>1
  <2>3. e <= ps[i] /\ \A q \in e..(ps[i] - 1) : Dead(s, q)
    BY DEF Scanned
  <2> HIDE DEF e
  <2>4. ASSUME NEW q \in e..(ps[i] - 1) PROVE Dead(t, q)
    <3>1. q \in Nat
      BY <2>2
    <3> QED  BY <2>3, <3>1, DeadKept
  <2> QED  BY <1>2, <2>2, <2>3, <2>4
<1>5. /\ EndOf(t, ps, lo, Len(ps)) <= hi
      /\ \A q \in EndOf(t, ps, lo, Len(ps))..(hi - 1) : Dead(t, q)
  <2> DEFINE e == EndOf(s, ps, lo, Len(ps))
  <2>1. Len(ps) \in 0..Len(ps)
    BY <1>1
  <2>2. EndOf(t, ps, lo, Len(ps)) = e /\ e \in Nat
    BY <1>1, <1>3, <2>1
  <2>3. e <= hi /\ \A q \in e..(hi - 1) : Dead(s, q)
    BY DEF Scanned
  <2> HIDE DEF e
  <2>4. ASSUME NEW q \in e..(hi - 1) PROVE Dead(t, q)
    <3>1. q \in Nat
      BY <2>2
    <3> QED  BY <2>3, <3>1, DeadKept
  <2> QED  BY <2>2, <2>3, <2>4
<1> QED  BY <1>1, <1>4, <1>5 DEF Scanned

(* More that is dead.                                                      *)
LEMMA ScannedFurther ==
  ASSUME NEW s, NEW ps, NEW lo, NEW hi, Scanned(s, ps, lo, hi),
         NEW end \in Nat, hi <= end, \A q \in hi..(end - 1) : Dead(s, q)
  PROVE  Scanned(s, ps, lo, end)
<1> DEFINE e == EndOf(s, ps, lo, Len(ps))
<1>1. Len(ps) \in Nat /\ hi \in Nat /\ e \in Nat /\ e <= hi /\ \A q \in e..(hi - 1) : Dead(s, q)
  <2>1. hi \in Nat /\ e <= hi /\ \A q \in e..(hi - 1) : Dead(s, q)
    BY Zenon DEF Scanned
  <2>2. Len(ps) \in Nat /\ \A i \in 0..Len(ps) : EndOf(s, ps, lo, i) \in Nat
    BY EndFacts, Zenon
  <2>3. Len(ps) \in 0..Len(ps)
    BY <2>2
  <2> QED  BY <2>1, <2>2, <2>3, Zenon
<1> HIDE DEF e
<1>2. e <= end
  BY <1>1
<1>3. ASSUME NEW q \in e..(end - 1) PROVE Dead(s, q)
  <2>1. q \in e..(hi - 1) \/ q \in hi..(end - 1)
    BY <1>1
  <2> QED  BY <1>1, <2>1
<1> QED  BY <1>2, <1>3 DEF Scanned, e

(* One more frame.                                                         *)
LEMMA ScannedFrame ==
  ASSUME NEW s, NEW ps, NEW lo, NEW hi, Scanned(s, ps, lo, hi), FrameAt(s, hi)
  PROVE  Scanned(s, Append(ps, hi), lo, EndAt(s, hi))
<1> DEFINE qs == Append(ps, hi)
           n == Len(ps)
<1>1. s \in Seq(Nat) /\ ps \in Seq(Nat) /\ lo \in Nat /\ hi \in Nat /\ n \in Nat
  BY DEF Scanned
<1>2. qs \in Seq(Nat) /\ Len(qs) = n + 1 /\ qs[n + 1] = hi /\ \A i \in 1..n : qs[i] = ps[i]
  BY <1>1, AppendProperties
<1>3. EndAt(s, hi) \in Nat
  BY <1>1, FrameEnds
<1> HIDE DEF qs
<1>4. ASSUME NEW i \in 0..n PROVE EndOf(s, qs, lo, i) = EndOf(s, ps, lo, i)
  <2>1. CASE i = 0
    BY <2>1 DEF EndOf
  <2>2. CASE i # 0
    <3>1. i \in 1..n
      BY <1>1, <2>2
    <3> QED  BY <1>2, <2>2, <3>1, Zenon DEF EndOf
  <2> QED  BY <2>1, <2>2
<1>5. ASSUME NEW i \in 1..(n + 1)
      PROVE  /\ FrameAt(s, qs[i]) /\ EndOf(s, qs, lo, i - 1) <= qs[i]
             /\ \A q \in EndOf(s, qs, lo, i - 1)..(qs[i] - 1) : Dead(s, q)
  <2>1. EndOf(s, qs, lo, i - 1) = EndOf(s, ps, lo, i - 1)
    <3>1. i - 1 \in 0..n
      BY <1>1
    <3> QED  BY <1>4, <3>1
  <2>2. CASE i \in 1..n
    BY <1>2, <2>1, <2>2, Zenon DEF Scanned
  <2>3. CASE i = n + 1
    <3>1. i - 1 = n
      BY <1>1, <2>3
    <3> QED  BY <1>2, <2>1, <2>3, <3>1, Zenon DEF Scanned
  <2> QED  BY <1>1, <2>2, <2>3
<1>6. EndOf(s, qs, lo, n + 1) = EndAt(s, hi)
  <2>1. n + 1 # 0
    BY <1>1
  <2> QED  BY <1>2, <2>1, Zenon DEF EndOf
<1>7. EndAt(s, hi) <= EndAt(s, hi) /\ \A q \in EndAt(s, hi)..(EndAt(s, hi) - 1) : FALSE
  BY <1>3
<1>8. Scanned(s, qs, lo, EndAt(s, hi))
  BY <1>1, <1>2, <1>3, <1>5, <1>6, <1>7, Zenon DEF Scanned
<1> QED  BY <1>8 DEF qs

(* When no frame is complete at hi, they are all the frames of s.          *)
LEMMA ScannedAll ==
  ASSUME NEW s, NEW ps, NEW lo, NEW hi, Scanned(s, ps, lo, hi),
         Len(s) < hi + kHeaderSize \/ StallsAt(s, hi)
  PROVE  AreFrames(ps, s, lo)
<1> DEFINE Candidates(p) == {q \in p..(Len(s) - 1) : FrameAt(s, q) \/ StallsAt(s, q)}
           n == Len(ps)
<1>1. /\ s \in Seq(Nat) /\ ps \in Seq(Nat) /\ lo \in Nat /\ hi \in Nat /\ n \in Nat /\ Len(s) \in Nat
      /\ DOMAIN ps = 1..n
      /\ \A i \in 1..n : ps[i] \in Nat
      /\ \A i \in 0..n : EndOf(s, ps, lo, i) \in Nat
  <2>1. s \in Seq(Nat) /\ ps \in Seq(Nat) /\ lo \in Nat /\ hi \in Nat
    BY Zenon DEF Scanned
  <2>2. n \in Nat /\ Len(s) \in Nat /\ DOMAIN ps = 1..n
    BY <2>1
  <2>3. (\A i \in 1..n : ps[i] \in Nat) /\ \A i \in 0..n : EndOf(s, ps, lo, i) \in Nat
    BY EndFacts, Zenon
  <2> QED  BY <2>1, <2>2, <2>3, Zenon
<1>2. ASSUME NEW p \in Nat, NEW x \in Nat, p <= x, FrameAt(s, x) \/ StallsAt(s, x),
             \A q \in p..(x - 1) : Dead(s, q)
      PROVE  x = First(Candidates(p)) /\ Candidates(p) # {}
  <2>1. x + 7 <= Len(s)
    BY <1>2 DEF FrameAt, StallsAt, HeaderAt, kHeaderSize
  <2>2. x \in p..(Len(s) - 1)
    BY <1>1, <1>2, <2>1
  <2>3. x \in Candidates(p)
    BY <1>2, <2>2
  <2>4. ASSUME NEW q \in Candidates(p) PROVE x <= q /\ q \in Nat
    <3>1. q \in Nat /\ p <= q /\ (FrameAt(s, q) \/ StallsAt(s, q))
      BY <1>1, <2>4
    <3>2. ASSUME q < x PROVE FALSE
      <4>1. q \in p..(x - 1)
        BY <1>2, <3>1, <3>2
      <4> QED  BY <1>1, <1>2, <3>1, <4>1, DeadIsNone, Zenon
    <3> QED  BY <1>2, <3>1, <3>2
  <2> HIDE DEF Candidates
  <2>5. Candidates(p) \in SUBSET Nat /\ Candidates(p) # {}
    BY <2>3, <2>4, Zenon
  <2>6. First(Candidates(p)) \in Candidates(p) /\ First(Candidates(p)) <= x
    BY <2>3, <2>5, FirstFacts
  <2>7. x <= First(Candidates(p)) /\ First(Candidates(p)) \in Nat
    BY <2>4, <2>6
  <2> QED  BY <1>2, <2>5, <2>6, <2>7
<1>3. ASSUME NEW i \in 1..n
      PROVE  FrameAt(s, ps[i]) /\ ps[i] = First(Candidates(EndOf(s, ps, lo, i - 1)))
  <2>1. i - 1 \in 0..n
    BY <1>1
  <2> DEFINE e == EndOf(s, ps, lo, i - 1)
             x == ps[i]
  <2>2. e \in Nat /\ x \in Nat /\ FrameAt(s, x) /\ e <= x /\ \A q \in e..(x - 1) : Dead(s, q)
    BY <1>1, <2>1, Zenon DEF Scanned
  <2> HIDE DEF e, x, Candidates
  <2>3. x = First(Candidates(e))
    BY <1>2, <2>2, Zenon
  <2> QED  BY <2>2, <2>3 DEF e, x
<1>4. \/ Candidates(EndOf(s, ps, lo, n)) = {}
      \/ StallsAt(s, First(Candidates(EndOf(s, ps, lo, n))))
  <2> DEFINE e == EndOf(s, ps, lo, n)
  <2>1. e \in Nat /\ e <= hi /\ \A q \in e..(hi - 1) : Dead(s, q)
    <3>1. n \in 0..n
      BY <1>1
    <3> QED  BY <1>1, <3>1, Zenon DEF Scanned
  <2> HIDE DEF e
  <2>2. CASE StallsAt(s, hi)
    <3> HIDE DEF Candidates
    <3>1. hi = First(Candidates(e))
      BY <1>1, <1>2, <2>1, <2>2, Zenon
    <3> QED  BY <2>2, <3>1 DEF e
  <2>3. CASE Len(s) < hi + kHeaderSize
    <3>1. ASSUME NEW q \in Candidates(e) PROVE FALSE
      <4>1. q \in Nat /\ e <= q /\ (FrameAt(s, q) \/ StallsAt(s, q))
        BY <1>1, <2>1, <3>1
      <4>2. q + 7 <= Len(s) /\ Len(s) < hi + 7
        BY <2>3, <4>1 DEF FrameAt, StallsAt, HeaderAt, kHeaderSize
      <4>3. q \in e..(hi - 1)
        BY <1>1, <2>1, <4>1, <4>2
      <4> QED  BY <1>1, <2>1, <4>1, <4>3, DeadIsNone, Zenon
    <3> QED  BY <3>1 DEF e
  <2> QED  BY <2>2, <2>3
<1> QED  BY <1>1, <1>3, <1>4, Zenon DEF AreFrames, EndOf

-----------------------------------------------------------------------------
(* The part of the invariant about the frames: up to rpos the units are    *)
(* the frames decoded and what is dead, and a call that asked for more did *)
(* so where no frame is complete.                                          *)
ScanHolds ==
    /\ Scanned(Arrived, decoded, origin, Offset)
    /\ drained => fed < Offset + kHeaderSize \/ StallsAt(Arrived, Offset)

(* Wherever next() stands it took the bytes for what they are.             *)
LEMMA ScanKept ==
  ASSUME BufferHolds, ScanHolds, [Next]_vars
  PROVE  ScanHolds'
<1>1. /\ fed \in Nat /\ buf \in Seq(Nat) /\ Len(buf) \in Nat /\ rpos \in Nat /\ rpos <= Len(buf)
      /\ Buffered \in Nat /\ Offset \in Nat /\ origin \in Nat /\ origin <= Offset /\ Offset + Buffered = fed
      /\ Arrived \in Seq(Nat) /\ Len(Arrived) = fed
      /\ \A i \in 1..Buffered : buf[rpos + i] = Arrived[Offset + i]
  BY BufferFacts
<1>2. BufferHolds'
  BY BufferKept
<1>3. ASSUME NEW n \in 1..Len(stream.units), feed(n)
      PROVE  ScanHolds'
  <2>1. fed' = fed + n /\ drained' = FALSE /\ UNCHANGED <<stream, origin, decoded>> /\ n \in Nat
    BY <1>3 DEF feed
  <2>2. /\ Arrived' \in Seq(Nat) /\ Len(Arrived') = fed'
        /\ \A i \in 1..fed' : Arrived'[i] = stream.units[i]
    <3> DEFINE u == stream.units
               n1 == fed'
    <3>1. stream' \in Streams /\ fed' \in 0..Len(stream'.units)
      BY <1>2, Zenon DEF BufferHolds
    <3>2. n1 \in 0..Len(u) /\ u \in Seq(Nat)
      BY <2>1, <3>1, StreamFacts
    <3>3. Arrived' = SubSeq(u, 1, n1)
      BY <2>1 DEF Arrived
    <3>4. SubSeq(u, 1, n1) \in Seq(Nat) /\ Len(SubSeq(u, 1, n1)) = n1 /\ \A i \in 1..n1 : SubSeq(u, 1, n1)[i] = u[i]
      <4> HIDE DEF u, n1
      <4> QED  BY <3>2, PrefixFacts
    <3> QED  BY <3>3, <3>4, Zenon
  <2>3. \A i \in 1..fed : Arrived[i] = stream.units[i]
    BY ArrivedFacts DEF BufferHolds
  <2>4. Begins(Arrived, Arrived')
    <3>1. \A i \in 1..fed : i \in 1..fed'
      BY <1>1, <2>1
    <3>2. \A i \in 1..fed : Arrived'[i] = Arrived[i]
      BY <2>2, <2>3, <3>1
    <3>3. fed <= fed'
      BY <1>1, <2>1
    <3> QED  BY <1>1, <2>2, <3>2, <3>3, Zenon DEF Begins
  <2>5. Offset' = Offset
    <3>1. Buffered' = Buffered + n
      <4>1. /\ bytes_consumed + bytes_discarded + Buffered = fed - origin
            /\ bytes_consumed \in Int /\ bytes_discarded \in Int
        BY DEF BufferHolds
      <4>2. bytes_consumed' + bytes_discarded' + Buffered' = fed' - origin' /\ Buffered' \in Int
        <5>1. Buffered' \in Int
          <6>1. buf' \in Seq(Nat) /\ rpos' \in 0..Len(buf')
            BY <1>2, Zenon DEF BufferHolds
          <6> QED  BY <6>1 DEF Buffered
        <5> QED  BY <1>2, <5>1, Zenon DEF BufferHolds
      <4>3. bytes_consumed' = bytes_consumed /\ bytes_discarded' = bytes_discarded
        BY <1>3 DEF feed, counts
      <4> DEFINE c == bytes_consumed + bytes_discarded
                 b == Buffered'
      <4>4. c \in Int /\ b \in Int /\ c + Buffered = fed - origin /\ c + b = (fed + n) - origin
        BY <2>1, <4>1, <4>2, <4>3
      <4> HIDE DEF c, b
      <4>5. b = Buffered + n
        BY <1>1, <2>1, <4>4
      <4> QED  BY <4>5 DEF b
    <3>2. Offset' = fed' - Buffered' /\ Offset = fed - Buffered
      BY DEF Offset
    <3> QED  BY <1>1, <2>1, <3>1, <3>2
  <2>6. Scanned(Arrived', decoded, origin, Offset)
    BY <2>4, ScannedKept DEF ScanHolds
  <2> QED  BY <2>1, <2>5, <2>6 DEF ScanHolds
<1>4. ASSUME NEW r \in rpos..Len(buf), compact(r, << >>), UNCHANGED <<stream, fed, origin>>
      PROVE  /\ Arrived' = Arrived /\ Offset' = Offset + (r - rpos) /\ r \in Nat
  <2>1. Offset' = Offset + (r - rpos)
    BY <1>4, Moved
  <2> QED  BY <1>1, <1>4, <2>1 DEF Arrived
<1>5. ASSUME Call \/ UNCHANGED vars
      PROVE  ScanHolds'
  <2>1. UNCHANGED <<buf, rpos, stream, fed, origin, decoded>> /\ (drained' = FALSE \/ drained' = drained)
    BY <1>5, Zenon DEF Call, vars, source
  <2>2. Arrived' = Arrived /\ Offset' = Offset
    BY <2>1 DEF Arrived, Offset, Buffered
  <2>3. decoded' = decoded /\ origin' = origin /\ fed' = fed /\ (drained' => drained)
    BY <2>1
  <2> DEFINE a == Arrived
             o == Offset
  <2>4. a' = a /\ o' = o /\ Scanned(a, decoded, origin, o)
        /\ (drained' => fed < o + kHeaderSize \/ StallsAt(a, o))
    BY <2>2, <2>3, Zenon DEF ScanHolds
  <2> QED  BY <2>3, <2>4, Zenon DEF ScanHolds, StallsAt, HeaderAt, EndAt
<1>6. ASSUME Wait
      PROVE  ScanHolds'
  <2>1. UNCHANGED <<buf, rpos, stream, fed, origin, decoded>>
    BY <1>6, Zenon DEF Wait, source
  <2>2. Arrived' = Arrived /\ Offset' = Offset
    BY <2>1 DEF Arrived, Offset, Buffered
  <2>3. fed < Offset + kHeaderSize \/ StallsAt(Arrived, Offset)
    <3>1. CASE Buffered < kHeaderSize
      BY <1>1, <3>1 DEF kHeaderSize
    <3>2. CASE Buffered >= kHeaderSize /\ Plausible /\ Buffered < FrameLen
      BY <3>2, Judged, Zenon
    <3> QED  BY <1>6, <3>1, <3>2 DEF Wait
  <2> DEFINE a == Arrived
             o == Offset
  <2>4. a' = a /\ o' = o /\ Scanned(a, decoded, origin, o) /\ (fed < o + kHeaderSize \/ StallsAt(a, o))
    BY <2>2, <2>3 DEF ScanHolds
  <2> QED  BY <2>1, <2>4, Zenon DEF ScanHolds, StallsAt, HeaderAt, EndAt
<1>7. ASSUME resync
      PROVE  ScanHolds'
  <2>1. /\ Buffered >= kHeaderSize /\ compact(Hunt, << >>) /\ UNCHANGED <<stream, fed, origin, decoded>>
        /\ drained' = (MagicsAfter(rpos) = {})
        /\ ~Plausible \/ (Buffered >= FrameLen /\ fletcher16(Body) # Field(6))
    BY <1>7, Zenon DEF resync, source
  <2>2. /\ Hunt \in (rpos + 1)..(Len(buf) - 1)
        /\ \A p \in (rpos + 1)..(Hunt - 1) : p + 2 <= Len(buf) /\ <<buf[p + 1], buf[p + 2]>> # kMagic
        /\ MagicsAfter(rpos) = {} => Len(buf) - Hunt = 1
    BY <2>1, HuntFacts
  <2> DEFINE h == Hunt
             end == Offset + (h - rpos)
  <2>3. h \in rpos..Len(buf) /\ h \in Nat /\ rpos + 1 <= h /\ h <= Len(buf)
    BY <1>1, <2>2
  <2>4. Arrived' = Arrived /\ Offset' = end
    BY <1>4, <2>1, <2>3
  <2>5. end \in Nat /\ Offset <= end
    <3> HIDE DEF h
    <3> QED  BY <1>1, <2>3
  <2>6. ASSUME NEW q \in Offset..(end - 1) PROVE Dead(Arrived, q)
    <3>1. CASE q = Offset
      BY <2>1, <3>1, Judged, Zenon
    <3>2. CASE q # Offset
      <4> DEFINE k == q - Offset
                 p == rpos + k
      <4>1. /\ p \in (rpos + 1)..(h - 1) /\ k \in Nat /\ k >= 1 /\ p + 1 = rpos + (k + 1) /\ p + 2 = rpos + (k + 2)
            /\ q + 1 = Offset + (k + 1) /\ q + 2 = Offset + (k + 2) /\ q \in Nat
        <5> HIDE DEF h
        <5> QED  BY <1>1, <2>3, <2>5, <3>2
      <4>2. p + 2 <= Len(buf) /\ <<buf[p + 1], buf[p + 2]>> # kMagic
        <5> HIDE DEF p
        <5> QED  BY <2>2, <4>1 DEF h
      <4>3. k + 1 \in 1..Buffered /\ k + 2 \in 1..Buffered /\ q + 2 <= fed
        BY <1>1, <4>1, <4>2 DEF Buffered
      <4>4. buf[p + 1] = Arrived[q + 1] /\ buf[p + 2] = Arrived[q + 2]
        <5>1. buf[rpos + (k + 1)] = Arrived[Offset + (k + 1)] /\ buf[rpos + (k + 2)] = Arrived[Offset + (k + 2)]
          <6> HIDE DEF k
          <6> QED  BY <1>1, <4>3, Zenon
        <5> HIDE DEF p, k
        <5> QED  BY <4>1, <5>1, Zenon
      <4> HIDE DEF p, k
      <4>5. q + 2 <= Len(Arrived) /\ <<Arrived[q + 1], Arrived[q + 2]>> # kMagic
        BY <1>1, <4>2, <4>3, <4>4
      <4> QED  BY <4>5 DEF Dead
    <3> QED  BY <3>1, <3>2
  <2>7. Scanned(Arrived, decoded, origin, end)
    <3> HIDE DEF end
    <3> QED  BY <2>5, <2>6, ScannedFurther DEF ScanHolds
  <2>8. drained' => fed < end + kHeaderSize
    <3>1. ASSUME Len(buf) - h = 1 PROVE fed < end + 7
      <4> HIDE DEF h
      <4> QED  BY <1>1, <2>3, <3>1 DEF Buffered
    <3> QED  BY <2>1, <2>2, <3>1, Zenon DEF kHeaderSize
  <2> QED  BY <2>1, <2>4, <2>7, <2>8 DEF ScanHolds
<1>8. ASSUME Deliver \/ SkipUnknown
      PROVE  ScanHolds'
  <2>1. Consume /\ drained' = drained
    BY <1>8 DEF Deliver, SkipUnknown
  <2>2. /\ calling /\ Buffered >= kHeaderSize /\ Plausible /\ Buffered >= FrameLen /\ fletcher16(Body) = Field(6)
        /\ compact(rpos + FrameLen, << >>) /\ decoded' = Append(decoded, Offset)
        /\ UNCHANGED <<stream, fed, origin>>
    BY <2>1 DEF Consume, source
  <2>3. drained = FALSE
    BY <2>2 DEF BufferHolds
  <2>4. BodyLen \in Nat /\ EndAt(Arrived, Offset) = Offset + FrameLen
    BY <2>2, HeaderFacts, Zenon
  <2>5. FrameLen \in Nat
    BY <2>4 DEF FrameLen, kHeaderSize
  <2> DEFINE r == rpos + FrameLen
  <2>6. r \in rpos..Len(buf) /\ r - rpos = FrameLen /\ compact(r, << >>)
    BY <1>1, <2>2, <2>5 DEF Buffered
  <2>7. Arrived' = Arrived /\ Offset' = Offset + (r - rpos)
    <3> HIDE DEF r
    <3> QED  BY <1>4, <2>2, <2>6
  <2>8. FrameAt(Arrived, Offset)
    BY <2>2, Judged, Zenon
  <2>9. Scanned(Arrived, Append(decoded, Offset), origin, EndAt(Arrived, Offset))
    BY <2>8, ScannedFrame DEF ScanHolds
  <2>10. Offset' = EndAt(Arrived, Offset)
    BY <2>4, <2>6, <2>7
  <2> QED  BY <2>1, <2>2, <2>3, <2>7, <2>9, <2>10, Zenon DEF ScanHolds
<1>9. ASSUME reset
      PROVE  ScanHolds'
  <2>1. /\ buf' = << >> /\ rpos' = 0 /\ decoded' = << >> /\ drained' = FALSE /\ origin' = fed
        /\ UNCHANGED <<stream, fed>>
    BY <1>9 DEF reset
  <2>2. Arrived' = Arrived /\ Offset' = fed
    BY <1>1, <2>1 DEF Arrived, Offset, Buffered
  <2>3. << >> \in Seq(Nat) /\ Len(<< >>) = 0
    BY EmptySeq
  <2>4. EndOf(Arrived, << >>, fed, 0) = fed
    BY DEF EndOf
  <2>5. Scanned(Arrived, << >>, fed, fed)
    <3>1. fed <= fed /\ (\A q \in fed..(fed - 1) : FALSE) /\ \A i \in 1..0 : FALSE
      BY <1>1
    <3> QED  BY <1>1, <2>3, <2>4, <3>1, Zenon DEF Scanned
  <2> QED  BY <2>1, <2>2, <2>5, Zenon DEF ScanHolds
<1> QED  BY <1>3, <1>5, <1>6, <1>7, <1>8, <1>9 DEF Next, next

(* A decoder that was just constructed has taken nothing.                  *)
LEMMA DecoderStarts ==
  ASSUME Init
  PROVE  BufferHolds /\ ScanHolds
<1>1. /\ buf = << >> /\ rpos = 0 /\ bytes_consumed = 0 /\ bytes_discarded = 0
      /\ calling = FALSE /\ drained = FALSE /\ stream \in Streams /\ fed = 0 /\ origin = 0 /\ decoded = << >>
  BY DEF Init
<1>2. << >> \in Seq(Nat) /\ Len(<< >>) = 0
  BY EmptySeq
<1>3. Buffered = 0 /\ Offset = 0
  <2>1. Len(buf) = 0 /\ rpos = 0 /\ fed = 0
    BY <1>1, <1>2, Zenon
  <2> QED  BY <2>1 DEF Buffered, Offset
<1>4. stream.units \in Seq(Nat) /\ Len(stream.units) \in Nat
  BY <1>1, StreamFacts
<1>5. BufferHolds
  <2>1. fed \in 0..Len(stream.units) /\ origin \in 0..fed /\ rpos \in 0..Len(buf) /\ Buffered <= fed - origin
        /\ bytes_consumed \in Int /\ bytes_discarded \in Int /\ bytes_consumed + bytes_discarded + Buffered = fed - origin
        /\ \A i \in 1..Buffered : FALSE
    BY <1>1, <1>2, <1>3, <1>4
  <2> QED  BY <1>1, <1>2, <2>1, Zenon DEF BufferHolds
<1>6. Scanned(Arrived, << >>, 0, 0)
  <2>1. Arrived \in Seq(Nat)
    BY <1>5, BufferFacts
  <2>2. EndOf(Arrived, << >>, 0, 0) = 0
    BY DEF EndOf
  <2>3. 0 <= 0 /\ 0 \in Nat /\ (\A q \in 0..(0 - 1) : FALSE) /\ \A i \in 1..0 : FALSE
    OBVIOUS
  <2> QED  BY <1>2, <2>1, <2>2, <2>3, Zenon DEF Scanned
<1> QED  BY <1>1, <1>3, <1>5, <1>6, Zenon DEF ScanHolds

(* The buffer and the scan are right in every reachable state.             *)
LEMMA ScanAlways == Spec => [](BufferHolds /\ ScanHolds)
<1>1. Init => BufferHolds /\ ScanHolds
  BY DecoderStarts
<1>2. BufferHolds /\ ScanHolds /\ [Next]_vars => BufferHolds' /\ ScanHolds'
  BY BufferKept, ScanKept
<1> QED  BY <1>1, <1>2, PTL DEF Spec

(* However the stream is cut into pieces, and whatever is damaged in it,   *)
(* the frames next() has consumed when it asks for more bytes are those of *)
(* the bytes fed so far taken as a whole: neither the compaction of the    *)
(* buffer nor resync() loses or invents one at a boundary.                 *)
THEOREM SplitsNeverMatter == Spec => []SplitsDoNotMatter
<1>1. BufferHolds /\ ScanHolds => SplitsDoNotMatter
  <2> SUFFICES ASSUME BufferHolds, ScanHolds, drained
               PROVE  AreFrames(decoded, Arrived, origin)
    BY DEF SplitsDoNotMatter, Arrived
  <2>1. Len(Arrived) = fed
    BY BufferFacts
  <2>2. Scanned(Arrived, decoded, origin, Offset) /\ (Len(Arrived) < Offset + kHeaderSize \/ StallsAt(Arrived, Offset))
    BY <2>1 DEF ScanHolds
  <2> DEFINE a == Arrived
             o == Offset
  <2> HIDE DEF a, o
  <2>3. AreFrames(decoded, a, origin)
    BY <2>2, ScannedAll DEF a, o
  <2> QED  BY <2>3 DEF a
<1> QED  BY <1>1, ScanAlways, PTL

-----------------------------------------------------------------------------
(* c is s and then t, of lengths k and n.                                  *)
Joined(c, s, t, k, n) ==
    /\ Len(c) = k + n
    /\ \A i \in 1..(k + n) : c[i] = IF i <= k THEN s[i] ELSE t[i - k]

(* A concatenation, by the lengths of its parts.                           *)
LEMMA Concatenated ==
  ASSUME NEW S, NEW s \in Seq(S), NEW t \in Seq(S), NEW k, NEW n, Len(s) = k, Len(t) = n
  PROVE  s \o t \in Seq(S) /\ Joined(s \o t, s, t, k, n)
<1> DEFINE c == s \o t
<1>1. /\ c \in Seq(S) /\ Len(c) = Len(s) + Len(t)
      /\ \A i \in 1..(Len(s) + Len(t)) : c[i] = IF i <= Len(s) THEN s[i] ELSE t[i - Len(s)]
  BY ConcatProperties, Zenon
<1> HIDE DEF c
<1>2. /\ c \in Seq(S) /\ Len(c) = k + n
      /\ \A i \in 1..(k + n) : c[i] = IF i <= k THEN s[i] ELSE t[i - k]
  BY <1>1
<1> QED  BY <1>2 DEF Joined, c

(* What encode writes.                                                     *)
LEMMA EncodeFacts ==
  ASSUME NEW type \in Nat, NEW seq \in Nat, NEW body \in Seq(Nat)
  PROVE  LET e == encode(type, seq, body)
         IN  /\ e[1] = 75 /\ e[2] = 88 /\ e[3] = kVersion /\ e[4] = type /\ e[5] = Len(body)
             /\ e[6] = seq /\ e[7] = fletcher16(body)
             /\ \A i \in 1..Len(body) : e[i + 7] = body[i]
<1> DEFINE sum == fletcher16(body)
           S == Nat \cup {sum}
           h == <<kVersion, type, Len(body), seq, sum>>
           m == <<75, 88>>
           x == m \o h
           e == x \o body
<1>1. encode(type, seq, body) = e
  BY DEF encode, kMagic
<1>2. Len(body) \in Nat /\ kVersion \in Nat
  BY DEF kVersion
<1> HIDE DEF sum
<1>3. body \in Seq(S) /\ m \in Seq(S) /\ h \in Seq(S)
  <2>1. body \in Seq(S)
    <3>1. body \in [1..Len(body) -> S]
      BY LenProperties
    <3> QED  BY <1>2, <3>1
  <2>2. m \in Seq(S)
    OBVIOUS
  <2>3. h \in Seq(S)
    BY <1>2
  <2> QED  BY <2>1, <2>2, <2>3
<1>4. /\ Len(m) = 2 /\ m[1] = 75 /\ m[2] = 88
      /\ Len(h) = 5 /\ h[1] = kVersion /\ h[2] = type /\ h[3] = Len(body) /\ h[4] = seq /\ h[5] = sum
  OBVIOUS
<1> HIDE DEF m, h, S
<1>5. /\ x \in Seq(S) /\ Len(x) = 2 + 5
      /\ \A i \in 1..(2 + 5) : x[i] = IF i <= 2 THEN m[i] ELSE h[i - 2]
  <2>1. m \in Seq(S) /\ h \in Seq(S) /\ Len(m) = 2 /\ Len(h) = 5
    BY <1>3, <1>4, Zenon
  <2>2. x \in Seq(S) /\ Joined(x, m, h, 2, 5)
    BY <2>1, Concatenated, Zenon
  <2> QED  BY <2>2, Zenon DEF Joined
<1> HIDE DEF x
<1>6. /\ Len(x) = 7 /\ x[1] = 75 /\ x[2] = 88 /\ x[3] = kVersion /\ x[4] = type /\ x[5] = Len(body)
      /\ x[6] = seq /\ x[7] = sum
  <2>1. \A i \in 3..7 : x[i] = h[i - 2]
    BY <1>5
  <2>2. x[3] = h[1] /\ x[4] = h[2] /\ x[5] = h[3] /\ x[6] = h[4] /\ x[7] = h[5]
    <3>1. x[3] = h[3 - 2] /\ x[4] = h[4 - 2] /\ x[5] = h[5 - 2] /\ x[6] = h[6 - 2] /\ x[7] = h[7 - 2]
      BY <2>1
    <3> QED  BY <3>1
  <2>3. x[1] = m[1] /\ x[2] = m[2] /\ Len(x) = 7
    BY <1>5
  <2> QED  BY <1>4, <2>2, <2>3
<1>7. \A i \in 1..(7 + Len(body)) : e[i] = IF i <= 7 THEN x[i] ELSE body[i - 7]
  <2>1. x \in Seq(S) /\ body \in Seq(S) /\ Len(x) = 7
    BY <1>3, <1>5, <1>6, Zenon
  <2>2. Joined(e, x, body, 7, Len(body))
    BY <2>1, Concatenated, Zenon
  <2> QED  BY <2>2, Zenon DEF Joined
<1> HIDE DEF e
<1>8. \A i \in 1..7 : e[i] = x[i]
  BY <1>2, <1>7
<1>9. ASSUME NEW i \in 1..Len(body) PROVE e[i + 7] = body[i]
  <2>1. i + 7 \in 1..(7 + Len(body)) /\ ~(i + 7 <= 7) /\ (i + 7) - 7 = i
    BY <1>2
  <2> DEFINE j == i + 7
  <2> HIDE DEF j
  <2>2. j \in 1..(7 + Len(body)) /\ ~(j <= 7) /\ j - 7 = i
    BY <2>1 DEF j
  <2>3. e[j] = body[i]
    BY <1>7, <2>2
  <2> QED  BY <2>3 DEF j
<1>10. e[1] = x[1] /\ e[2] = x[2] /\ e[3] = x[3] /\ e[4] = x[4] /\ e[5] = x[5] /\ e[6] = x[6] /\ e[7] = x[7]
  BY <1>8
<1> QED  BY <1>1, <1>6, <1>9, <1>10 DEF sum

(* A frame of the stream.                                                  *)
LEMMA SentFacts ==
  ASSUME NEW s \in Streams, NEW i \in DOMAIN s.sent
  PROVE  LET f == s.sent[i]
         IN  /\ s.units \in Seq(Nat) /\ Len(s.units) \in Nat
             /\ DOMAIN s.sent = 1..Len(s.sent) /\ Len(s.sent) \in Nat
             /\ f.type \in Nat /\ f.seq \in Nat /\ f.at \in Nat /\ f.body \in Seq(Nat) /\ Len(f.body) \in Nat
             /\ Size(f) = 7 + Len(f.body)
             /\ f.seq < SeqLimit /\ f.at + Size(f) <= Len(s.units) /\ Len(f.body) <= MaxBody
             /\ f.type \in DOMAIN BodySizes => Len(f.body) = BodySizes[f.type]
             /\ \A k \in 1..Size(f) : f.at + k - 1 \notin s.damaged
                   => s.units[f.at + k] = encode(f.type, f.seq, f.body)[k]
             /\ \A j \in (i + 1)..Len(s.sent) :
                  s.sent[j].at >= f.at + Size(f) /\ s.sent[j].seq = f.seq + (j - i)
<1>1. s \in Stream /\ AsSent(s)
  BY DecoderAssumption
<1>2. s.units \in Seq(Nat) /\ s.sent \in Seq([type: Nat, seq: Nat, at: Nat, body: Seq(Nat)])
  BY <1>1 DEF Stream
<1>3. DOMAIN s.sent = 1..Len(s.sent) /\ Len(s.sent) \in Nat /\ Len(s.units) \in Nat
      /\ s.sent[i] \in [type: Nat, seq: Nat, at: Nat, body: Seq(Nat)]
  <2> DEFINE R == [type: Nat, seq: Nat, at: Nat, body: Seq(Nat)]
             t == s.sent
             u == s.units
  <2>1. t \in Seq(R) /\ u \in Seq(Nat) /\ i \in DOMAIN t
    BY <1>2
  <2> HIDE DEF R, t, u
  <2>2. DOMAIN t = 1..Len(t) /\ Len(t) \in Nat /\ Len(u) \in Nat /\ t[i] \in R
    BY <2>1
  <2> QED  BY <2>2 DEF R, t, u
<1>4. /\ s.sent[i].type \in Nat /\ s.sent[i].seq \in Nat /\ s.sent[i].at \in Nat
      /\ s.sent[i].body \in Seq(Nat) /\ Len(s.sent[i].body) \in Nat
  BY <1>3
<1>5. Size(s.sent[i]) = 7 + Len(s.sent[i].body)
  BY DEF Size, kHeaderSize
<1>6. LET f == s.sent[i]
      IN  /\ f.seq < SeqLimit /\ f.at + Size(f) <= Len(s.units) /\ Len(f.body) <= MaxBody
          /\ f.type \in DOMAIN BodySizes => Len(f.body) = BodySizes[f.type]
          /\ \A k \in 1..Size(f) : f.at + k - 1 \notin s.damaged
                => s.units[f.at + k] = encode(f.type, f.seq, f.body)[k]
          /\ \A j \in (i + 1)..Len(s.sent) :
               s.sent[j].at >= f.at + Size(f) /\ s.sent[j].seq = f.seq + (j - i)
  BY <1>1, Zenon DEF AsSent
<1> QED  BY <1>2, <1>3, <1>4, <1>5, <1>6, Zenon

(* A frame that arrived whole is one for the decoder.                      *)
LEMMA IntactIsFrame ==
  ASSUME stream \in Streams, NEW i \in DOMAIN stream.sent, Intact(stream.sent[i])
  PROVE  /\ FrameAt(stream.units, stream.sent[i].at)
         /\ EndAt(stream.units, stream.sent[i].at) = stream.sent[i].at + Size(stream.sent[i])
<1> DEFINE f == stream.sent[i]
           u == stream.units
           p == f.at
           body == f.body
           n == Len(body)
           e == encode(f.type, f.seq, body)
<1>1. /\ u \in Seq(Nat) /\ Len(u) \in Nat /\ f.type \in Nat /\ f.seq \in Nat /\ p \in Nat
      /\ body \in Seq(Nat) /\ n \in Nat /\ Size(f) = 7 + n /\ p + Size(f) <= Len(u) /\ n <= MaxBody
      /\ f.type \in DOMAIN BodySizes => n = BodySizes[f.type]
      /\ \A k \in 1..Size(f) : p + k - 1 \notin stream.damaged => u[p + k] = e[k]
  BY SentFacts, Zenon
<1>2. stream.damaged \cap (p)..(p + Size(f) - 1) = {}
  BY DEF Intact
<1>3. /\ e[1] = 75 /\ e[2] = 88 /\ e[3] = kVersion /\ e[4] = f.type /\ e[5] = n
      /\ e[7] = fletcher16(body) /\ \A k \in 1..n : e[k + 7] = body[k]
  <2> DEFINE type == f.type
             seq == f.seq
  <2>1. type \in Nat /\ seq \in Nat /\ body \in Seq(Nat)
    BY <1>1
  <2> HIDE DEF f, type, seq, body
  <2>2. LET x == encode(type, seq, body)
        IN  /\ x[1] = 75 /\ x[2] = 88 /\ x[3] = kVersion /\ x[4] = type /\ x[5] = Len(body)
            /\ x[6] = seq /\ x[7] = fletcher16(body)
            /\ \A k \in 1..Len(body) : x[k + 7] = body[k]
    BY <2>1, EncodeFacts, SMTT(40)
  <2> QED  BY <2>2, Zenon DEF type, seq
<1>4. PICK size : size = Size(f)
  OBVIOUS
<1>5. PICK type : type = f.type
  OBVIOUS
<1>6. PICK damaged : damaged = stream.damaged
  OBVIOUS
<1>7. /\ size = 7 + n /\ p + size <= Len(u) /\ damaged \cap (p)..(p + size - 1) = {}
      /\ \A k \in 1..size : p + k - 1 \notin damaged => u[p + k] = e[k]
      /\ e[4] = type /\ (type \in DOMAIN BodySizes => n = BodySizes[type])
  BY <1>1, <1>2, <1>3, <1>4, <1>5, <1>6, Zenon
<1> HIDE DEF f, u, p, n, e, body
<1>8. ASSUME NEW k \in 1..size PROVE u[p + k] = e[k]
  <2>1. p + k - 1 \in (p)..(p + size - 1)
    <3>1. p \in Nat /\ n \in Nat /\ size = 7 + n
      BY <1>1, <1>7, Zenon
    <3> QED  BY <3>1
  <2>2. p + k - 1 \notin damaged
    BY <1>7, <2>1, Zenon
  <2> QED  BY <1>7, <2>2, Zenon
<1>9. /\ u[p + 1] = 75 /\ u[p + 2] = 88 /\ u[p + 3] = kVersion /\ u[p + 4] = type /\ u[p + 5] = n
      /\ u[p + 7] = fletcher16(body)
  <2>1. 1 \in 1..size /\ 2 \in 1..size /\ 3 \in 1..size /\ 4 \in 1..size /\ 5 \in 1..size /\ 7 \in 1..size
    BY <1>1, <1>7
  <2>2. /\ u[p + 1] = e[1] /\ u[p + 2] = e[2] /\ u[p + 3] = e[3] /\ u[p + 4] = e[4] /\ u[p + 5] = e[5]
        /\ u[p + 7] = e[7]
    BY <1>8, <2>1
  <2>3. e[1] = 75 /\ e[2] = 88 /\ e[3] = kVersion /\ e[4] = type /\ e[5] = n /\ e[7] = fletcher16(body)
    BY <1>3, <1>7
  <2> QED  BY <2>2, <2>3
<1>10. HeaderAt(u, p)
  <2>1. p + 7 <= Len(u)
    BY <1>1, <1>7
  <2> QED  BY <1>1, <1>7, <1>9, <2>1 DEF HeaderAt, kHeaderSize, kMagic
<1>11. EndAt(u, p) = p + 7 + n /\ p + 7 + n <= Len(u) /\ p + 7 + n = p + size
  BY <1>1, <1>7, <1>9 DEF EndAt, kHeaderSize
<1>12. SubSeq(u, p + 8, p + 7 + n) = body
  <2>1. SubSeq(body, 1, n) = body
    <3>1. n \in 0..Len(body) /\ Len(body) = n
      BY <1>1 DEF n
    <3>2. SubSeq(body, 1, n) \in Seq(Nat) /\ Len(SubSeq(body, 1, n)) = n /\ \A k \in 1..n : SubSeq(body, 1, n)[k] = body[k]
      BY <1>1, <3>1, PrefixFacts
    <3> QED  BY <1>1, <3>1, <3>2, SeqEqual
  <2> DEFINE d == p + 7
  <2>2. \A k \in 1..n : u[k + d] = body[k]
    <3> SUFFICES ASSUME NEW k \in 1..n PROVE u[k + d] = body[k]
      OBVIOUS
    <3>1. k + 7 \in 1..size /\ p + (k + 7) = k + d
      BY <1>1, <1>7
    <3>2. u[p + (k + 7)] = e[k + 7]
      BY <1>8, <3>1
    <3> QED  BY <1>3, <3>1, <3>2
  <2>3. d \in Int /\ 1 \in Nat /\ 1 <= 1 /\ n <= Len(body) /\ 1 + d >= 1 /\ n + d <= Len(u) /\ 1 + d = p + 8 /\ n + d = p + 7 + n
    BY <1>1, <1>11 DEF n
  <2> HIDE DEF d
  <2>4. SubSeq(body, 1, n) = SubSeq(u, 1 + d, n + d)
    BY <1>1, <2>2, <2>3, SameRange
  <2> QED  BY <2>1, <2>3, <2>4, Zenon
<1>13. FrameAt(u, p)
  <2>1. p + kHeaderSize + 1 = p + 8
    BY <1>1 DEF kHeaderSize
  <2> QED  BY <1>9, <1>10, <1>11, <1>12, <2>1, Zenon DEF FrameAt
<1> QED  BY <1>4, <1>11, <1>13 DEF f, u, p

(* What is neither dead nor in a frame was not scanned.                    *)
LEMMA ScannedCovers ==
  ASSUME NEW s, NEW ps, NEW lo, NEW hi, Scanned(s, ps, lo, hi),
         NEW p \in Nat, lo <= p, p < hi, FrameAt(s, p)
  PROVE  \E j \in 1..Len(ps) : ps[j] \in Nat /\ ps[j] <= p /\ p < EndAt(s, ps[j]) /\ FrameAt(s, ps[j])
<1> DEFINE n == Len(ps)
           End(i) == EndOf(s, ps, lo, i)
           K == {i \in 1..n : End(i) > p}
<1>1. /\ s \in Seq(Nat) /\ lo \in Nat /\ hi \in Nat /\ n \in Nat
      /\ \A i \in 1..n : ps[i] \in Nat
      /\ \A i \in 0..n : End(i) \in Nat
  <2>1. s \in Seq(Nat) /\ lo \in Nat /\ hi \in Nat
    BY Zenon DEF Scanned
  <2>2. n \in Nat /\ (\A i \in 1..n : ps[i] \in Nat) /\ \A i \in 0..n : End(i) \in Nat
    BY EndFacts, Zenon
  <2> QED  BY <2>1, <2>2, Zenon
<1>2. ~Dead(s, p)
  BY <1>1, DeadIsNone
<1>3. End(0) = lo
  BY DEF EndOf
<1> HIDE DEF End
<1>4. ASSUME NEW i \in 0..n, i \notin K PROVE End(i) <= p
  <2>1. CASE i = 0
    BY <1>3, <2>1
  <2>2. CASE i # 0
    <3>1. i \in 1..n /\ ~(End(i) > p) /\ End(i) \in Nat
      BY <1>1, <1>4, <2>2
    <3> QED  BY <3>1
  <2> QED  BY <2>1, <2>2
<1>5. K # {}
  <2> SUFFICES ASSUME K = {} PROVE FALSE
    OBVIOUS
  <2>1. n \in 0..n /\ n \notin K
    BY <1>1
  <2>2. End(n) <= p /\ End(n) \in Nat
    BY <1>1, <1>4, <2>1
  <2>3. p \in End(n)..(hi - 1)
    BY <1>1, <2>2
  <2> QED  BY <1>2, <2>3, Zenon DEF Scanned, End
<1>6. K \in SUBSET Nat
  OBVIOUS
<1>7. PICK i \in K : \A k \in K : i <= k
  BY <1>5, <1>6, LeastNatural, Zenon
<1>8. i \in 1..n /\ End(i) > p /\ i - 1 \in 0..n /\ i - 1 \notin K /\ i # 0
  BY <1>1, <1>7
<1>9. End(i - 1) <= p /\ End(i - 1) \in Nat
  BY <1>1, <1>4, <1>8
<1>10. FrameAt(s, ps[i]) /\ ps[i] \in Nat /\ \A q \in End(i - 1)..(ps[i] - 1) : Dead(s, q)
  BY <1>1, <1>8, Zenon DEF Scanned, End
<1>11. ps[i] <= p
  <2> SUFFICES ASSUME p < ps[i] PROVE FALSE
    BY <1>10
  <2>1. p \in End(i - 1)..(ps[i] - 1)
    BY <1>9, <1>10
  <2> QED  BY <1>2, <1>10, <2>1, Zenon
<1>12. End(i) = EndAt(s, ps[i])
  BY <1>8, Zenon DEF End, EndOf
<1>13. EndAt(s, ps[i]) \in Nat /\ p < EndAt(s, ps[i])
  BY <1>1, <1>8, <1>10, <1>12, FrameEnds
<1> QED  BY <1>8, <1>10, <1>11, <1>13

(* What is decoded was sent.                                               *)
LEMMA DecodedWasSent ==
  ASSUME DamageIsSeen, BufferHolds, NEW q \in Nat, FrameAt(Arrived, q)
  PROVE  \E m \in DOMAIN stream.sent :
            /\ stream.sent[m].at = q
            /\ EndAt(Arrived, q) = q + Size(stream.sent[m])
<1> DEFINE u == stream.units
           a == Arrived
<1>1. Begins(a, u) /\ stream \in Streams /\ u \in Seq(Nat)
  BY BufferFacts DEF BufferHolds
<1> HIDE DEF a
<1>2. FrameAt(a, q)
  BY DEF a
<1>3. FrameAt(u, q) /\ EndAt(u, q) = EndAt(a, q)
  BY <1>1, <1>2, FrameKept
<1>4. q \in 0..(Len(u) - 1)
  <2>1. q + 7 <= Len(u) /\ Len(u) \in Nat
    BY <1>1, <1>3, FrameEnds
  <2> QED  BY <2>1
<1>5. \E m \in DOMAIN stream.sent : stream.sent[m].at = q /\ EndAt(u, q) = q + Size(stream.sent[m])
  BY <1>1, <1>3, <1>4, Zenon DEF DamageIsSeen
<1> QED  BY <1>3, <1>5 DEF a

(* Two frames of the stream do not overlap.                                *)
LEMMA SentApart ==
  ASSUME NEW s \in Streams, NEW i \in DOMAIN s.sent, NEW j \in DOMAIN s.sent,
         s.sent[i].at <= s.sent[j].at, s.sent[j].at < s.sent[i].at + Size(s.sent[i])
  PROVE  i = j
<1>1. /\ DOMAIN s.sent = 1..Len(s.sent) /\ Len(s.sent) \in Nat
      /\ s.sent[i].at \in Nat /\ s.sent[j].at \in Nat /\ Size(s.sent[i]) \in Nat /\ Size(s.sent[j]) \in Nat
      /\ Size(s.sent[i]) >= 7 /\ Size(s.sent[j]) >= 7
      /\ \A k \in (i + 1)..Len(s.sent) : s.sent[k].at >= s.sent[i].at + Size(s.sent[i])
      /\ \A k \in (j + 1)..Len(s.sent) : s.sent[k].at >= s.sent[j].at + Size(s.sent[j])
  <2>1. /\ DOMAIN s.sent = 1..Len(s.sent) /\ Len(s.sent) \in Nat
        /\ s.sent[i].at \in Nat /\ Len(s.sent[i].body) \in Nat /\ Size(s.sent[i]) = 7 + Len(s.sent[i].body)
        /\ \A k \in (i + 1)..Len(s.sent) : s.sent[k].at >= s.sent[i].at + Size(s.sent[i])
    BY SentFacts, Zenon
  <2>2. /\ s.sent[j].at \in Nat /\ Len(s.sent[j].body) \in Nat /\ Size(s.sent[j]) = 7 + Len(s.sent[j].body)
        /\ \A k \in (j + 1)..Len(s.sent) : s.sent[k].at >= s.sent[j].at + Size(s.sent[j])
    BY SentFacts, Zenon
  <2>3. Size(s.sent[i]) \in Nat /\ Size(s.sent[i]) >= 7
    BY <2>1
  <2>4. Size(s.sent[j]) \in Nat /\ Size(s.sent[j]) >= 7
    BY <2>2
  <2> QED  BY <2>1, <2>2, <2>3, <2>4, Zenon
<1>2. ~(i < j)
  <2> SUFFICES ASSUME i < j PROVE FALSE
    OBVIOUS
  <2>1. j \in (i + 1)..Len(s.sent)
    BY <1>1
  <2> QED  BY <1>1, <2>1
<1>3. ~(j < i)
  <2> SUFFICES ASSUME j < i PROVE FALSE
    OBVIOUS
  <2>1. i \in (j + 1)..Len(s.sent)
    BY <1>1
  <2> QED  BY <1>1, <2>1
<1> QED  BY <1>1, <1>2, <1>3

(* When the checksum tells the damage, damage costs the frames it hits and *)
(* no other: every frame that arrived whole and that next() or resync()    *)
(* has passed was decoded.                                                 *)
THEOREM IntactAreAlwaysDecoded ==
  ASSUME DamageIsSeen
  PROVE  Spec => []IntactAreDecoded
<1>1. BufferHolds /\ ScanHolds => IntactAreDecoded
  <2> SUFFICES ASSUME BufferHolds, ScanHolds, NEW i \in DOMAIN stream.sent,
                      Intact(stream.sent[i]), stream.sent[i].at >= origin,
                      stream.sent[i].at + Size(stream.sent[i]) <= Offset
               PROVE  \E j \in DOMAIN decoded : decoded[j] = stream.sent[i].at
    BY DEF IntactAreDecoded
  <2> DEFINE p == stream.sent[i].at
             size == Size(stream.sent[i])
             a == Arrived
             u == stream.units
  <2>1. stream \in Streams
    BY DEF BufferHolds
  <2>2. p \in Nat /\ size \in Nat /\ size >= 7
    <3>1. p \in Nat /\ Len(stream.sent[i].body) \in Nat /\ size = 7 + Len(stream.sent[i].body)
      BY <2>1, SentFacts, Zenon
    <3> QED  BY <3>1
  <2>3. FrameAt(u, p) /\ EndAt(u, p) = p + size
    BY <2>1, IntactIsFrame
  <2>4. /\ Begins(a, u) /\ Len(a) = fed /\ fed \in Nat /\ Offset \in Nat /\ Offset <= fed /\ origin \in Nat
    BY BufferFacts
  <2>5. Scanned(a, decoded, origin, Offset)
    BY DEF ScanHolds
  <2>6. p >= origin /\ p + size <= Offset
    OBVIOUS
  <2> HIDE DEF p, size, a, u
  <2>7. p + kHeaderSize <= Len(a) /\ p < Offset
    BY <2>2, <2>4, <2>6 DEF kHeaderSize
  <2>8. EndAt(a, p) = p + size
    BY <2>2, <2>3, <2>4, <2>7, HeaderKept
  <2>9. FrameAt(a, p)
    <3>1. EndAt(a, p) <= Len(a)
      BY <2>2, <2>4, <2>6, <2>8
    <3> QED  BY <2>2, <2>3, <2>4, <2>7, <3>1, HeaderKept
  <2>10. PICK j \in 1..Len(decoded) :
            decoded[j] \in Nat /\ decoded[j] <= p /\ p < EndAt(a, decoded[j]) /\ FrameAt(a, decoded[j])
    BY <2>2, <2>4, <2>5, <2>6, <2>7, <2>9, ScannedCovers
  <2>11. PICK m \in DOMAIN stream.sent :
            stream.sent[m].at = decoded[j] /\ EndAt(a, decoded[j]) = decoded[j] + Size(stream.sent[m])
    BY <2>10, DecodedWasSent DEF a
  <2>12. m = i
    BY <2>1, <2>10, <2>11, SentApart DEF p
  <2>13. DOMAIN decoded = 1..Len(decoded)
    BY <2>5 DEF Scanned
  <2> QED  BY <2>11, <2>12, <2>13
<1> QED  BY <1>1, ScanAlways, PTL

-----------------------------------------------------------------------------
(* The gaps.  c is the last frame accounted for, a the last delivered; the *)
(* gap carried over is at least the messages lost between them and at most *)
(* the frames between them.                                                *)
Delivered == [type: Nat, seq: Nat, at: Nat, gap_before: Nat]

HeadersOf(s) ==
    \A i \in DOMAIN s.sent : s.damaged \cap {s.sent[i].at + 3, s.sent[i].at + 5} = {}

Lost(s, a, b) == {j \in a..b : s.sent[j].type \in DOMAIN BodySizes}

LastIs(s, c, ns, o) ==
    /\ ns = Successor(s.sent[c].seq)
    /\ s.sent[c].at + Size(s.sent[c]) <= o

Carries(s, a, c, d, pg) ==
    /\ a <= c /\ d[Len(d)].at = s.sent[a].at
    /\ pg \in Cardinality(Lost(s, a + 1, c))..(c - a)

Reported(s, d, i) ==
    LET skipped == {j \in DOMAIN s.sent : d[i].at < s.sent[j].at /\ s.sent[j].at < d[i + 1].at}
        lost    == {j \in skipped : s.sent[j].type \in DOMAIN BodySizes}
    IN  d[i + 1].gap_before \in Cardinality(lost)..Cardinality(skipped)

GapsAre(s, d, ns, pg, hs, o) ==
    /\ ns \in Nat /\ pg \in Nat /\ hs \in BOOLEAN /\ d \in Seq(Delivered)
    /\ HeadersOf(s) =>
         /\ hs => \E c \in DOMAIN s.sent : LastIs(s, c, ns, o)
         /\ Len(d) > 0 =>
              hs /\ \E a, c \in DOMAIN s.sent : LastIs(s, c, ns, o) /\ Carries(s, a, c, d, pg)
         /\ \A i \in 1..(Len(d) - 1) : Reported(s, d, i)

GapsHold == GapsAre(stream, delivered, next_seq, pending_gap, have_seq, Offset)

(* Bytes that go by take nothing from what is known.                       *)
LEMMA GapsFurther ==
  ASSUME NEW s \in Streams, NEW d, NEW ns, NEW pg, NEW hs, NEW o \in Nat, NEW o2 \in Nat, o <= o2,
         GapsAre(s, d, ns, pg, hs, o)
  PROVE  GapsAre(s, d, ns, pg, hs, o2)
<1>1. ASSUME NEW c \in DOMAIN s.sent, LastIs(s, c, ns, o)
      PROVE  LastIs(s, c, ns, o2)
  <2> DEFINE e == s.sent[c].at + Size(s.sent[c])
  <2>1. e \in Nat
    <3>1. s.sent[c].at \in Nat /\ Len(s.sent[c].body) \in Nat /\ Size(s.sent[c]) = 7 + Len(s.sent[c].body)
      BY SentFacts, Zenon
    <3> QED  BY <3>1
  <2>2. e <= o /\ ns = Successor(s.sent[c].seq)
    BY <1>1 DEF LastIs
  <2> HIDE DEF e
  <2>3. e <= o2
    BY <2>1, <2>2
  <2> QED  BY <2>2, <2>3 DEF LastIs, e
<1> QED  BY <1>1, Zenon DEF GapsAre

(* The frame after the last one accounted for: its number tells how many   *)
(* were sent in between.                                                   *)
LEMMA NumbersTell ==
  ASSUME NEW s \in Streams, NEW c \in DOMAIN s.sent, NEW n \in DOMAIN s.sent,
         NEW ns, LastIs(s, c, ns, s.sent[n].at)
  PROVE  c \in Nat /\ n \in Nat /\ c < n /\ ns \in Nat /\ ns <= s.sent[n].seq /\ s.sent[n].seq - ns = n - c - 1
<1> DEFINE at(i) == s.sent[i].at
           size(i) == Size(s.sent[i])
           seq(i) == s.sent[i].seq
           N == Len(s.sent)
<1>1. /\ DOMAIN s.sent = 1..N /\ N \in Nat
      /\ at(c) \in Nat /\ Len(s.sent[c].body) \in Nat /\ size(c) = 7 + Len(s.sent[c].body) /\ seq(c) \in Nat
      /\ \A k \in (c + 1)..N : seq(k) = seq(c) + (k - c)
  BY SentFacts, Zenon
<1>2. /\ at(n) \in Nat /\ Len(s.sent[n].body) \in Nat /\ size(n) = 7 + Len(s.sent[n].body) /\ seq(n) \in Nat
      /\ seq(n) < SeqLimit
      /\ \A k \in (n + 1)..N : at(k) >= at(n) + size(n)
  BY SentFacts, Zenon
<1>3. at(c) + size(c) <= at(n) /\ ns = (seq(c) + 1) % SeqLimit
  BY DEF LastIs, Successor
<1>4. SeqLimit \in Nat /\ SeqLimit > 0
  BY DecoderAssumption
<1>5. size(c) \in Nat /\ size(c) >= 7 /\ size(n) \in Nat /\ size(n) >= 7
  <2> DEFINE b == Len(s.sent[c].body)
             e == Len(s.sent[n].body)
  <2>1. b \in Nat /\ e \in Nat /\ size(c) = 7 + b /\ size(n) = 7 + e
    BY <1>1, <1>2, Zenon
  <2> HIDE DEF b, e, size
  <2> QED  BY <2>1
<1>6. c \in 1..N /\ n \in 1..N
  BY <1>1
<1> HIDE DEF at, size, seq, N
<1>7. c # n
  BY <1>1, <1>3, <1>5
<1>8. ~(n < c)
  <2> SUFFICES ASSUME n < c PROVE FALSE
    OBVIOUS
  <2>1. c \in (n + 1)..N
    BY <1>1, <1>6
  <2>2. at(c) >= at(n) + size(n)
    BY <1>2, <2>1
  <2>3. at(c) \in Nat /\ at(n) \in Nat /\ at(c) + size(c) <= at(n)
    BY <1>1, <1>2, <1>3, Zenon
  <2> QED  BY <1>5, <2>2, <2>3
<1>9. c < n /\ n \in (c + 1)..N
  BY <1>1, <1>6, <1>7, <1>8
<1>10. seq(n) = seq(c) + (n - c)
  BY <1>1, <1>9
<1> DEFINE x == seq(c) + 1
<1>11. x \in Nat /\ x <= seq(n) /\ x < SeqLimit /\ seq(n) - x = n - c - 1
  <2>1. seq(c) \in Nat /\ seq(n) \in Nat /\ seq(n) < SeqLimit /\ N \in Nat
    BY <1>1, <1>2, Zenon
  <2> QED  BY <1>4, <1>6, <1>9, <1>10, <2>1
<1> HIDE DEF x
<1>12. x % SeqLimit = x
  BY <1>4, <1>11
<1>13. ns = x
  BY <1>3, <1>12 DEF x
<1> QED  BY <1>6, <1>9, <1>11, <1>13 DEF seq

(* Counting what was lost.                                                 *)
LEMMA LostFacts ==
  ASSUME NEW s, NEW a \in Nat, NEW c \in Nat, NEW n \in Nat, a <= c, c < n
  PROVE  /\ IsFiniteSet(Lost(s, a + 1, c)) /\ Cardinality(Lost(s, a + 1, c)) \in Nat
         /\ IsFiniteSet(Lost(s, a + 1, n - 1)) /\ Cardinality(Lost(s, a + 1, n - 1)) \in Nat
         /\ Cardinality(Lost(s, a + 1, n - 1)) <= Cardinality(Lost(s, a + 1, c)) + (n - c - 1)
<1> DEFINE X == Lost(s, a + 1, c)
           Y == Lost(s, c + 1, n - 1)
           Z == Lost(s, a + 1, n - 1)
<1>1. /\ IsFiniteSet((a + 1)..c) /\ IsFiniteSet((a + 1)..(n - 1)) /\ IsFiniteSet((c + 1)..(n - 1))
      /\ Cardinality((c + 1)..(n - 1)) = n - c - 1
  <2>1. a + 1 \in Int /\ c \in Int /\ n - 1 \in Int /\ c + 1 \in Int
    OBVIOUS
  <2>2. /\ IsFiniteSet((a + 1)..c) /\ IsFiniteSet((a + 1)..(n - 1)) /\ IsFiniteSet((c + 1)..(n - 1))
        /\ Cardinality((c + 1)..(n - 1)) = IF c + 1 > n - 1 THEN 0 ELSE (n - 1) - (c + 1) + 1
    BY <2>1, FS_Interval, Zenon
  <2> QED  BY <2>2
<1>2. X \in SUBSET ((a + 1)..c) /\ Y \in SUBSET ((c + 1)..(n - 1)) /\ Z \in SUBSET ((a + 1)..(n - 1))
  BY DEF Lost
<1>3. Z = X \cup Y
  <2>1. \A j : j \in (a + 1)..(n - 1) <=> j \in (a + 1)..c \/ j \in (c + 1)..(n - 1)
    OBVIOUS
  <2> QED  BY <2>1, Zenon DEF Lost
<1> HIDE DEF X, Y, Z
<1>4. IsFiniteSet(X) /\ IsFiniteSet(Y) /\ IsFiniteSet(Z) /\ Cardinality(Y) <= n - c - 1
  <2>1. IsFiniteSet(X) /\ IsFiniteSet(Y) /\ IsFiniteSet(Z) /\ Cardinality(Y) <= Cardinality((c + 1)..(n - 1))
    BY <1>1, <1>2, FS_Subset, Zenon
  <2> QED  BY <1>1, <2>1, Zenon
<1>5. Cardinality(X) \in Nat /\ Cardinality(Y) \in Nat /\ Cardinality(Z) \in Nat
  BY <1>4, FS_CardinalityType
<1>6. Cardinality(Z) = Cardinality(X) + Cardinality(Y) - Cardinality(X \cap Y) /\ Cardinality(X \cap Y) \in Nat
  <2>1. IsFiniteSet(X \cap Y)
    <3>1. X \cap Y \in SUBSET X
      OBVIOUS
    <3> QED  BY <1>4, <3>1, FS_Subset
  <2> QED  BY <1>3, <1>4, <2>1, FS_Union, FS_CardinalityType
<1>7. Cardinality(Z) <= Cardinality(X) + (n - c - 1)
  BY <1>4, <1>5, <1>6
<1> QED  BY <1>4, <1>5, <1>7 DEF X, Z

(* The frames between two of the stream.                                   *)
LEMMA BetweenFacts ==
  ASSUME NEW s \in Streams, NEW a \in DOMAIN s.sent, NEW n \in DOMAIN s.sent, a < n
  PROVE  {j \in DOMAIN s.sent : s.sent[a].at < s.sent[j].at /\ s.sent[j].at < s.sent[n].at} = (a + 1)..(n - 1)
<1> DEFINE N == Len(s.sent)
           at(i) == s.sent[i].at
<1>1. DOMAIN s.sent = 1..N /\ N \in Nat
  BY SentFacts, Zenon
<1>2. ASSUME NEW i \in 1..N, NEW j \in 1..N, i < j PROVE at(i) \in Nat /\ at(j) \in Nat /\ at(i) < at(j)
  <2>1. /\ at(i) \in Nat /\ Len(s.sent[i].body) \in Nat /\ Size(s.sent[i]) = 7 + Len(s.sent[i].body)
        /\ \A k \in (i + 1)..N : at(k) >= at(i) + Size(s.sent[i])
    BY <1>1, SentFacts, Zenon
  <2>2. at(j) \in Nat
    BY <1>1, SentFacts, Zenon
  <2>3. j \in (i + 1)..N
    BY <1>1, <1>2
  <2>4. at(j) >= at(i) + Size(s.sent[i])
    BY <2>1, <2>3, Zenon
  <2> DEFINE b == Len(s.sent[i].body)
             z == Size(s.sent[i])
             p == at(i)
             q == at(j)
  <2>5. p \in Nat /\ q \in Nat /\ b \in Nat /\ z = 7 + b /\ q >= p + z
    BY <2>1, <2>2, <2>4, Zenon
  <2> HIDE DEF b, z, p, q
  <2>6. p < q
    BY <2>5
  <2> QED  BY <2>5, <2>6 DEF p, q
<1>3. ASSUME NEW i \in 1..N PROVE at(i) \in Nat
  BY <1>1, SentFacts, Zenon
<1> HIDE DEF N, at
<1>4. ASSUME NEW i \in 1..N, NEW j \in 1..N PROVE at(i) < at(j) <=> i < j
  <2>1. CASE i < j
    BY <1>2, <2>1
  <2>2. CASE i = j
    BY <1>3, <2>2
  <2>3. CASE j < i
    BY <1>2, <2>3
  <2> QED  BY <1>1, <2>1, <2>2, <2>3
<1>5. {j \in 1..N : at(a) < at(j) /\ at(j) < at(n)} = (a + 1)..(n - 1)
  <2>1. a \in 1..N /\ n \in 1..N
    BY <1>1
  <2>2. \A j \in 1..N : (at(a) < at(j) /\ at(j) < at(n)) <=> (a < j /\ j < n)
    BY <1>4, <2>1
  <2>3. \A j : j \in (a + 1)..(n - 1) <=> (j \in 1..N /\ a < j /\ j < n)
    BY <1>1, <2>1
  <2> QED  BY <2>2, <2>3, Zenon
<1> QED  BY <1>1, <1>5 DEF at

(* What next() consumes is a frame that was sent, under its own number.    *)
LEMMA ConsumedWasSent ==
  ASSUME DamageIsSeen, BufferHolds, Consume
  PROVE  /\ Offset \in Nat /\ Offset' \in Nat /\ Offset <= Offset' /\ Field(3) \in Nat /\ Field(5) \in Nat
         /\ HeadersOf(stream) =>
              \E n \in DOMAIN stream.sent :
                 /\ stream.sent[n].at = Offset /\ Offset' = Offset + Size(stream.sent[n])
                 /\ Field(3) = stream.sent[n].type /\ Field(5) = stream.sent[n].seq
<1>1. /\ Buffered >= kHeaderSize /\ Plausible /\ Buffered >= FrameLen /\ fletcher16(Body) = Field(6)
      /\ compact(rpos + FrameLen, << >>) /\ UNCHANGED <<stream, fed, origin>>
  BY DEF Consume, source
<1>2. /\ rpos \in Nat /\ Len(buf) \in Nat /\ Offset \in Nat /\ Arrived \in Seq(Nat)
      /\ Begins(Arrived, stream.units)
  BY BufferFacts
<1>3. /\ BodyLen \in Nat /\ EndAt(Arrived, Offset) = Offset + FrameLen
      /\ \A i \in 0..6 : Field(i) = Arrived[Offset + i + 1] /\ Field(i) \in Nat
      /\ Offset + kHeaderSize <= Len(Arrived)
  BY <1>1, HeaderFacts, Zenon
<1>4. FrameLen \in Nat
  BY <1>3 DEF FrameLen, kHeaderSize
<1>5. Offset' = Offset + FrameLen
  <2> DEFINE r == rpos + FrameLen
  <2>1. r \in rpos..Len(buf) /\ r - rpos = FrameLen /\ compact(r, << >>)
    BY <1>1, <1>2, <1>4 DEF Buffered
  <2> HIDE DEF r
  <2>2. Offset' = Offset + (r - rpos)
    BY <1>1, <2>1, Moved
  <2> QED  BY <2>1, <2>2
<1>6. Offset' \in Nat /\ Offset <= Offset'
  BY <1>2, <1>4, <1>5
<1>7. FrameAt(Arrived, Offset)
  BY <1>1, Judged, Zenon
<1>8. Field(3) = Arrived[Offset + 3 + 1] /\ Field(5) = Arrived[Offset + 5 + 1] /\ Field(3) \in Nat /\ Field(5) \in Nat
  <2>1. 3 \in 0..6 /\ 5 \in 0..6
    OBVIOUS
  <2> QED  BY <1>3, <2>1, Zenon
<1>9. ASSUME HeadersOf(stream)
      PROVE  \E n \in DOMAIN stream.sent :
               /\ stream.sent[n].at = Offset /\ Offset' = Offset + Size(stream.sent[n])
               /\ Field(3) = stream.sent[n].type /\ Field(5) = stream.sent[n].seq
  <2> DEFINE o == Offset
             a == Arrived
             u == stream.units
  <2> HIDE DEF o, a
  <2>1. PICK n \in DOMAIN stream.sent : stream.sent[n].at = o /\ EndAt(a, o) = o + Size(stream.sent[n])
    BY <1>2, <1>7, DecodedWasSent DEF o, a
  <2> DEFINE f == stream.sent[n]
             e == encode(f.type, f.seq, f.body)
  <2>2. stream \in Streams
    BY DEF BufferHolds
  <2>3. /\ f.type \in Nat /\ f.seq \in Nat /\ f.body \in Seq(Nat) /\ Len(f.body) \in Nat /\ Size(f) = 7 + Len(f.body)
        /\ \A k \in 1..Size(f) : f.at + k - 1 \notin stream.damaged => u[f.at + k] = e[k]
    BY <2>2, SentFacts, Zenon
  <2>4. e[4] = f.type /\ e[6] = f.seq
    <3> DEFINE type == f.type
               seq == f.seq
               body == f.body
    <3>1. type \in Nat /\ seq \in Nat /\ body \in Seq(Nat)
      BY <2>3
    <3> HIDE DEF type, seq, body
    <3>2. encode(type, seq, body)[4] = type /\ encode(type, seq, body)[6] = seq
      BY <3>1, EncodeFacts
    <3> QED  BY <3>2 DEF type, seq, body
  <2>5. o + 3 \notin stream.damaged /\ o + 5 \notin stream.damaged
    <3>1. stream.damaged \cap {f.at + 3, f.at + 5} = {}
      BY <1>9, Zenon DEF HeadersOf
    <3> QED  BY <2>1, <3>1
  <2>6. 4 \in 1..Size(f) /\ 6 \in 1..Size(f)
    <3> DEFINE b == Len(f.body)
               z == Size(f)
    <3>1. b \in Nat /\ z = 7 + b
      BY <2>3, Zenon
    <3> HIDE DEF b, z
    <3>2. 4 \in 1..z /\ 6 \in 1..z
      BY <3>1
    <3> QED  BY <3>2 DEF z
  <2>7. o \in Nat /\ o + 4 - 1 = o + 3 /\ o + 6 - 1 = o + 5 /\ o + 3 + 1 = o + 4 /\ o + 5 + 1 = o + 6
    BY <1>2 DEF o
  <2>8. u[o + 4] = f.type /\ u[o + 6] = f.seq
    <3>1. (o + 4 - 1 \notin stream.damaged => u[o + 4] = e[4]) /\ (o + 6 - 1 \notin stream.damaged => u[o + 6] = e[6])
      BY <2>1, <2>3, <2>6, Zenon
    <3> QED  BY <2>4, <2>5, <2>7, <3>1, Zenon
  <2>9. a[o + 4] = u[o + 4] /\ a[o + 6] = u[o + 6]
    <3>1. o + 7 <= Len(a) /\ Begins(a, u) /\ Len(a) \in Nat
      BY <1>2, <1>3 DEF o, a, kHeaderSize
    <3>2. o + 4 \in 1..Len(a) /\ o + 6 \in 1..Len(a)
      BY <2>7, <3>1
    <3> QED  BY <3>1, <3>2, Zenon DEF Begins
  <2>10. Field(3) = f.type /\ Field(5) = f.seq
    <3>1. Field(3) = a[o + 3 + 1] /\ Field(5) = a[o + 5 + 1]
      BY <1>8 DEF o, a
    <3> QED  BY <2>7, <2>8, <2>9, <3>1, Zenon
  <2>11. Offset' = o + Size(f)
    BY <1>3, <1>5, <2>1 DEF o, a
  <2> QED  BY <2>1, <2>10, <2>11 DEF o
<1> QED  BY <1>2, <1>6, <1>8, <1>9, Zenon

MissingOf(hs, ns, seq) == IF hs /\ seq > ns THEN seq - ns ELSE 0
NextOf(hs, ns, seq)    == IF hs /\ seq < ns THEN ns ELSE Successor(seq)

(* The numbers kept are numbers.                                           *)
LEMMA AccountTypes ==
  ASSUME NEW hs \in BOOLEAN, NEW ns \in Nat, NEW seq \in Nat
  PROVE  MissingOf(hs, ns, seq) \in Nat /\ NextOf(hs, ns, seq) \in Nat
<1>1. Successor(seq) \in Nat
  <2>1. SeqLimit \in Nat /\ SeqLimit > 0
    BY DecoderAssumption
  <2> QED  BY <2>1 DEF Successor
<1> QED  BY <1>1 DEF MissingOf, NextOf

(* The n-th frame follows the last one accounted for, and its number tells *)
(* how many were sent in between.                                          *)
Accounted(s, n, ns, hs) ==
    /\ NextOf(hs, ns, s.sent[n].seq) = Successor(s.sent[n].seq)
    /\ \A c \in DOMAIN s.sent : hs /\ LastIs(s, c, ns, s.sent[n].at)
          => c < n /\ MissingOf(hs, ns, s.sent[n].seq) = n - c - 1

(* Accounting for the next frame of the stream that arrived.               *)
LEMMA AccountFacts ==
  ASSUME NEW s \in Streams, NEW d, NEW ns, NEW pg, NEW hs, NEW n \in DOMAIN s.sent,
         HeadersOf(s), GapsAre(s, d, ns, pg, hs, s.sent[n].at)
  PROVE  Accounted(s, n, ns, hs)
<1> DEFINE seq == s.sent[n].seq
<1>1. hs \in BOOLEAN /\ ns \in Nat /\ (hs => \E c \in DOMAIN s.sent : LastIs(s, c, ns, s.sent[n].at))
  BY Zenon DEF GapsAre
<1>2. seq \in Nat
  BY SentFacts, Zenon
<1>3. ASSUME NEW c \in DOMAIN s.sent, hs, LastIs(s, c, ns, s.sent[n].at)
      PROVE  c < n /\ ~(seq < ns) /\ MissingOf(hs, ns, seq) = n - c - 1
  <2>1. c \in Nat /\ n \in Nat /\ c < n /\ ns \in Nat /\ ns <= seq /\ seq - ns = n - c - 1
    BY <1>3, NumbersTell
  <2> HIDE DEF seq
  <2>2. ~(seq < ns) /\ (IF seq > ns THEN seq - ns ELSE 0) = n - c - 1
    BY <1>2, <2>1
  <2> QED  BY <1>3, <2>1, <2>2 DEF MissingOf
<1>4. NextOf(hs, ns, seq) = Successor(seq)
  BY <1>1, <1>3, Zenon DEF NextOf
<1> QED  BY <1>3, <1>4, Zenon DEF Accounted

(* What the gap comes to, for the numbers of the frames around it.         *)
LEMMA GapBounds ==
  ASSUME NEW a \in Nat, NEW c \in Nat, NEW n \in Nat, a <= c, c < n,
         NEW x \in Nat, NEW y \in Nat, y <= x + (n - c - 1), NEW pg \in Nat, pg \in x..(c - a),
         NEW miss, miss = n - c - 1
  PROVE  pg + miss \in y..(n - 1 - a)
  OBVIOUS

(* A frame of an unknown type keeps the gap before it.                     *)
LEMMA GapsSkip ==
  ASSUME NEW s \in Streams, NEW d, NEW ns, NEW pg, NEW hs, NEW o \in Nat, NEW o2 \in Nat, NEW seq \in Nat,
         GapsAre(s, d, ns, pg, hs, o),
         HeadersOf(s) => \E n \in DOMAIN s.sent :
            /\ s.sent[n].at = o /\ o2 = o + Size(s.sent[n]) /\ seq = s.sent[n].seq
            /\ s.sent[n].type \notin DOMAIN BodySizes
  PROVE  GapsAre(s, d, NextOf(hs, ns, seq), pg + MissingOf(hs, ns, seq), TRUE, o2)
<1> DEFINE ns2 == NextOf(hs, ns, seq)
           miss == MissingOf(hs, ns, seq)
<1>1. ns \in Nat /\ pg \in Nat /\ hs \in BOOLEAN /\ d \in Seq(Delivered)
  BY Zenon DEF GapsAre
<1>2. ns2 \in Nat /\ miss \in Nat
  BY <1>1, AccountTypes, Zenon
<1> HIDE DEF ns2, miss
<1>3. pg + miss \in Nat
  BY <1>1, <1>2
<1>4. ASSUME HeadersOf(s)
      PROVE  /\ \E c \in DOMAIN s.sent : LastIs(s, c, ns2, o2)
             /\ Len(d) > 0 => \E a, c \in DOMAIN s.sent : LastIs(s, c, ns2, o2) /\ Carries(s, a, c, d, pg + miss)
             /\ \A i \in 1..(Len(d) - 1) : Reported(s, d, i)
  <2>1. PICK n \in DOMAIN s.sent : /\ s.sent[n].at = o /\ o2 = o + Size(s.sent[n]) /\ seq = s.sent[n].seq
                                   /\ s.sent[n].type \notin DOMAIN BodySizes
    BY <1>4
  <2>2. /\ ns2 = Successor(seq)
        /\ \A c \in DOMAIN s.sent : hs /\ LastIs(s, c, ns, o) => c < n /\ miss = n - c - 1
    <3>1. GapsAre(s, d, ns, pg, hs, s.sent[n].at)
      BY <2>1
    <3>2. Accounted(s, n, ns, hs)
      BY <1>4, <3>1, AccountFacts, Zenon
    <3> QED  BY <2>1, <3>2, Zenon DEF Accounted, ns2, miss
  <2>3. LastIs(s, n, ns2, o2)
    BY <2>1, <2>2, SMTT(40) DEF LastIs
  <2>4. ASSUME Len(d) > 0
        PROVE  \E a, c \in DOMAIN s.sent : LastIs(s, c, ns2, o2) /\ Carries(s, a, c, d, pg + miss)
    <3>1. PICK a, c \in DOMAIN s.sent : hs /\ LastIs(s, c, ns, o) /\ Carries(s, a, c, d, pg)
      BY <1>4, <2>4, Zenon DEF GapsAre
    <3>2. c < n /\ miss = n - c - 1 /\ a <= c /\ d[Len(d)].at = s.sent[a].at
          /\ pg \in Cardinality(Lost(s, a + 1, c))..(c - a)
      BY <2>2, <3>1, Zenon DEF Carries
    <3>3. a \in Nat /\ c \in Nat /\ n \in Nat
      <4>1. DOMAIN s.sent = 1..Len(s.sent) /\ Len(s.sent) \in Nat
        BY SentFacts, Zenon
      <4> QED  BY <4>1
    <3> DEFINE x == Cardinality(Lost(s, a + 1, c))
               y == Cardinality(Lost(s, a + 1, n - 1))
    <3>4. x \in Nat /\ y \in Nat /\ y <= x + (n - c - 1)
      BY <3>2, <3>3, LostFacts, Zenon
    <3>5. Lost(s, a + 1, n) = Lost(s, a + 1, n - 1)
      <4>1. \A j : j \in (a + 1)..n <=> j \in (a + 1)..(n - 1) \/ j = n
        BY <3>2, <3>3, SMTT(40)
      <4> QED  BY <2>1, <4>1, Zenon DEF Lost
    <3>6. pg + miss \in y..(n - a) /\ a <= n
      <4> HIDE DEF x, y
      <4>1. pg \in x..(c - a)
        BY <3>2 DEF x
      <4>2. c < n /\ miss = n - c - 1 /\ a <= c
        BY <3>2, Zenon
      <4>3. pg + miss \in y..(n - 1 - a)
        BY <1>1, <3>3, <3>4, <4>1, <4>2, GapBounds, Zenon
      <4>4. a <= n /\ \A g \in y..(n - 1 - a) : g \in y..(n - a)
        BY <3>3, <3>4, <4>2, SMTT(40)
      <4> QED  BY <4>3, <4>4, Zenon
    <3>7. Carries(s, a, n, d, pg + miss)
      BY <3>2, <3>5, <3>6, Zenon DEF Carries
    <3> QED  BY <2>3, <3>7, Zenon
  <2>5. \A i \in 1..(Len(d) - 1) : Reported(s, d, i)
    BY <1>4, Zenon DEF GapsAre
  <2> QED  BY <2>3, <2>4, <2>5, Zenon
<1>5. GapsAre(s, d, ns2, pg + miss, TRUE, o2)
  BY <1>1, <1>2, <1>3, <1>4, Zenon DEF GapsAre
<1> QED  BY <1>5, Zenon DEF ns2, miss

(* A message that is delivered reports the gap.                            *)
LEMMA GapsDeliver ==
  ASSUME NEW s \in Streams, NEW d, NEW ns, NEW pg, NEW hs, NEW o \in Nat, NEW o2 \in Nat, NEW seq \in Nat,
         NEW r \in Delivered, r.at = o, r.gap_before = pg + MissingOf(hs, ns, seq),
         GapsAre(s, d, ns, pg, hs, o),
         HeadersOf(s) => \E n \in DOMAIN s.sent :
            s.sent[n].at = o /\ o2 = o + Size(s.sent[n]) /\ seq = s.sent[n].seq
  PROVE  GapsAre(s, Append(d, r), NextOf(hs, ns, seq), 0, TRUE, o2)
<1> DEFINE ns2 == NextOf(hs, ns, seq)
           miss == MissingOf(hs, ns, seq)
           e == Append(d, r)
           m == Len(d)
<1>1. ns \in Nat /\ pg \in Nat /\ hs \in BOOLEAN /\ d \in Seq(Delivered)
  BY Zenon DEF GapsAre
<1>2. ns2 \in Nat /\ miss \in Nat
  BY <1>1, AccountTypes
<1>3. e \in Seq(Delivered) /\ m \in Nat /\ Len(e) = m + 1 /\ (\A i \in 1..m : e[i] = d[i]) /\ e[m + 1] = r
  <2>1. m \in Nat
    BY <1>1
  <2>2. Append(d, r) \in Seq(Delivered) /\ Len(Append(d, r)) = Len(d) + 1
        /\ (\A i \in 1..Len(d) : Append(d, r)[i] = d[i]) /\ Append(d, r)[Len(d) + 1] = r
    BY <1>1, AppendProperties
  <2> QED  BY <2>1, <2>2, Zenon
<1>4. r.gap_before = pg + miss
  OBVIOUS
<1> HIDE DEF ns2, miss, e, m
<1>5. ASSUME HeadersOf(s)
      PROVE  /\ \E c \in DOMAIN s.sent : LastIs(s, c, ns2, o2)
             /\ \E a, c \in DOMAIN s.sent : LastIs(s, c, ns2, o2) /\ Carries(s, a, c, e, 0)
             /\ \A i \in 1..(Len(e) - 1) : Reported(s, e, i)
  <2>1. PICK n \in DOMAIN s.sent : s.sent[n].at = o /\ o2 = o + Size(s.sent[n]) /\ seq = s.sent[n].seq
    BY <1>5
  <2>2. /\ ns2 = Successor(seq)
        /\ \A c \in DOMAIN s.sent : hs /\ LastIs(s, c, ns, o) => c < n /\ miss = n - c - 1
    <3>1. GapsAre(s, d, ns, pg, hs, s.sent[n].at)
      BY <2>1
    <3>2. Accounted(s, n, ns, hs)
      BY <1>5, <3>1, AccountFacts, Zenon
    <3> QED  BY <2>1, <3>2, Zenon DEF Accounted, ns2, miss
  <2>3. LastIs(s, n, ns2, o2)
    BY <2>1, <2>2 DEF LastIs
  <2>4. DOMAIN s.sent = 1..Len(s.sent) /\ Len(s.sent) \in Nat
    BY SentFacts, Zenon
  <2>5. Carries(s, n, n, e, 0)
    <3>1. n \in Nat
      BY <2>4
    <3>2. Lost(s, n + 1, n) = {}
      <4>1. \A j : j \notin (n + 1)..n
        BY <3>1
      <4> QED  BY <4>1, Zenon DEF Lost
    <3>3. Cardinality(Lost(s, n + 1, n)) = 0
      BY <3>2, FS_EmptySet
    <3>4. n <= n /\ 0 \in 0..(n - n)
      BY <3>1
    <3>5. e[Len(e)].at = s.sent[n].at
      BY <1>3, <2>1
    <3> QED  BY <3>3, <3>4, <3>5, Zenon DEF Carries
  <2>6. ASSUME NEW i \in 1..(Len(e) - 1) PROVE Reported(s, e, i)
    <3>1. CASE i < m
      <4>1. i \in 1..(m - 1) /\ i \in 1..m /\ i + 1 \in 1..m
        BY <1>3, <2>6, <3>1
      <4>2. Reported(s, d, i)
        BY <1>5, <4>1, Zenon DEF GapsAre, m
      <4>3. e[i] = d[i] /\ e[i + 1] = d[i + 1]
        BY <1>3, <4>1
      <4> QED  BY <4>2, <4>3, Zenon DEF Reported
    <3>2. CASE ~(i < m)
      <4>1. i = m /\ m > 0 /\ m \in 1..m
        BY <1>3, <2>6, <3>2
      <4>2. PICK a, c \in DOMAIN s.sent : hs /\ LastIs(s, c, ns, o) /\ Carries(s, a, c, d, pg)
        BY <1>5, <4>1, Zenon DEF GapsAre, m
      <4>3. c < n /\ miss = n - c - 1 /\ a <= c /\ d[m].at = s.sent[a].at
            /\ pg \in Cardinality(Lost(s, a + 1, c))..(c - a)
        BY <2>2, <4>2, Zenon DEF Carries, m
      <4>4. a \in Nat /\ c \in Nat /\ n \in Nat /\ a < n
        <5>1. a \in Nat /\ c \in Nat /\ n \in Nat
          BY <2>4
        <5>2. c < n /\ a <= c
          BY <4>3, Zenon
        <5> QED  BY <5>1, <5>2
      <4>5. e[i].at = s.sent[a].at /\ e[i + 1].at = s.sent[n].at /\ e[i + 1].gap_before = pg + miss
        BY <1>3, <1>4, <2>1, <4>1, <4>3, Zenon
      <4> DEFINE skipped == {j \in DOMAIN s.sent : e[i].at < s.sent[j].at /\ s.sent[j].at < e[i + 1].at}
                 lost == {j \in skipped : s.sent[j].type \in DOMAIN BodySizes}
                 x == Cardinality(Lost(s, a + 1, c))
                 y == Cardinality(Lost(s, a + 1, n - 1))
      <4>6. skipped = (a + 1)..(n - 1)
        <5>1. {j \in DOMAIN s.sent : s.sent[a].at < s.sent[j].at /\ s.sent[j].at < s.sent[n].at} = (a + 1)..(n - 1)
          BY <4>4, BetweenFacts, Zenon
        <5> QED  BY <4>5, <5>1, Zenon
      <4>7. lost = Lost(s, a + 1, n - 1)
        BY <4>6, Zenon DEF Lost
      <4>8. Cardinality(skipped) = n - 1 - a
        <5>1. Cardinality((a + 1)..(n - 1)) = IF a + 1 > n - 1 THEN 0 ELSE (n - 1) - (a + 1) + 1
          <6>1. a + 1 \in Int /\ n - 1 \in Int
            BY <4>4
          <6> QED  BY <6>1, FS_Interval, Zenon
        <5>2. (IF a + 1 > n - 1 THEN 0 ELSE (n - 1) - (a + 1) + 1) = n - 1 - a
          BY <4>4
        <5> QED  BY <4>6, <5>1, <5>2, Zenon
      <4>9. x \in Nat /\ y \in Nat /\ y <= x + (n - c - 1)
        BY <4>3, <4>4, LostFacts, Zenon
      <4>10. pg + miss \in y..(n - 1 - a)
        <5>1. pg \in x..(c - a)
          BY <4>3
        <5> HIDE DEF x, y
        <5>2. c < n /\ miss = n - c - 1 /\ a <= c
          BY <4>3, Zenon
        <5> QED  BY <1>1, <4>4, <4>9, <5>1, <5>2, GapBounds, Zenon
      <4> HIDE DEF skipped
      <4>11. e[i + 1].gap_before \in Cardinality(lost)..Cardinality(skipped)
        BY <4>5, <4>7, <4>8, <4>10, Zenon
      <4> QED  BY <4>11, Zenon DEF Reported, skipped
    <3> QED  BY <3>1, <3>2
  <2> QED  BY <2>3, <2>5, <2>6, Zenon
<1>6. GapsAre(s, e, ns2, 0, TRUE, o2)
  <2>1. 0 \in Nat
    OBVIOUS
  <2> QED  BY <1>2, <1>3, <1>5, <2>1, Zenon DEF GapsAre
<1> QED  BY <1>6, Zenon DEF ns2, e

(* Where nothing was delivered nothing is missing.                         *)
LEMMA NoGaps ==
  ASSUME NEW s, NEW o
  PROVE  GapsAre(s, << >>, 0, 0, FALSE, o)
<1>1. << >> \in Seq(Delivered) /\ Len(<< >>) = 0
  BY EmptySeq
<1>2. 0 \in Nat /\ ~(0 > 0) /\ \A i \in 1..(0 - 1) : FALSE
  OBVIOUS
<1> QED  BY <1>1, <1>2, Zenon DEF GapsAre

(* How far next() is in the stream, by the bytes it counted.               *)
LEMMA OffsetIs ==
  ASSUME BufferHolds, BufferHolds', UNCHANGED <<origin, bytes_consumed, bytes_discarded>>
  PROVE  Offset' = Offset /\ Offset \in Nat /\ Offset <= Offset'
<1>1. Offset \in Nat /\ Buffered \in Nat /\ fed \in Nat /\ origin \in Nat
  BY BufferFacts
<1>2. fed' \in Int /\ Buffered' \in Int
  <2>1. buf' \in Seq(Nat) /\ rpos' \in 0..Len(buf') /\ stream' \in Streams /\ fed' \in 0..Len(stream'.units)
    BY Zenon DEF BufferHolds
  <2>2. fed' \in Int
    BY <2>1
  <2>3. Buffered' = Len(buf') - rpos' /\ Len(buf') \in Nat /\ rpos' \in Int
    BY <2>1 DEF Buffered
  <2> QED  BY <2>2, <2>3
<1>3. bytes_consumed \in Int /\ bytes_discarded \in Int /\ bytes_consumed + bytes_discarded + Buffered = fed - origin
  BY DEF BufferHolds
<1>4. bytes_consumed' + bytes_discarded' + Buffered' = fed' - origin'
  BY Zenon DEF BufferHolds
<1> DEFINE b == Buffered'
           f == fed'
           k == bytes_consumed + bytes_discarded
<1>5. b \in Int /\ f \in Int /\ k \in Int /\ k + Buffered = fed - origin /\ k + b = f - origin
  BY <1>2, <1>3, <1>4
<1>6. Offset' = f - b /\ Offset = fed - Buffered
  BY DEF Offset
<1> HIDE DEF b, f, k
<1>7. f - b = fed - Buffered
  BY <1>1, <1>5
<1>8. Offset' = Offset
  BY <1>6, <1>7
<1> QED  BY <1>1, <1>8

(* No step loses count of what was lost.                                   *)
LEMMA GapsKept ==
  ASSUME DamageIsSeen, BufferHolds, GapsHold, [Next]_vars
  PROVE  GapsHold'
<1>1. stream \in Streams /\ Offset \in Nat /\ bytes_consumed \in Int /\ bytes_discarded \in Int
  BY BufferFacts DEF BufferHolds
<1>2. GapsAre(stream, delivered, next_seq, pending_gap, have_seq, Offset)
  BY DEF GapsHold
<1>3. ASSUME UNCHANGED <<stream, delivered, next_seq, pending_gap, have_seq>>, Offset' \in Nat, Offset <= Offset'
      PROVE  GapsHold'
  <2> DEFINE o2 == Offset'
  <2>1. o2 \in Nat /\ Offset <= o2
    BY <1>3
  <2> HIDE DEF o2
  <2>2. GapsAre(stream, delivered, next_seq, pending_gap, have_seq, o2)
    BY <1>1, <1>2, <2>1, GapsFurther
  <2>3. GapsHold' <=> GapsAre(stream', delivered', next_seq', pending_gap', have_seq', o2)
    BY DEF GapsHold, o2
  <2> QED  BY <1>3, <2>2, <2>3
<1>4. ASSUME NEW n \in 1..Len(stream.units), feed(n)
      PROVE  GapsHold'
  <2>1. UNCHANGED <<stream, delivered, next_seq, pending_gap, have_seq>>
        /\ UNCHANGED <<origin, bytes_consumed, bytes_discarded>>
    BY <1>4 DEF feed, gaps, counts
  <2>2. BufferHolds'
    BY BufferKept, <1>4 DEF Next
  <2>3. Offset' \in Nat /\ Offset <= Offset'
    BY <1>1, <2>1, <2>2, OffsetIs
  <2> QED  BY <1>3, <2>1, <2>3
<1>5. ASSUME Call \/ Wait \/ UNCHANGED vars
      PROVE  GapsHold'
  <2>1. UNCHANGED <<stream, delivered, next_seq, pending_gap, have_seq>> /\ UNCHANGED <<buf, rpos, fed>>
    BY <1>5, Zenon DEF Call, Wait, vars, gaps, source
  <2>2. Offset' = Offset
    BY <2>1 DEF Offset, Buffered
  <2>3. Offset <= Offset
    BY <1>1
  <2> QED  BY <1>1, <1>3, <2>1, <2>2, <2>3
<1>6. ASSUME resync
      PROVE  GapsHold'
  <2>1. UNCHANGED <<stream, delivered, next_seq, pending_gap, have_seq>> /\ UNCHANGED <<fed, origin>>
        /\ Buffered >= kHeaderSize /\ compact(Hunt, << >>)
    BY <1>6, Zenon DEF resync, gaps, source
  <2> DEFINE h == Hunt
  <2>2. h \in rpos..Len(buf) /\ h \in Nat /\ rpos \in Nat /\ rpos <= h
    <3>1. h \in (rpos + 1)..(Len(buf) - 1)
      BY <2>1, HuntFacts
    <3>2. rpos \in Nat /\ Len(buf) \in Nat
      BY BufferFacts
    <3> HIDE DEF h
    <3> QED  BY <3>1, <3>2
  <2>3. Offset' = Offset + (h - rpos)
    <3>1. compact(h, << >>)
      BY <2>1
    <3> HIDE DEF h
    <3> QED  BY <2>1, <2>2, <3>1, Moved
  <2> HIDE DEF h
  <2>4. Offset' \in Nat /\ Offset <= Offset'
    BY <1>1, <2>2, <2>3
  <2> QED  BY <1>3, <2>1, <2>4
<1>7. ASSUME Deliver
      PROVE  GapsHold'
  <2> DEFINE o2 == Offset'
             seq == Field(5)
             type == Field(3)
             o == Offset
             r == [type |-> type, seq |-> seq, at |-> o, gap_before |-> pending_gap + MissingOf(have_seq, next_seq, seq)]
  <2>1. /\ Consume /\ stream' = stream /\ have_seq' = TRUE /\ next_seq' = NextOf(have_seq, next_seq, seq)
        /\ delivered' = Append(delivered, r) /\ pending_gap' = 0
    BY <1>7, Zenon DEF Deliver, Account, Consume, source, NextOf, MissingOf, Missing
  <2>2. /\ o \in Nat /\ o2 \in Nat /\ seq \in Nat /\ type \in Nat
        /\ HeadersOf(stream) => \E n \in DOMAIN stream.sent :
             stream.sent[n].at = o /\ o2 = o + Size(stream.sent[n]) /\ seq = stream.sent[n].seq
    BY <2>1, ConsumedWasSent, Zenon
  <2> HIDE DEF o2, seq, type, o
  <2>3. r \in Delivered /\ r.at = o /\ r.gap_before = pending_gap + MissingOf(have_seq, next_seq, seq)
    <3>1. next_seq \in Nat /\ have_seq \in BOOLEAN /\ pending_gap \in Nat
      BY <1>2, Zenon DEF GapsAre
    <3>2. MissingOf(have_seq, next_seq, seq) \in Nat
      BY <2>2, <3>1, AccountTypes
    <3>3. pending_gap + MissingOf(have_seq, next_seq, seq) \in Nat
      BY <3>1, <3>2
    <3> QED  BY <2>2, <3>3, Zenon DEF Delivered
  <2>4. GapsAre(stream, delivered, next_seq, pending_gap, have_seq, o)
    BY <1>2 DEF o
  <2> HIDE DEF r
  <2>5. GapsAre(stream, Append(delivered, r), NextOf(have_seq, next_seq, seq), 0, TRUE, o2)
    BY <1>1, <2>2, <2>3, <2>4, GapsDeliver, Zenon
  <2>6. GapsHold' <=> GapsAre(stream', delivered', next_seq', pending_gap', have_seq', o2)
    BY DEF GapsHold, o2
  <2> QED  BY <2>1, <2>5, <2>6, Zenon
<1>8. ASSUME SkipUnknown
      PROVE  GapsHold'
  <2> DEFINE o2 == Offset'
             seq == Field(5)
             o == Offset
  <2>1. /\ Consume /\ stream' = stream /\ have_seq' = TRUE /\ next_seq' = NextOf(have_seq, next_seq, seq)
        /\ delivered' = delivered /\ pending_gap' = pending_gap + MissingOf(have_seq, next_seq, seq)
        /\ Field(3) \notin DOMAIN BodySizes
    BY <1>8 DEF SkipUnknown, Account, Consume, source, NextOf, MissingOf, Missing, Known
  <2>2. /\ o \in Nat /\ o2 \in Nat /\ seq \in Nat
        /\ HeadersOf(stream) => \E n \in DOMAIN stream.sent :
             /\ stream.sent[n].at = o /\ o2 = o + Size(stream.sent[n]) /\ seq = stream.sent[n].seq
             /\ stream.sent[n].type \notin DOMAIN BodySizes
    BY <2>1, ConsumedWasSent, Zenon
  <2> HIDE DEF o2, seq, o
  <2>3. GapsAre(stream, delivered, next_seq, pending_gap, have_seq, o)
    BY <1>2 DEF o
  <2>4. GapsAre(stream, delivered, NextOf(have_seq, next_seq, seq),
                pending_gap + MissingOf(have_seq, next_seq, seq), TRUE, o2)
    BY <1>1, <2>2, <2>3, GapsSkip, Zenon
  <2>5. GapsHold' <=> GapsAre(stream', delivered', next_seq', pending_gap', have_seq', o2)
    BY DEF GapsHold, o2
  <2> QED  BY <2>1, <2>4, <2>5, Zenon
<1>9. ASSUME reset
      PROVE  GapsHold'
  <2>1. next_seq' = 0 /\ pending_gap' = 0 /\ have_seq' = FALSE /\ delivered' = << >>
    BY <1>9 DEF reset
  <2>2. GapsAre(stream', << >>, 0, 0, FALSE, Offset')
    BY NoGaps, Zenon
  <2> QED  BY <2>1, <2>2, Zenon DEF GapsHold
<1> QED  BY <1>4, <1>5, <1>6, <1>7, <1>8, <1>9 DEF Next, next

(* "Every message reports how many preceded it": when the checksum tells   *)
(* the damage, and neither a type nor a seq is damaged, the gap reported   *)
(* with a message counts every message lost since the one before, and      *)
(* nothing that was not sent; and no byte fed is unaccounted for.          *)
THEOREM NoLossIsSilent ==
  ASSUME DamageIsSeen
  PROVE  Spec => []NoSilentLoss
<1>1. Init => BufferHolds /\ GapsHold
  <2> SUFFICES ASSUME Init PROVE GapsHold
    BY DecoderStarts
  <2>1. next_seq = 0 /\ pending_gap = 0 /\ have_seq = FALSE /\ delivered = << >>
    BY DEF Init
  <2>2. GapsAre(stream, << >>, 0, 0, FALSE, Offset)
    BY NoGaps, Zenon
  <2> QED  BY <2>1, <2>2, Zenon DEF GapsHold
<1>2. BufferHolds /\ GapsHold /\ [Next]_vars => BufferHolds' /\ GapsHold'
  BY BufferKept, GapsKept
<1>3. BufferHolds /\ GapsHold => NoSilentLoss
  <2> SUFFICES ASSUME BufferHolds, GapsHold PROVE NoSilentLoss
    OBVIOUS
  <2>1. bytes_consumed + bytes_discarded + Buffered = fed - origin
    BY DEF BufferHolds
  <2>2. HeadersHold => HeadersOf(stream)
    BY DEF HeadersHold, HeadersOf
  <2>3. HeadersHold => \A i \in 1..(Len(delivered) - 1) : Reported(stream, delivered, i)
    BY <2>2, Zenon DEF GapsHold, GapsAre
  <2> QED  BY <2>1, <2>3, Zenon DEF NoSilentLoss, Reported, Between
<1> QED  BY <1>1, <1>2, <1>3, PTL DEF Spec

=============================================================================
