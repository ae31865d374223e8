-------------------------- MODULE NetWorkBufferProofs --------------------------
(***************************************************************************)
(* Proofs about NetWorkBuffer, for every set of byte values and all sizes: *)
(* the indices stay inside the array, and the buffer implements a queue of *)
(* bytes (ByteFifo).  The type invariant is inductive; the refinement      *)
(* compares the readable bytes before and after a write one by one.        *)
(*                                                                         *)
(* Then about the frames that go through such a buffer (Framing), however  *)
(* they are cut up: they arrive in order, as long as none is longer than   *)
(* its length can say.                                                     *)
(***************************************************************************)
EXTENDS Framing, SequenceTheorems, TLAPS

USE DEF readAbleBytes, writeAbleBytes

\* What is written is a sequence of bytes.
LEMMA DataIsSeq == ASSUME NEW data \in Data PROVE data \in Seq(Byte)
  BY ConstantAssumption DEF Data

\* The array after a memcpy that stays inside it.
LEMMA CopiedIsArray ==
  ASSUME NEW n \in Nat, NEW b \in [0 .. n - 1 -> Byte], NEW at \in Nat,
         NEW data \in Seq(Byte), at + Len(data) <= n
  PROVE  /\ Copied(b, at, data) \in [0 .. n - 1 -> Byte]
         /\ \A i \in 0 .. n - 1 :
              Copied(b, at, data)[i] =
                IF i \in at .. at + Len(data) - 1 THEN data[i - at + 1] ELSE b[i]
  BY DEF Copied

\* The readable bytes as a sequence.
LEMMA ContentIsSeq ==
  ASSUME TypeOK
  PROVE  /\ Content \in Seq(Byte) /\ Len(Content) = readAbleBytes
         /\ readAbleBytes \in Nat
         /\ \A i \in 1..readAbleBytes : Content[i] = buffer_[read_index_ + i - 1]
<1>1. readAbleBytes \in Nat /\ Content \in [1..readAbleBytes -> Byte]
  BY DEF TypeOK, Content
<1> QED
  BY <1>1 DEF Content

\* The types after a step, and the readable bytes.
LEMMA TypesAfter ==
  ASSUME TypeOK'
  PROVE  /\ size_' \in Nat /\ read_index_' \in 0..write_index_' /\ write_index_' \in 0..size_'
         /\ buffer_' \in [0 .. size_' - 1 -> Byte]
  BY DEF TypeOK

LEMMA ContentAfter ==
  ASSUME TypeOK'
  PROVE  /\ Content' \in Seq(Byte) /\ Len(Content') = readAbleBytes'
         /\ readAbleBytes' \in Nat
         /\ \A i \in 1..readAbleBytes' : Content'[i] = buffer_'[read_index_' + i - 1]
<1>1. readAbleBytes' \in Nat /\ Content' \in [1..readAbleBytes' -> Byte]
  BY TypesAfter DEF Content
<1> QED
  BY <1>1 DEF Content

LEMMA TypeInit == Init => TypeOK
  BY ConstantAssumption DEF ConstantAssumption, Init, TypeOK

LEMMA InPlaceTyped ==
  ASSUME TypeOK, NEW data \in Seq(Byte), WriteInPlace(data), result' = <<>>
  PROVE  TypeOK'
<1>1. buffer_' \in [0 .. size_ - 1 -> Byte]
  BY CopiedIsArray DEF TypeOK, WriteInPlace
<1> QED
  BY <1>1 DEF TypeOK, WriteInPlace

\* The array once data is put behind its readable bytes.
LEMMA InPlaceArray ==
  ASSUME TypeOK, NEW data \in Seq(Byte), WriteInPlace(data)
  PROVE  /\ \A i \in 0 .. write_index_ - 1 : buffer_'[i] = buffer_[i]
         /\ \A i \in write_index_ .. write_index_ + Len(data) - 1 :
              buffer_'[i] = data[i - write_index_ + 1]
<1>1. /\ size_ \in Nat /\ buffer_ \in [0 .. size_ - 1 -> Byte] /\ write_index_ \in Nat
      /\ write_index_ + Len(data) <= size_ /\ Len(data) \in Nat
  BY DEF TypeOK, WriteInPlace
<1>2. \A i \in 0 .. size_ - 1 :
        Copied(buffer_, write_index_, data)[i] =
          IF i \in write_index_ .. write_index_ + Len(data) - 1
          THEN data[i - write_index_ + 1] ELSE buffer_[i]
  BY <1>1, CopiedIsArray
<1>3. buffer_' = Copied(buffer_, write_index_, data)
  BY DEF WriteInPlace
<1>4. ASSUME NEW i \in 0 .. write_index_ - 1 PROVE buffer_'[i] = buffer_[i]
  BY <1>1, <1>2, <1>3
<1>5. ASSUME NEW i \in write_index_ .. write_index_ + Len(data) - 1
      PROVE  buffer_'[i] = data[i - write_index_ + 1]
  BY <1>1, <1>2, <1>3
<1> QED
  BY <1>4, <1>5

\* The array once its readable bytes are moved to the front and data put behind.
LEMMA CompactedArray ==
  ASSUME TypeOK, NEW data \in Seq(Byte), WriteCompacting(data)
  PROVE  /\ buffer_' \in [0 .. size_ - 1 -> Byte]
         /\ \A i \in 0 .. readAbleBytes - 1 : buffer_'[i] = Content[i + 1]
         /\ \A i \in readAbleBytes .. readAbleBytes + Len(data) - 1 :
              buffer_'[i] = data[i - readAbleBytes + 1]
<1> DEFINE moved == Copied(buffer_, 0, Content)
<1>1. /\ moved \in [0 .. size_ - 1 -> Byte]
      /\ \A i \in 0 .. size_ - 1 :
           moved[i] = IF i \in 0 .. Len(Content) - 1 THEN Content[i + 1] ELSE buffer_[i]
  <2>1. /\ size_ \in Nat /\ 0 \in Nat /\ buffer_ \in [0 .. size_ - 1 -> Byte]
        /\ Content \in Seq(Byte) /\ 0 + Len(Content) <= size_
    BY ContentIsSeq DEF TypeOK
  <2>2. /\ moved \in [0 .. size_ - 1 -> Byte]
        /\ \A i \in 0 .. size_ - 1 :
             moved[i] = IF i \in 0 .. 0 + Len(Content) - 1 THEN Content[i - 0 + 1] ELSE buffer_[i]
    BY ONLY <2>1, CopiedIsArray DEF moved
  <2> QED
    BY <2>1, <2>2
<1>2. readAbleBytes + Len(data) <= size_ /\ readAbleBytes \in Nat /\ size_ \in Nat
  BY DEF TypeOK, WriteCompacting
<1>3. buffer_' = Copied(moved, readAbleBytes, data)
  BY DEF WriteCompacting
<1> HIDE DEF moved
<1>4. /\ buffer_' \in [0 .. size_ - 1 -> Byte]
      /\ \A i \in 0 .. size_ - 1 :
           buffer_'[i] = IF i \in readAbleBytes .. readAbleBytes + Len(data) - 1
                         THEN data[i - readAbleBytes + 1] ELSE moved[i]
  <2>1. /\ Copied(moved, readAbleBytes, data) \in [0 .. size_ - 1 -> Byte]
        /\ \A i \in 0 .. size_ - 1 :
             Copied(moved, readAbleBytes, data)[i] =
               IF i \in readAbleBytes .. readAbleBytes + Len(data) - 1
               THEN data[i - readAbleBytes + 1] ELSE moved[i]
    <3> HIDE DEF readAbleBytes
    <3> QED
      BY ONLY ZenonT(30), <1>1, <1>2, data \in Seq(Byte), CopiedIsArray
  <2> QED
    BY ONLY <1>3, <2>1
<1>5. Len(data) \in Nat /\ Len(Content) = readAbleBytes
  BY ContentIsSeq
<1>6. ASSUME NEW i \in 0 .. readAbleBytes - 1 PROVE buffer_'[i] = Content[i + 1]
  <2>1. i \in 0 .. size_ - 1 /\ i \notin readAbleBytes .. readAbleBytes + Len(data) - 1
    BY <1>2, <1>5
  <2> QED
    BY <2>1, <1>1, <1>4, <1>5
<1>7. ASSUME NEW i \in readAbleBytes .. readAbleBytes + Len(data) - 1
      PROVE  buffer_'[i] = data[i - readAbleBytes + 1]
  <2>1. i \in 0 .. size_ - 1
    BY <1>2, <1>5
  <2> QED
    BY <2>1, <1>4
<1> QED
  BY <1>4, <1>6, <1>7

LEMMA CompactingTyped ==
  ASSUME TypeOK, NEW data \in Seq(Byte), WriteCompacting(data), result' = <<>>
  PROVE  TypeOK'
  BY CompactedArray DEF TypeOK, WriteCompacting

\* The larger array: the old one copied, and data behind its readable bytes.
LEMMA GrownArray ==
  ASSUME TypeOK, NEW data \in Seq(Byte), WriteGrowing(data)
  PROVE  /\ buffer_' \in [0 .. size_ + Len(data) - 1 -> Byte]
         /\ \A i \in 0 .. write_index_ - 1 : buffer_'[i] = buffer_[i]
         /\ \A i \in write_index_ .. write_index_ + Len(data) - 1 :
              buffer_'[i] = data[i - write_index_ + 1]
<1> DEFINE n == size_ + Len(data)
           grown == [i \in 0 .. size_ + Len(data) - 1 |-> IF i < size_ THEN buffer_[i] ELSE Junk]
<1>1. n \in Nat /\ grown \in [0 .. n - 1 -> Byte] /\ write_index_ + Len(data) <= n
  BY ConstantAssumption DEF ConstantAssumption, TypeOK
<1>2. buffer_' = Copied(grown, write_index_, data)
  BY DEF WriteGrowing
<1>3. \A i \in 0 .. write_index_ - 1 : grown[i] = buffer_[i]
  BY DEF TypeOK
<1> HIDE DEF grown
<1>4. /\ buffer_' \in [0 .. n - 1 -> Byte]
      /\ \A i \in 0 .. n - 1 :
           buffer_'[i] = IF i \in write_index_ .. write_index_ + Len(data) - 1
                         THEN data[i - write_index_ + 1] ELSE grown[i]
  <2>1. write_index_ \in Nat
    BY DEF TypeOK
  <2> HIDE DEF n
  <2> QED
    BY ONLY <1>1, <1>2, <2>1, data \in Seq(Byte), CopiedIsArray
<1> QED
  BY <1>1, <1>3, <1>4 DEF TypeOK

LEMMA GrowingTyped ==
  ASSUME TypeOK, NEW data \in Seq(Byte), WriteGrowing(data), result' = <<>>
  PROVE  TypeOK'
<1>1. buffer_' \in [0 .. size_' - 1 -> Byte]
  <2>1. size_' = size_ + Len(data)
    BY DEF WriteGrowing
  <2>2. buffer_' \in [0 .. size_ + Len(data) - 1 -> Byte]
    BY GrownArray
  <2> QED
    BY <2>1, <2>2 DEF TypeOK
<1>2. size_' \in Nat /\ read_index_' \in 0 .. write_index_' /\ write_index_' \in 0 .. size_'
  BY DEF TypeOK, WriteGrowing
<1>3. result' \in Seq(Byte)
  OBVIOUS
<1> QED
  BY ONLY <1>1, <1>2, <1>3 DEF TypeOK

LEMMA ReadTyped ==
  ASSUME TypeOK, NEW n \in Counts, retrivevAsString(n)
  PROVE  TypeOK'
<1>1. n \in Nat
  BY ConstantAssumption DEF ConstantAssumption, Counts
<1>2. n <= readAbleBytes => SubSeq(Content, 1, n) \in Seq(Byte)
  BY <1>1, ContentIsSeq
<1>3. CASE n <= readAbleBytes
  BY <1>1, <1>2, <1>3 DEF TypeOK, retrivevAsString
<1>4. CASE ~(n <= readAbleBytes)
  BY <1>4 DEF TypeOK, retrivevAsString
<1> QED
  BY <1>3, <1>4

LEMMA TypeNext == TypeOK /\ [Next]_vars => TypeOK'
<1> SUFFICES ASSUME TypeOK, [Next]_vars PROVE TypeOK'
  OBVIOUS
<1>1. ASSUME NEW data \in Data, write(data) PROVE TypeOK'
  BY <1>1, DataIsSeq, InPlaceTyped, CompactingTyped, GrowingTyped DEF write
<1>2. ASSUME NEW n \in Counts, retrivevAsString(n) PROVE TypeOK'
  BY <1>2, ReadTyped
<1>3. CASE UNCHANGED vars
  BY <1>3 DEF vars, TypeOK
<1> QED
  BY <1>1, <1>2, <1>3 DEF Next

\* The read index never passes the write index, nor that one the end of the array,
\* whichever way a write made room.
THEOREM BufferTypeOK == Spec => []TypeOK
  BY TypeInit, TypeNext, PTL DEF Spec

-------------------------------------------------------------------------------
\* Each way of writing appends data to the readable bytes: shown byte by byte.
LEMMA WriteAppends ==
  ASSUME TypeOK, TypeOK', NEW data \in Seq(Byte),
         WriteInPlace(data) \/ WriteCompacting(data) \/ WriteGrowing(data)
  PROVE  Content' = Content \o data
<1> DEFINE n == readAbleBytes
<1>1. /\ Content \in Seq(Byte) /\ Len(Content) = n /\ n \in Nat
      /\ \A i \in 1..n : Content[i] = buffer_[read_index_ + i - 1]
  BY ContentIsSeq
<1>2. /\ Content' \in Seq(Byte) /\ Len(Content') = readAbleBytes'
      /\ \A i \in 1..readAbleBytes' : Content'[i] = buffer_'[read_index_' + i - 1]
  BY ContentAfter
<1>3. /\ Content \o data \in Seq(Byte) /\ Len(Content \o data) = n + Len(data)
      /\ \A i \in 1 .. n + Len(data) :
           (Content \o data)[i] = IF i <= n THEN Content[i] ELSE data[i - n]
  <2>1. /\ Content \o data \in Seq(Byte) /\ Len(Content \o data) = Len(Content) + Len(data)
        /\ \A i \in 1 .. Len(Content) + Len(data) :
             (Content \o data)[i] = IF i <= Len(Content) THEN Content[i] ELSE data[i - Len(Content)]
    BY ONLY <1>1, data \in Seq(Byte), ConcatProperties
  <2> QED
    BY ONLY <1>1, <2>1
<1>4. Len(data) \in Nat /\ read_index_ \in Nat /\ write_index_ \in Nat /\ size_ \in Nat
  BY DEF TypeOK
<1>5. /\ readAbleBytes' = n + Len(data)
      /\ \A i \in 1..n : buffer_'[read_index_' + i - 1] = Content[i]
      /\ \A i \in n + 1 .. n + Len(data) : buffer_'[read_index_' + i - 1] = data[i - n]
  <2>1. ASSUME write_index_' = write_index_ + Len(data), read_index_' = read_index_,
               \A i \in 0 .. write_index_ - 1 : buffer_'[i] = buffer_[i],
               \A i \in write_index_ .. write_index_ + Len(data) - 1 :
                 buffer_'[i] = data[i - write_index_ + 1]
        PROVE  /\ readAbleBytes' = n + Len(data)
               /\ \A i \in 1..n : buffer_'[read_index_' + i - 1] = Content[i]
               /\ \A i \in n + 1 .. n + Len(data) :
                    buffer_'[read_index_' + i - 1] = data[i - n]
    <3>1. n = write_index_ - read_index_ /\ n \in Nat
      BY <1>1
    <3>2. readAbleBytes' = n + Len(data)
      BY <1>4, <2>1, <3>1 DEF readAbleBytes
    <3> HIDE DEF n
    <3>3. ASSUME NEW i \in 1..n PROVE buffer_'[read_index_' + i - 1] = Content[i]
      <4>1. read_index_ + i - 1 \in 0 .. write_index_ - 1
        BY <1>4, <3>1
      <4> QED
        BY <1>1, <2>1, <4>1
    <3>4. ASSUME NEW i \in n + 1 .. n + Len(data)
          PROVE  buffer_'[read_index_' + i - 1] = data[i - n]
      <4>1. /\ read_index_ + i - 1 \in write_index_ .. write_index_ + Len(data) - 1
            /\ (read_index_ + i - 1) - write_index_ + 1 = i - n
        BY <1>4, <3>1
      <4> QED
        BY <2>1, <4>1
    <3> QED
      BY <3>2, <3>3, <3>4
  <2>2. CASE WriteCompacting(data)
    <3>1. read_index_' = 0 /\ write_index_' = n + Len(data)
      BY <2>2 DEF WriteCompacting
    <3>2. /\ \A i \in 0 .. n - 1 : buffer_'[i] = Content[i + 1]
          /\ \A i \in n .. n + Len(data) - 1 : buffer_'[i] = data[i - n + 1]
      BY <2>2, CompactedArray
    <3> HIDE DEF n
    <3> QED
      BY <1>1, <1>4, <3>1, <3>2 DEF readAbleBytes
  <2>3. CASE WriteInPlace(data)
    BY <2>1, <2>3, InPlaceArray DEF WriteInPlace
  <2>4. CASE WriteGrowing(data)
    BY <2>1, <2>4, GrownArray DEF WriteGrowing
  <2> QED
    BY <2>2, <2>3, <2>4
<1> HIDE DEF n
<1>6. Len(Content') = n + Len(data)
  BY ONLY <1>2, <1>5
<1>7. ASSUME NEW i \in 1 .. n + Len(data) PROVE Content'[i] = (Content \o data)[i]
  <2>1. Content'[i] = buffer_'[read_index_' + i - 1]
    BY <1>2, <1>5
  <2>2. CASE i <= n
    <3>1. i \in 1..n
      BY <1>1, <1>4, <2>2
    <3>2. (Content \o data)[i] = Content[i]
      BY <1>3, <2>2
    <3> QED
      BY <1>5, <2>1, <3>1, <3>2
  <2>3. CASE ~(i <= n)
    <3>1. i \in n + 1 .. n + Len(data)
      BY <1>1, <1>4, <2>3
    <3>2. (Content \o data)[i] = data[i - n]
      BY <1>3, <2>3
    <3> QED
      BY <1>5, <2>1, <3>1, <3>2
  <2> QED
    BY <2>2, <2>3
<1> QED
  BY ONLY <1>2, <1>3, <1>6, <1>7, SeqEqual

\* Reading n bytes leaves the others.
LEMMA ReadTakes ==
  ASSUME TypeOK, TypeOK', NEW n \in Nat, retrivevAsString(n)
  PROVE  Fifo!Take(n)
<1>1. /\ Content \in Seq(Byte) /\ Len(Content) = readAbleBytes /\ readAbleBytes \in Nat
      /\ \A i \in 1..readAbleBytes : Content[i] = buffer_[read_index_ + i - 1]
  BY ContentIsSeq
<1>2. /\ Content' \in Seq(Byte) /\ Len(Content') = readAbleBytes'
      /\ \A i \in 1..readAbleBytes' : Content'[i] = buffer_'[read_index_' + i - 1]
  BY ContentAfter
<1>3. CASE n <= readAbleBytes
  <2> DEFINE rest == SubSeq(Content, n + 1, Len(Content))
  <2>1. /\ rest \in Seq(Byte)
        /\ Len(rest) = Len(Content) - n
        /\ \A i \in 1 .. Len(Content) - n : rest[i] = Content[n + i]
    BY <1>1, <1>3
  <2>2. readAbleBytes' = Len(Content) - n
    BY <1>1, <1>3 DEF TypeOK, retrivevAsString, readAbleBytes
  <2>3. \A i \in 1 .. Len(Content) - n : Content'[i] = Content[n + i]
    BY SMTT(30), <1>1, <1>2, <1>3, <2>2 DEF TypeOK, retrivevAsString
  <2> HIDE DEF rest
  <2>4. Content' = rest
    BY ONLY <1>1, <1>2, <2>1, <2>2, <2>3, SeqEqual
  <2> QED
    BY <1>1, <1>3, <2>4 DEF rest, retrivevAsString, Fifo!Take
<1>4. CASE ~(n <= readAbleBytes)
  BY <1>1, <1>4 DEF retrivevAsString, Content, Fifo!Take
<1> QED
  BY <1>3, <1>4

LEMMA FifoInit == Init => Fifo!Init
  BY ConstantAssumption DEF ConstantAssumption, Init, Fifo!Init, Content

LEMMA FifoNext == TypeOK /\ TypeOK' /\ [Next]_vars => [Fifo!Next]_<<Content, result>>
<1> SUFFICES ASSUME TypeOK, TypeOK', [Next]_vars PROVE [Fifo!Next]_<<Content, result>>
  OBVIOUS
<1>1. ASSUME NEW data \in Data, write(data) PROVE Fifo!Next
  <2>1. Content' = Content \o data
    BY <1>1, DataIsSeq, WriteAppends DEF write
  <2> QED
    BY <1>1, <2>1 DEF write, Fifo!Next, Fifo!Put
<1>2. ASSUME NEW n \in Counts, retrivevAsString(n) PROVE Fifo!Next
  <2>1. n \in Nat
    BY ConstantAssumption DEF ConstantAssumption, Counts
  <2> QED
    BY <1>2, <2>1, ReadTakes DEF Fifo!Next
<1>3. CASE UNCHANGED vars
  BY <1>3 DEF vars, Content
<1> QED
  BY <1>1, <1>2, <1>3 DEF Next

\* The buffer implements the queue of bytes: neither compaction nor growth loses,
\* repeats or reorders a byte, for every size and every sequence of writes and reads.
THEOREM BufferIsFifo == Spec => FifoSpec
<1>1. Spec => Fifo!Init /\ [][Fifo!Next]_<<Content, result>>
  BY FifoInit, FifoNext, BufferTypeOK, PTL DEF Spec
<1> QED
  BY <1>1 DEF FifoSpec, Fifo!Spec
-------------------------------------------------------------------------------
(* The frames.  The stream between the two ends is what the client has not *)
(* cut up yet, what the buffer holds and what sendData has yet to put into *)
(* it; it is the end of the layout S of all frames sent, whose cuts c say  *)
(* where each frame ends.  Only ReadHead and ReadBody move along S, and    *)
(* only SendData makes it longer.                                          *)

LEMMA BytesAreNumbers == Byte \subseteq Nat /\ 2^Width \in Nat \ {0}
  BY FramingAssumption

LEMMA EmptyIsBytes == <<>> \in Seq(Byte)
  OBVIOUS

\* sendData puts at most three pieces into the buffer.
Flat(ss) ==
  IF ss = <<>> THEN <<>>
  ELSE IF Len(ss) = 1 THEN ss[1]
  ELSE IF Len(ss) = 2 THEN ss[1] \o ss[2]
  ELSE ss[1] \o (ss[2] \o ss[3])

Bytes == Seq(Byte)
Frames == [tag : Byte, body : Bytes]

Pieces == sending \in Seq(Bytes) /\ Len(sending) <= 3

FlowTypes ==
  /\ TypeOK /\ Pieces
  /\ data_ \in Seq(Byte)
  /\ sent \in Seq(Frames)
  /\ head_received_ \in BOOLEAN /\ body_len_ \in Nat

Stream == data_ \o (Content \o Flat(sending))

LEMMA PieceCount ==
  ASSUME NEW ss \in Seq(Bytes), ss # <<>>, Len(ss) <= 3
  PROVE  Len(ss) \in {1, 2, 3}
<1> DEFINE n == Len(ss)
<1>1. n \in Nat /\ n # 0 /\ n <= 3
  OBVIOUS
<1> HIDE DEF n
<1>2. n \in {1, 2, 3}
  BY <1>1
<1> QED
  BY <1>2 DEF n

LEMMA FlatIsBytes ==
  ASSUME NEW ss \in Seq(Bytes), Len(ss) <= 3 PROVE Flat(ss) \in Seq(Byte)
<1>1. CASE ss = <<>>
  BY <1>1 DEF Flat
<1>2. CASE ss # <<>>
  <2>1. Len(ss) \in {1, 2, 3}
    BY <1>2, PieceCount
  <2>2. \A i \in 1 .. Len(ss) : ss[i] \in Bytes
    OBVIOUS
  <2>3. \A s, t \in Bytes : s \o t \in Bytes
    BY ConcatProperties DEF Bytes
  <2>4. CASE Len(ss) = 1
    <3>1. ss[1] \in Bytes
      BY <2>2, <2>4
    <3> QED
      BY <1>2, <2>4, <3>1 DEF Flat, Bytes
  <2>5. CASE Len(ss) = 2
    <3>1. ss[1] \in Bytes /\ ss[2] \in Bytes
      BY <2>2, <2>5
    <3>2. ss[1] \o ss[2] \in Bytes
      BY <2>3, <3>1
    <3>3. Flat(ss) = ss[1] \o ss[2]
      BY <1>2, <2>5 DEF Flat
    <3> QED
      BY <3>2, <3>3 DEF Bytes
  <2>6. CASE Len(ss) = 3
    <3>1. ss[1] \in Bytes /\ ss[2] \in Bytes /\ ss[3] \in Bytes
      BY <2>2, <2>6
    <3>2. ss[2] \o ss[3] \in Bytes
      BY <2>3, <3>1
    <3>3. ss[1] \o (ss[2] \o ss[3]) \in Bytes
      BY <2>3, <3>1, <3>2
    <3>4. Flat(ss) = ss[1] \o (ss[2] \o ss[3])
      BY <1>2, <2>6 DEF Flat
    <3> QED
      BY <3>3, <3>4 DEF Bytes
  <2> QED
    BY <2>1, <2>4, <2>5, <2>6
<1> QED
  BY <1>1, <1>2

LEMMA FlatSplit ==
  ASSUME NEW ss \in Seq(Bytes), ss # <<>>, Len(ss) <= 3
  PROVE  /\ Head(ss) \in Seq(Byte) /\ Tail(ss) \in Seq(Bytes) /\ Len(Tail(ss)) <= 3
         /\ Flat(ss) = Head(ss) \o Flat(Tail(ss))
<1>1. /\ Head(ss) \in Bytes /\ Head(ss) = ss[1]
      /\ Tail(ss) \in Seq(Bytes) /\ Len(Tail(ss)) = Len(ss) - 1
      /\ \A i \in 1 .. Len(Tail(ss)) : Tail(ss)[i] = ss[i + 1]
  BY HeadTailProperties
<1>2. Len(ss) \in {1, 2, 3}
  BY PieceCount
<1>3. Head(ss) \in Seq(Byte)
  BY <1>1 DEF Bytes
<1> DEFINE t == Tail(ss)
<1> HIDE DEF t
<1>4. t \in Seq(Bytes) /\ Len(t) = Len(ss) - 1 /\ \A i \in 1 .. Len(t) : t[i] = ss[i + 1]
  BY <1>1 DEF t
<1>5. Flat(ss) = ss[1] \o Flat(t)
  <2>1. CASE Len(ss) = 1
    <3>1. t = <<>>
      BY <1>4, <2>1
    <3>2. Flat(ss) = ss[1] /\ Flat(t) = <<>>
      BY <2>1, <3>1 DEF Flat
    <3> QED
      BY <1>1, <1>3, <3>2, ConcatEmptySeq
  <2>2. CASE Len(ss) = 2
    <3>1. Len(t) = 1
      BY <1>4, <2>2
    <3>2. t[1] = ss[2] /\ t # <<>>
      BY <1>4, <3>1
    <3> QED
      BY <2>2, <3>1, <3>2 DEF Flat
  <2>3. CASE Len(ss) = 3
    <3>1. Len(t) = 2
      BY <1>4, <2>3
    <3>2. t[1] = ss[2] /\ t[2] = ss[3] /\ t # <<>>
      BY <1>4, <3>1
    <3> QED
      BY <2>3, <3>1, <3>2 DEF Flat
  <2> QED
    BY <1>2, <2>1, <2>2, <2>3
<1> QED
  BY <1>1, <1>2, <1>3, <1>5 DEF t

\* A write moves the first piece into the buffer, and the stream stays as it is.
LEMMA PutKeepsStream ==
  ASSUME FlowTypes, TypeOK', sending # <<>>,
         write(Head(sending)), sending' = Tail(sending), UNCHANGED data_
  PROVE  Stream' = Stream
<1> DEFINE h == Head(sending)
           t == Flat(Tail(sending))
<1>1. h \in Seq(Byte) /\ t \in Seq(Byte) /\ Flat(sending) = h \o t
  BY FlatSplit, FlatIsBytes DEF FlowTypes, Pieces
<1>2. Content \in Seq(Byte)
  BY ContentIsSeq DEF FlowTypes
<1> HIDE DEF h, t
<1>3. Content' = Content \o h
  BY <1>1, WriteAppends DEF FlowTypes, write, h
<1>4. (Content \o h) \o t = Content \o (h \o t)
  BY SMTT(30), <1>1, <1>2, ConcatAssociative
<1>5. Stream' = data_ \o (Content' \o t)
  BY DEF Stream, t, Flat
<1> QED
  BY <1>1, <1>3, <1>4, <1>5 DEF Stream

\* A transfer moves the first n bytes of the buffer to the client.
LEMMA TransferKeepsStream ==
  ASSUME FlowTypes, TypeOK', NEW n \in Nat, n \in 1 .. readAbleBytes, retrivevAsString(n),
         data_' = data_ \o SubSeq(Content, 1, n), UNCHANGED sending
  PROVE  Stream' = Stream /\ data_' \in Seq(Byte)
<1> DEFINE a == SubSeq(Content, 1, n)
           b == SubSeq(Content, n + 1, Len(Content))
           t == Flat(sending)
<1>1. /\ Content \in Seq(Byte) /\ Len(Content) = readAbleBytes /\ readAbleBytes \in Nat
      /\ data_ \in Seq(Byte)
  BY ContentIsSeq DEF FlowTypes
<1>2. t \in Seq(Byte)
  BY FlatIsBytes DEF FlowTypes, Pieces
<1>3. n <= Len(Content) /\ n >= 1
  BY <1>1
<1>4. a \in Seq(Byte) /\ b \in Seq(Byte) /\ a \o b = Content
  <2>1. 1 \in 1 .. Len(Content) + 1 /\ n \in 1 - 1 .. Len(Content) /\ Len(Content) \in n .. Len(Content)
    BY <1>1, <1>3
  <2>2. a \o b = SubSeq(Content, 1, Len(Content))
    BY <1>1, <2>1, ConcatAdjacentSubSeq
  <2>3. a \in Seq(Byte) /\ b \in Seq(Byte)
    BY <1>1, <1>3
  <2> QED
    BY <1>1, <2>2, <2>3, SubSeqFull
<1>5. Content' = b
  BY <1>1, <1>3, ReadTakes DEF FlowTypes, Fifo!Take
<1> HIDE DEF a, b, t
<1>6. (data_ \o a) \o (b \o t) = data_ \o (Content \o t)
  <2>1. b \o t \in Seq(Byte)
    BY <1>2, <1>4, ConcatProperties
  <2>2. (data_ \o a) \o (b \o t) = data_ \o (a \o (b \o t))
    <3>1. data_ \in Seq(Byte) /\ a \in Seq(Byte)
      BY <1>1, <1>4
    <3> QED
      BY ONLY SMTT(30), <2>1, <3>1, ConcatAssociative
  <2>3. a \o (b \o t) = (a \o b) \o t
    <3>1. a \in Seq(Byte) /\ b \in Seq(Byte)
      BY <1>4
    <3>2. (a \o b) \o t = a \o (b \o t)
      BY ONLY <1>2, <3>1, ConcatAssociative
    <3> QED
      BY ONLY <3>2
  <2> QED
    BY <1>4, <2>2, <2>3
<1>7. data_' \in Seq(Byte)
  BY <1>1, <1>4, ConcatProperties DEF a
<1>8. Stream' = data_' \o (Content' \o t)
  BY DEF Stream, t, Flat
<1> QED
  BY <1>5, <1>6, <1>7, <1>8 DEF Stream, a, t
\* What is cut off the front of the stream was the front of data_.
LEMMA StreamDropped ==
  ASSUME NEW d \in Seq(Byte), NEW t \in Seq(Byte), NEW n \in 0 .. Len(d)
  PROVE  LET rest == SubSeq(d, n + 1, Len(d))
         IN  /\ rest \in Seq(Byte) /\ Len(rest \o t) = Len(d \o t) - n
             /\ Len(d \o t) \in Nat /\ Len(d) <= Len(d \o t)
             /\ \A j \in 1 .. Len(rest \o t) : (rest \o t)[j] = (d \o t)[n + j]
             /\ \A j \in 1 .. Len(d) : (d \o t)[j] = d[j]
<1> DEFINE rest == SubSeq(d, n + 1, Len(d))
<1>1. n \in Nat /\ Len(d) \in Nat /\ n <= Len(d) /\ Len(t) \in Nat
  OBVIOUS
<1>2. /\ rest \in Seq(Byte) /\ Len(rest) = Len(d) - n
      /\ \A j \in 1 .. Len(d) - n : rest[j] = d[n + j]
  <2>1. \A i \in n + 1 .. Len(d) : d[i] \in Byte
    BY <1>1
  <2>2. /\ rest \in Seq(Byte)
        /\ Len(rest) = (IF n + 1 <= Len(d) THEN Len(d) - (n + 1) + 1 ELSE 0)
        /\ \A j \in 1 .. Len(d) - (n + 1) + 1 : rest[j] = d[n + 1 + j - 1]
    BY <1>1, <2>1, SubSeqProperties
  <2> HIDE DEF rest
  <2> QED
    BY <1>1, <2>2
<1> HIDE DEF rest
<1>3. /\ Len(rest \o t) = Len(rest) + Len(t)
      /\ \A i \in 1 .. Len(rest) + Len(t) :
           (rest \o t)[i] = IF i <= Len(rest) THEN rest[i] ELSE t[i - Len(rest)]
  BY <1>2, ConcatProperties
<1>4. /\ Len(d \o t) = Len(d) + Len(t)
      /\ \A i \in 1 .. Len(d) + Len(t) :
           (d \o t)[i] = IF i <= Len(d) THEN d[i] ELSE t[i - Len(d)]
  BY ConcatProperties
<1>5. ASSUME NEW j \in 1 .. Len(rest) + Len(t) PROVE (rest \o t)[j] = (d \o t)[n + j]
  <2>1. n + j \in 1 .. Len(d) + Len(t)
    BY <1>1, <1>2
  <2>2. CASE j <= Len(rest)
    <3>1. n + j <= Len(d) /\ j \in 1 .. Len(d) - n
      BY <1>1, <1>2, <2>2
    <3> QED
      BY <1>2, <1>3, <1>4, <2>1, <2>2, <3>1
  <2>3. CASE ~(j <= Len(rest))
    <3>1. ~(n + j <= Len(d)) /\ (n + j) - Len(d) = j - Len(rest)
      BY <1>1, <1>2, <2>3
    <3> QED
      BY <1>3, <1>4, <2>1, <2>3, <3>1
  <2> QED
    BY <2>2, <2>3
<1>6. \A j \in 1 .. Len(d) : (d \o t)[j] = d[j]
  BY <1>1, <1>4
<1>7. /\ Len(rest \o t) = Len(d \o t) - n /\ Len(d \o t) \in Nat /\ Len(d) <= Len(d \o t)
      /\ Len(rest \o t) = Len(rest) + Len(t)
  BY <1>1, <1>2, <1>3, <1>4
<1> QED
  BY <1>2, <1>5, <1>6, <1>7 DEF rest

\* A frame as its bytes, and where it lies in a sequence of bytes.
Encoded(f) == <<f.tag>> \o (<<Len(f.body)>> \o f.body)

FrameAt(S, p, f) ==
  /\ S[p + 1] = f.tag /\ S[p + 2] = Len(f.body)
  /\ \A j \in 1 .. Len(f.body) : S[p + 2 + j] = f.body[j]

LEMMA EncodedBytes ==
  ASSUME NEW f \in Frames, Len(f.body) \in Byte
  PROVE  /\ Encoded(f) \in Seq(Byte) /\ Len(Encoded(f)) = 2 + Len(f.body)
         /\ FrameAt(Encoded(f), 0, f)
<1> DEFINE b == f.body
           a == <<f.tag>>
           l == <<Len(f.body)>>
<1>1. /\ b \in Seq(Byte) /\ a \in Seq(Byte) /\ l \in Seq(Byte)
      /\ Len(a) = 1 /\ Len(l) = 1 /\ a[1] = f.tag /\ l[1] = Len(f.body)
      /\ Len(b) \in Nat
  BY DEF Frames, Bytes
<1> HIDE DEF a, l, b
<1>2. /\ l \o b \in Seq(Byte) /\ Len(l \o b) = 1 + Len(b)
      /\ \A i \in 1 .. 1 + Len(b) : (l \o b)[i] = IF i <= 1 THEN l[i] ELSE b[i - 1]
  <2>1. /\ l \o b \in Seq(Byte) /\ Len(l \o b) = Len(l) + Len(b)
        /\ \A i \in 1 .. Len(l) + Len(b) :
             (l \o b)[i] = IF i <= Len(l) THEN l[i] ELSE b[i - Len(l)]
    <3>1. l \in Seq(Byte) /\ b \in Seq(Byte)
      BY <1>1
    <3> QED
      BY ONLY <3>1, ConcatProperties
  <2> QED
    BY ONLY <1>1, <2>1
<1> DEFINE lb == l \o b
<1> HIDE DEF lb
<1>3. lb \in Seq(Byte) /\ Len(lb) = 1 + Len(b) /\ lb[1] = Len(f.body)
      /\ \A j \in 1 .. Len(b) : lb[1 + j] = b[j]
  BY <1>1, <1>2 DEF lb
<1>4. /\ a \o lb \in Seq(Byte) /\ Len(a \o lb) = 1 + Len(lb)
      /\ \A i \in 1 .. 1 + Len(lb) : (a \o lb)[i] = IF i <= 1 THEN a[i] ELSE lb[i - 1]
  <2>1. /\ a \o lb \in Seq(Byte) /\ Len(a \o lb) = Len(a) + Len(lb)
        /\ \A i \in 1 .. Len(a) + Len(lb) :
             (a \o lb)[i] = IF i <= Len(a) THEN a[i] ELSE lb[i - Len(a)]
    <3>1. a \in Seq(Byte) /\ lb \in Seq(Byte)
      BY <1>1, <1>3
    <3> QED
      BY ONLY <3>1, ConcatProperties
  <2> QED
    BY ONLY <1>1, <2>1
<1> DEFINE e == a \o lb
<1>5. e = Encoded(f)
  BY DEF Encoded, a, lb, l, b
<1> HIDE DEF e
<1>6. e \in Seq(Byte) /\ Len(e) = 2 + Len(b) /\ e[1] = f.tag /\ e[2] = Len(f.body)
  BY <1>1, <1>3, <1>4 DEF e
<1>7. ASSUME NEW j \in 1 .. Len(b) PROVE e[2 + j] = b[j]
  <2>1. 2 + j \in 1 .. 1 + Len(lb) /\ ~(2 + j <= 1) /\ (2 + j) - 1 = 1 + j
    BY <1>1, <1>3
  <2>2. e[2 + j] = lb[1 + j]
    BY <1>4, <2>1 DEF e
  <2> QED
    BY <1>3, <2>2
<1>8. FrameAt(e, 0, f)
  <2>1. 0 + 1 = 1 /\ 0 + 2 = 2
    OBVIOUS
  <2>2. \A j \in 1 .. Len(f.body) : e[0 + 2 + j] = f.body[j]
    BY <1>7 DEF b
  <2> QED
    BY <1>6, <2>1, <2>2 DEF FrameAt
<1> QED
  BY <1>5, <1>6, <1>8 DEF b

\* The bytes S of the frames fs, one behind the other: the i-th ends at c[i].
Laid(S, c, fs) ==
  /\ S \in Seq(Byte) /\ c \in [0 .. Len(fs) -> Nat]
  /\ c[0] = 0 /\ c[Len(fs)] = Len(S)
  /\ \A i, j \in 0 .. Len(fs) : i <= j => c[i] <= c[j]
  /\ \A i \in 1 .. Len(fs) : /\ FrameAt(S, c[i - 1], fs[i])
                             /\ c[i] = c[i - 1] + 2 + Len(fs[i].body)

\* A frame more.
LEMMA LaidExtended ==
  ASSUME NEW fs \in Seq(Frames), NEW f \in Frames, Len(f.body) \in Byte,
         NEW S, NEW c, Laid(S, c, fs)
  PROVE  Laid(S \o Encoded(f),
              [i \in 0 .. Len(fs) + 1 |->
                 IF i <= Len(fs) THEN c[i] ELSE Len(S) + 2 + Len(f.body)],
              Append(fs, f))
<1> DEFINE e  == Encoded(f)
           N  == Len(fs)
           p  == Len(S)
           n  == Len(f.body)
           SS == S \o e
           cc == [i \in 0 .. N + 1 |-> IF i <= N THEN c[i] ELSE p + 2 + n]
           ff == Append(fs, f)
<1>1. N \in Nat /\ p \in Nat /\ n \in Nat /\ S \in Seq(Byte)
  BY DEF Laid, Frames, Bytes
<1>2. e \in Seq(Byte) /\ Len(e) = 2 + n /\ FrameAt(e, 0, f)
  BY EncodedBytes
<1>3. /\ ff \in Seq(Frames) /\ Len(ff) = N + 1 /\ ff[N + 1] = f
      /\ \A i \in 1 .. N : ff[i] = fs[i]
  BY AppendProperties
<1>4. /\ SS \in Seq(Byte) /\ Len(SS) = p + (2 + n)
      /\ \A i \in 1 .. p + (2 + n) : SS[i] = IF i <= p THEN S[i] ELSE e[i - p]
  <2>1. /\ SS \in Seq(Byte) /\ Len(SS) = Len(S) + Len(e)
        /\ \A i \in 1 .. Len(S) + Len(e) : SS[i] = IF i <= Len(S) THEN S[i] ELSE e[i - Len(S)]
    <3>1. S \in Seq(Byte) /\ e \in Seq(Byte)
      BY <1>1, <1>2
    <3> HIDE DEF e
    <3> QED
      BY ONLY <3>1, ConcatProperties DEF SS
  <2> QED
    BY <1>2, <2>1
<1>5. /\ c \in [0 .. N -> Nat] /\ c[0] = 0 /\ c[N] = p
      /\ \A i, j \in 0 .. N : i <= j => c[i] <= c[j]
      /\ \A i \in 1 .. N : /\ FrameAt(S, c[i - 1], fs[i])
                           /\ c[i] = c[i - 1] + 2 + Len(fs[i].body)
  BY DEF Laid
<1> HIDE DEF e, N, p, n, SS, ff
<1>6. /\ cc \in [0 .. N + 1 -> Nat]
      /\ \A i \in 0 .. N : cc[i] = c[i]
      /\ cc[N + 1] = p + 2 + n
  <2>1. N + 1 \in 0 .. N + 1 /\ ~(N + 1 <= N) /\ \A i \in 0 .. N : i \in 0 .. N + 1 /\ i <= N
    BY <1>1
  <2>2. \A i \in 0 .. N + 1 : (IF i <= N THEN c[i] ELSE p + 2 + n) \in Nat
    BY <1>1, <1>5
  <2> QED
    BY <2>1, <2>2
<1> HIDE DEF cc
<1>7. cc[0] = 0 /\ cc[N + 1] = Len(SS)
  <2>1. 0 \in 0 .. N /\ p + 2 + n = p + (2 + n)
    BY <1>1
  <2> QED
    BY <1>4, <1>5, <1>6, <2>1
<1>8. ASSUME NEW i \in 0 .. N + 1, NEW j \in 0 .. N + 1, i <= j PROVE cc[i] <= cc[j]
  <2>1. \A k \in 0 .. N : c[k] <= p /\ c[k] \in Nat
    <3>1. N \in 0 .. N /\ \A k \in 0 .. N : k <= N
      BY <1>1
    <3> QED
      BY <1>5, <3>1
  <2>2. CASE j \in 0 .. N
    <3>1. i \in 0 .. N
      BY <1>1, <1>8, <2>2
    <3> QED
      BY <1>5, <1>6, <1>8, <2>2, <3>1
  <2>3. CASE j = N + 1 /\ i \in 0 .. N
    BY <1>1, <1>6, <2>1, <2>3
  <2>4. CASE j = N + 1 /\ i = N + 1
    BY <1>1, <1>6, <2>4
  <2> QED
    BY <1>1, <2>2, <2>3, <2>4
<1>9. ASSUME NEW i \in 1 .. N + 1
      PROVE  FrameAt(SS, cc[i - 1], ff[i]) /\ cc[i] = cc[i - 1] + 2 + Len(ff[i].body)
  <2>1. CASE i \in 1 .. N
    <3> DEFINE q == c[i - 1]
               g == fs[i]
               m == Len(g.body)
    <3>1. /\ i \in 0 .. N /\ i - 1 \in 0 .. N /\ N \in 0 .. N /\ i <= N
      BY <1>1, <2>1
    <3>2. /\ cc[i] = c[i] /\ cc[i - 1] = q /\ ff[i] = g
      BY <1>3, <1>6, <2>1, <3>1
    <3>3. g \in Frames
      BY <2>1 DEF N
    <3>4. m \in Nat
      BY <3>3 DEF Frames, Bytes
    <3>5. q \in Nat /\ FrameAt(S, q, g) /\ c[i] = q + 2 + m /\ c[i] <= p
      BY <1>5, <2>1, <3>1
    <3> HIDE DEF q, g, m
    <3>6. \A k \in 1 .. q + 2 + m : SS[k] = S[k]
      BY <1>1, <1>4, <3>4, <3>5
    <3>7. q + 1 \in 1 .. q + 2 + m /\ q + 2 \in 1 .. q + 2 + m
          /\ \A j \in 1 .. m : q + 2 + j \in 1 .. q + 2 + m
      BY <3>4, <3>5
    <3>8. FrameAt(SS, q, g)
      BY <3>5, <3>6, <3>7 DEF FrameAt, m
    <3> QED
      BY <3>2, <3>5, <3>8 DEF m
  <2>2. CASE i = N + 1
    <3>1. cc[i - 1] = p /\ cc[i] = p + 2 + n /\ ff[i] = f
      <4>1. i - 1 = N /\ N \in 0 .. N
        BY <1>1, <2>2
      <4> QED
        BY <1>3, <1>5, <1>6, <2>2, <4>1
    <3>3. \A k \in 1 .. 2 + n : SS[p + k] = e[k]
      <4> SUFFICES ASSUME NEW k \in 1 .. 2 + n PROVE SS[p + k] = e[k]
        OBVIOUS
      <4>1. p + k \in 1 .. p + (2 + n) /\ ~(p + k <= p) /\ (p + k) - p = k
        BY <1>1
      <4> QED
        BY <1>4, <4>1
    <3>4. e[1] = f.tag /\ e[2] = n /\ \A j \in 1 .. n : e[2 + j] = f.body[j]
      BY <1>2 DEF FrameAt, n
    <3>5. SS[p + 1] = f.tag /\ SS[p + 2] = n
      BY <1>1, <3>3, <3>4
    <3>6. ASSUME NEW j \in 1 .. n PROVE SS[p + 2 + j] = f.body[j]
      <4>1. 2 + j \in 1 .. 2 + n /\ p + (2 + j) = p + 2 + j
        BY <1>1
      <4> QED
        BY <3>3, <3>4, <4>1
    <3>7. FrameAt(SS, p, f)
      BY <3>5, <3>6 DEF FrameAt, n
    <3> QED
      BY <3>1, <3>7 DEF n
  <2> QED
    BY <1>1, <2>1, <2>2
<1>10. Laid(SS, cc, ff)
  BY <1>3, <1>4, <1>6, <1>7, <1>8, <1>9 DEF Laid
<1> QED
  BY <1>10 DEF SS, cc, ff, e, N, p, n
\* How far the client has come in S: the frames it has handled are the first of
\* those sent, the one whose head it has read is the next, and the stream is what
\* comes after that.
Cut(S, c) ==
  LET k == Len(handled)
      r == c[k] + (IF head_received_ THEN 2 ELSE 0)
  IN  /\ handled \in Seq(Frames) /\ k <= Len(sent)
      /\ \A i \in 1 .. k : handled[i] = sent[i]
      /\ head_received_ => /\ k < Len(sent)
                           /\ tag_ = sent[k + 1].tag /\ body_len_ = Len(sent[k + 1].body)
      /\ r + Len(Stream) = Len(S)
      /\ \A j \in 1 .. Len(Stream) : Stream[j] = S[r + j]

Short == \A i \in DOMAIN sent : Len(sent[i].body) < 2^Width

FlowInv == FlowTypes /\ (Short => \E S, c : Laid(S, c, sent) /\ Cut(S, c))

LEMMA StreamTyped ==
  ASSUME FlowTypes
  PROVE  /\ Stream \in Seq(Byte) /\ data_ \in Seq(Byte)
         /\ Content \o Flat(sending) \in Seq(Byte)
<1>1. Content \in Seq(Byte) /\ Flat(sending) \in Seq(Byte) /\ data_ \in Seq(Byte)
  BY ContentIsSeq, FlatIsBytes DEF FlowTypes, Pieces
<1>2. Content \o Flat(sending) \in Seq(Byte)
  BY ONLY <1>1, ConcatProperties
<1>3. Stream \in Seq(Byte)
  BY ONLY <1>1, <1>2, ConcatProperties DEF Stream
<1> QED
  BY <1>1, <1>2, <1>3

LEMMA FlowInit == FramingInit => FlowInv
<1> SUFFICES ASSUME FramingInit PROVE FlowInv
  OBVIOUS
<1>1. TypeOK
  BY TypeInit DEF FramingInit
<1>2. FlowTypes
  <2>1. <<>> \in Seq(Bytes) /\ <<>> \in Seq(Frames) /\ <<>> \in Seq(Byte) /\ Len(<<>>) = 0
    OBVIOUS
  <2>2. Len(<<>>) <= 3
    BY <2>1
  <2> QED
    BY <1>1, <2>1, <2>2 DEF FramingInit, FlowTypes, Pieces
<1>3. Stream = <<>>
  <2>1. Content = <<>>
    BY <1>1, ContentIsSeq DEF FramingInit, Init
  <2>2. Flat(sending) = <<>> /\ data_ = <<>>
    BY DEF FramingInit, Flat
  <2>3. <<>> \o (<<>> \o <<>>) = <<>>
    BY EmptyIsBytes, ConcatEmptySeq
  <2> QED
    BY <2>1, <2>2, <2>3 DEF Stream
<1>4. Laid(<<>>, [i \in 0 .. 0 |-> 0], sent)
  <2>1. sent = <<>> /\ Len(sent) = 0
    BY DEF FramingInit
  <2>2. \A i, j \in 0 .. 0 : i = 0 /\ j = 0
    OBVIOUS
  <2> QED
    BY <2>1, <2>2 DEF Laid
<1>5. Cut(<<>>, [i \in 0 .. 0 |-> 0])
  BY <1>3 DEF Cut, FramingInit
<1> QED
  BY <1>2, <1>4, <1>5 DEF FlowInv

\* sendData: S becomes longer by a frame, and so does the stream.
LEMMA FlowSendData ==
  ASSUME FlowInv, NEW tag \in Byte, NEW body \in Data, SendData(tag, body)
  PROVE  FlowInv'
<1> DEFINE f == Frame(tag, body)
           W == 2^Width
           len == Len(body) % W
<1>1. /\ body \in Seq(Byte) /\ Len(body) \in Nat /\ f \in Frames /\ f.tag = tag /\ f.body = body
  <2>1. body \in Seq(Byte)
    BY DataIsSeq
  <2> QED
    BY <2>1 DEF Frame, Frames, Bytes
<1>2. W \in Nat \ {0} /\ Byte = 0 .. W - 1
  BY FramingAssumption DEF FramingAssumption
<1>3. /\ sending = <<>> /\ sending' = <<<<tag>>, <<len>>, body>> /\ sent' = Append(sent, f)
      /\ UNCHANGED <<vars, data_, head_received_, tag_, body_len_, handled>>
  BY DEF SendData, readerVars
<1> HIDE DEF W
<1>4. len \in Byte /\ (Len(body) < W => len = Len(body) /\ Len(body) \in Byte)
  BY SMTT(30), <1>1, <1>2
<1> HIDE DEF len, f
<1>5. /\ sent \in Seq(Frames) /\ sent' \in Seq(Frames) /\ Len(sent') = Len(sent) + 1
      /\ sent'[Len(sent) + 1] = f /\ \A i \in 1 .. Len(sent) : sent'[i] = sent[i]
  BY <1>1, <1>3, AppendProperties DEF FlowInv, FlowTypes
<1>6. TypeOK' /\ Content' = Content
  BY <1>3 DEF FlowInv, FlowTypes, TypeOK, vars, Content
<1>7. <<tag>> \in Bytes /\ <<len>> \in Bytes /\ body \in Bytes
  BY <1>1, <1>4 DEF Bytes
<1>8. sending' \in Seq(Bytes) /\ Len(sending') = 3 /\ sending' # <<>>
      /\ sending'[1] = <<tag>> /\ sending'[2] = <<len>> /\ sending'[3] = body
  BY <1>3, <1>7
<1>9. FlowTypes'
  BY <1>3, <1>5, <1>6, <1>8 DEF FlowInv, FlowTypes, Pieces
<1>10. ASSUME Short' PROVE \E S, c : Laid(S, c, sent)' /\ Cut(S, c)'
  <2>1. Short /\ Len(body) < W
    <3>1. DOMAIN sent = 1 .. Len(sent) /\ DOMAIN sent' = 1 .. Len(sent) + 1 /\ Len(sent) \in Nat
      BY <1>5
    <3> QED
      BY SMTT(30), <1>1, <1>5, <1>10, <3>1 DEF Short, W
  <2>2. PICK S, c : Laid(S, c, sent) /\ Cut(S, c)
    BY <2>1 DEF FlowInv
  <2>3. len = Len(f.body) /\ Len(f.body) \in Byte
    BY <1>1, <1>4, <2>1
  <2> DEFINE e  == Encoded(f)
             SS == S \o e
             N  == Len(sent)
             cc == [i \in 0 .. N + 1 |-> IF i <= N THEN c[i] ELSE Len(S) + 2 + Len(f.body)]
  <2>4. Laid(SS, cc, sent')
    BY <1>1, <1>3, <1>5, <2>2, <2>3, LaidExtended
  <2>5. e \in Seq(Byte) /\ S \in Seq(Byte) /\ Len(e) \in Nat /\ Len(S) \in Nat
    <3>1. e \in Seq(Byte) /\ S \in Seq(Byte)
      BY <1>1, <2>2, <2>3, EncodedBytes DEF Laid
    <3> HIDE DEF e
    <3> QED
      BY <3>1
  <2>6. Stream' = Stream \o e
    <3>1. Flat(sending) = <<>>
      BY <1>3 DEF Flat
    <3>2. Flat(sending') = e
      BY <1>1, <1>8, <2>3 DEF Flat, Encoded
    <3>3. Stream' = data_ \o (Content \o e)
      BY <1>3, <1>6, <3>2 DEF Stream, Flat
    <3>4. Content \in Seq(Byte) /\ data_ \in Seq(Byte)
      BY ContentIsSeq DEF FlowInv, FlowTypes
    <3> HIDE DEF e
    <3>5. Content \o <<>> = Content
      BY <3>4, ConcatEmptySeq
    <3>6. (data_ \o Content) \o e = data_ \o (Content \o e)
      BY <2>5, <3>4, ConcatAssociative
    <3> QED
      BY <3>1, <3>3, <3>5, <3>6 DEF Stream
  <2> DEFINE s == Stream
             k == Len(handled)
             r == c[k] + (IF head_received_ THEN 2 ELSE 0)
  <2> HIDE DEF e, SS, cc
  <2>7. /\ s \in Seq(Byte) /\ Len(s) \in Nat
        /\ Len(s \o e) = Len(s) + Len(e)
        /\ \A j \in 1 .. Len(s) + Len(e) :
             (s \o e)[j] = IF j <= Len(s) THEN s[j] ELSE e[j - Len(s)]
    <3>1. s \in Seq(Byte)
      BY StreamTyped DEF FlowInv
    <3> HIDE DEF s
    <3> QED
      BY <2>5, <3>1, ConcatProperties
  <2>8. /\ Len(SS) = Len(S) + Len(e)
        /\ \A j \in 1 .. Len(S) + Len(e) : SS[j] = IF j <= Len(S) THEN S[j] ELSE e[j - Len(S)]
    BY <2>5, ConcatProperties DEF SS
  <2>9. /\ handled \in Seq(Frames) /\ k \in Nat /\ k <= N
        /\ \A i \in 1 .. k : handled[i] = sent[i]
        /\ head_received_ => /\ k < N /\ tag_ = sent[k + 1].tag
                             /\ body_len_ = Len(sent[k + 1].body)
        /\ r + Len(s) = Len(S) /\ \A j \in 1 .. Len(s) : s[j] = S[r + j]
    BY <2>2 DEF Cut
  <2>10. N \in Nat /\ c[k] \in Nat /\ cc[k] = c[k]
    <3>1. N \in Nat /\ c \in [0 .. N -> Nat] /\ k \in 0 .. N /\ k \in 0 .. N + 1
      BY <1>5, <2>2, <2>9 DEF Laid
    <3> QED
      BY <3>1 DEF cc
  <2>11. r \in Nat
    BY <2>10
  <2> HIDE DEF s, r
  <2>12. r + Len(s \o e) = Len(SS)
    BY <2>5, <2>7, <2>8, <2>9, <2>11
  <2>13. ASSUME NEW j \in 1 .. Len(s \o e) PROVE (s \o e)[j] = SS[r + j]
    <3>1. j \in 1 .. Len(s) + Len(e) /\ r + j \in 1 .. Len(S) + Len(e)
      BY <2>5, <2>7, <2>9, <2>11
    <3>2. CASE j <= Len(s)
      <4>1. r + j <= Len(S) /\ j \in 1 .. Len(s)
        BY <2>5, <2>7, <2>9, <2>11, <3>1, <3>2
      <4> QED
        BY <2>7, <2>8, <2>9, <3>1, <3>2, <4>1
    <3>3. CASE ~(j <= Len(s))
      <4>1. Len(S) = r + Len(s) /\ Len(s) \in Nat /\ j \in Nat
        BY <2>7, <2>9
      <4>2. ~(r + j <= Len(S)) /\ (r + j) - Len(S) = j - Len(s)
        BY ONLY <2>11, <3>3, <4>1
      <4> QED
        BY <2>7, <2>8, <3>1, <3>3, <4>2
    <3> QED
      BY <3>2, <3>3
  <2>14. PICK T, d : T = SS /\ d = cc
    OBVIOUS
  <2>15. Cut(T, d)'
    <3>1. \A i \in 1 .. k : handled[i] = sent'[i]
      BY <1>5, <2>9, <2>10
    <3>2. head_received_ => /\ k < Len(sent') /\ tag_ = sent'[k + 1].tag
                            /\ body_len_ = Len(sent'[k + 1].body)
      BY <1>5, <2>9, <2>10
    <3>3. k <= Len(sent')
      BY <1>5, <2>9, <2>10
    <3>4. handled' = handled /\ head_received_' = head_received_ /\ tag_' = tag_
            /\ body_len_' = body_len_ /\ Stream' = s \o e
      BY <1>3, <2>6 DEF s
    <3>5. r = d[k] + (IF head_received_ THEN 2 ELSE 0)
      BY <2>10, <2>14 DEF r
    <3> HIDE DEF k
    <3>6. LET K == Len(handled')
              R == d[K] + (IF head_received_' THEN 2 ELSE 0)
          IN  /\ handled' \in Seq(Frames) /\ K <= Len(sent')
              /\ \A i \in 1 .. K : handled'[i] = sent'[i]
              /\ head_received_' => /\ K < Len(sent')
                                    /\ tag_' = sent'[K + 1].tag
                                    /\ body_len_' = Len(sent'[K + 1].body)
              /\ R + Len(Stream') = Len(T)
              /\ \A j \in 1 .. Len(Stream') : Stream'[j] = T[R + j]
      BY <2>9, <2>12, <2>13, <2>14, <3>1, <3>2, <3>3, <3>4, <3>5 DEF k
    <3> QED
      BY <3>6 DEF Cut
  <2>16. Laid(T, d, sent)'
    BY <2>4, <2>14 DEF Laid, FrameAt
  <2> QED
    BY <2>15, <2>16
<1> QED
  BY <1>9, <1>10 DEF FlowInv
\* A step that only moves bytes from one part of the stream to the next.
LEMMA FlowMoved ==
  ASSUME FlowInv, FlowTypes', Stream' = Stream,
         UNCHANGED <<sent, handled, head_received_, tag_, body_len_>>
  PROVE  FlowInv'
<1> SUFFICES ASSUME Short' PROVE \E S, c : Laid(S, c, sent)' /\ Cut(S, c)'
  BY DEF FlowInv
<1>1. PICK S, c : Laid(S, c, sent) /\ Cut(S, c)
  BY DEF FlowInv, Short
<1>2. Laid(S, c, sent)' /\ Cut(S, c)'
  BY <1>1 DEF Laid, FrameAt, Cut
<1> QED
  BY <1>2

LEMMA FlowPut == ASSUME FlowInv, Put PROVE FlowInv'
<1>1. /\ sending # <<>> /\ write(Head(sending)) /\ sending' = Tail(sending)
      /\ UNCHANGED <<sent, data_, head_received_, tag_, body_len_, handled>>
  BY DEF Put, readerVars
<1>2. Head(sending) \in Seq(Byte) /\ Tail(sending) \in Seq(Bytes) /\ Len(Tail(sending)) <= 3
  BY <1>1, FlatSplit DEF FlowInv, FlowTypes, Pieces
<1>3. TypeOK'
  BY <1>1, <1>2, InPlaceTyped, CompactingTyped, GrowingTyped DEF FlowInv, FlowTypes, write
<1>4. FlowTypes'
  BY <1>1, <1>2, <1>3 DEF FlowInv, FlowTypes, Pieces
<1>5. Stream' = Stream
  BY <1>1, <1>3, PutKeepsStream DEF FlowInv
<1> QED
  BY <1>1, <1>4, <1>5, FlowMoved

LEMMA FlowTransfer == ASSUME FlowInv, NEW n \in Counts, Transfer(n) PROVE FlowInv'
<1>1. /\ n \in 1 .. readAbleBytes /\ retrivevAsString(n)
      /\ data_' = data_ \o SubSeq(Content, 1, n)
      /\ UNCHANGED <<sending, sent, head_received_, tag_, body_len_, handled>>
  BY DEF Transfer
<1>2. n \in Nat
  BY ConstantAssumption DEF ConstantAssumption, Counts
<1>3. TypeOK'
  BY <1>1, ReadTyped DEF FlowInv, FlowTypes
<1>4. Stream' = Stream /\ data_' \in Seq(Byte)
  BY <1>1, <1>2, <1>3, TransferKeepsStream DEF FlowInv
<1>5. FlowTypes'
  BY <1>1, <1>3, <1>4 DEF FlowInv, FlowTypes, Pieces
<1> QED
  BY <1>1, <1>4, <1>5, FlowMoved

\* What the client has got is the front of the stream, and what it cuts off leaves
\* the rest.
LEMMA StreamCut ==
  ASSUME FlowTypes, NEW n \in 0 .. Len(data_),
         data_' = SubSeq(data_, n + 1, Len(data_)), UNCHANGED <<vars, sending>>
  PROVE  /\ data_' \in Seq(Byte)
         /\ Len(Stream) \in Nat /\ Len(data_) \in Nat /\ Len(data_) <= Len(Stream)
         /\ Len(Stream') = Len(Stream) - n
         /\ \A j \in 1 .. Len(data_) : Stream[j] = data_[j]
         /\ \A j \in 1 .. Len(Stream') : Stream'[j] = Stream[n + j]
<1> DEFINE t == Content \o Flat(sending)
           rest == SubSeq(data_, n + 1, Len(data_))
<1>1. data_ \in Seq(Byte) /\ t \in Seq(Byte)
  BY StreamTyped
<1>2. Stream = data_ \o t /\ Stream' = rest \o t
  <2>1. Content' = Content /\ sending' = sending
    BY DEF vars, Content
  <2> QED
    BY <2>1 DEF Stream, Flat
<1> HIDE DEF t
<1>3. /\ rest \in Seq(Byte) /\ Len(rest \o t) = Len(data_ \o t) - n
      /\ Len(data_ \o t) \in Nat /\ Len(data_) <= Len(data_ \o t)
      /\ \A j \in 1 .. Len(rest \o t) : (rest \o t)[j] = (data_ \o t)[n + j]
      /\ \A j \in 1 .. Len(data_) : (data_ \o t)[j] = data_[j]
  BY <1>1, StreamDropped
<1> QED
  BY SMTT(30), <1>1, <1>2, <1>3

\* The client reads the head of the next frame.
LEMMA FlowReadHead == ASSUME FlowInv, ReadHead PROVE FlowInv'
<1>1. /\ ~head_received_ /\ Len(data_) >= 2 /\ head_received_' = TRUE
      /\ tag_' = data_[1] /\ body_len_' = data_[2]
      /\ data_' = SubSeq(data_, 2 + 1, Len(data_))
      /\ UNCHANGED <<vars, sending, sent, handled>>
  BY DEF ReadHead
<1>2. 2 \in 0 .. Len(data_) /\ data_ \in Seq(Byte)
  BY <1>1 DEF FlowInv, FlowTypes
<1>3. /\ data_' \in Seq(Byte)
      /\ Len(Stream) \in Nat /\ Len(data_) \in Nat /\ Len(data_) <= Len(Stream)
      /\ Len(Stream') = Len(Stream) - 2
      /\ \A j \in 1 .. Len(data_) : Stream[j] = data_[j]
      /\ \A j \in 1 .. Len(Stream') : Stream'[j] = Stream[2 + j]
  BY <1>1, <1>2, StreamCut DEF FlowInv
<1>4. FlowTypes'
  <2>1. body_len_' \in Nat
    <3>1. data_[2] \in Byte
      BY <1>2
    <3> QED
      BY <1>1, <3>1, BytesAreNumbers
  <2>2. TypeOK'
    BY <1>1 DEF FlowInv, FlowTypes, TypeOK, vars
  <2> QED
    BY <1>1, <1>3, <2>1, <2>2 DEF FlowInv, FlowTypes, Pieces
<1> SUFFICES ASSUME Short' PROVE \E S, c : Laid(S, c, sent)' /\ Cut(S, c)'
  BY <1>4 DEF FlowInv
<1>5. PICK S, c : Laid(S, c, sent) /\ Cut(S, c)
  BY <1>1 DEF FlowInv, Short
<1> DEFINE N == Len(sent)
           k == Len(handled)
           s == Stream
           r == c[k]
<1>6. /\ handled \in Seq(Frames) /\ k <= N /\ \A i \in 1 .. k : handled[i] = sent[i]
      /\ r + 0 + Len(s) = Len(S)
      /\ \A j \in 1 .. Len(s) : s[j] = S[r + 0 + j]
  BY <1>1, <1>5 DEF Cut
<1>7. N \in Nat /\ k \in 0 .. N /\ r \in Nat /\ c[N] = Len(S)
  BY <1>5, <1>6 DEF FlowInv, FlowTypes, Laid
<1>8. /\ r + Len(s) = Len(S) /\ Len(s) \in Nat /\ Len(s) >= 2
      /\ \A j \in 1 .. Len(s) : s[j] = S[r + j]
  BY SMTT(30), <1>1, <1>3, <1>6, <1>7
<1>9. k < N
  BY <1>7, <1>8
<1>10. FrameAt(S, r, sent[k + 1])
  <2>1. k + 1 \in 1 .. N /\ (k + 1) - 1 = k
    BY <1>7, <1>9
  <2> QED
    BY <1>5, <2>1 DEF Laid
<1>11. tag_' = sent[k + 1].tag /\ body_len_' = Len(sent[k + 1].body)
  <2>1. 1 \in 1 .. Len(data_) /\ 2 \in 1 .. Len(data_) /\ 1 \in 1 .. Len(s) /\ 2 \in 1 .. Len(s)
    BY <1>1, <1>3
  <2>2. data_[1] = S[r + 1] /\ data_[2] = S[r + 2]
    BY <1>3, <1>8, <2>1
  <2> QED
    BY <1>1, <1>10, <2>2 DEF FrameAt
<1>12. /\ r + 2 + Len(Stream') = Len(S)
       /\ \A j \in 1 .. Len(Stream') : Stream'[j] = S[r + 2 + j]
  <2>1. Len(Stream') = Len(s) - 2
    BY <1>3
  <2>2. r + 2 + Len(Stream') = Len(S)
    BY <1>7, <1>8, <2>1
  <2>3. ASSUME NEW j \in 1 .. Len(Stream') PROVE Stream'[j] = S[r + 2 + j]
    <3> DEFINE m == Len(s)
    <3>1. j \in 1 .. m - 2 /\ m \in Nat /\ r \in Nat
      BY <1>7, <1>8, <2>1
    <3> HIDE DEF m, r
    <3>2. 2 + j \in 1 .. m /\ r + (2 + j) = r + 2 + j
      BY ONLY <3>1
    <3> QED
      BY <1>3, <1>8, <3>2 DEF m
  <2> QED
    BY <2>2, <2>3
<1>13. Cut(S, c)'
  <2>1. handled' = handled /\ sent' = sent
    BY <1>1
  <2> QED
    BY <1>1, <1>6, <1>9, <1>11, <1>12, <2>1 DEF Cut
<1>14. Laid(S, c, sent)'
  BY <1>1, <1>5 DEF Laid, FrameAt
<1> QED
  BY <1>13, <1>14
\* The client takes a body: the next frame is handled whole.
LEMMA FlowReadBody == ASSUME FlowInv, ReadBody PROVE FlowInv'
<1> DEFINE b == body_len_
           body == SubSeq(data_, 1, b)
<1>1. /\ head_received_ /\ Len(data_) >= b /\ head_received_' = FALSE
      /\ handled' = Append(handled, Frame(tag_, body))
      /\ data_' = SubSeq(data_, b + 1, Len(data_))
      /\ UNCHANGED <<vars, sending, sent, tag_, body_len_>>
  BY DEF ReadBody
<1>2. b \in 0 .. Len(data_) /\ b \in Nat /\ data_ \in Seq(Byte)
  BY <1>1 DEF FlowInv, FlowTypes
<1>3. /\ data_' \in Seq(Byte)
      /\ Len(Stream) \in Nat /\ Len(data_) \in Nat /\ Len(data_) <= Len(Stream)
      /\ Len(Stream') = Len(Stream) - b
      /\ \A j \in 1 .. Len(data_) : Stream[j] = data_[j]
      /\ \A j \in 1 .. Len(Stream') : Stream'[j] = Stream[b + j]
  BY <1>1, <1>2, StreamCut DEF FlowInv
<1>4. FlowTypes'
  <2>1. TypeOK'
    BY <1>1 DEF FlowInv, FlowTypes, TypeOK, vars
  <2> QED
    BY <1>1, <1>3, <2>1 DEF FlowInv, FlowTypes, Pieces
<1> SUFFICES ASSUME Short' PROVE \E S, c : Laid(S, c, sent)' /\ Cut(S, c)'
  BY <1>4 DEF FlowInv
<1>5. PICK S, c : Laid(S, c, sent) /\ Cut(S, c)
  BY <1>1 DEF FlowInv, Short
<1> DEFINE N == Len(sent)
           k == Len(handled)
           s == Stream
           r == c[k] + 2
           f == sent[k + 1]
<1>6. /\ handled \in Seq(Frames) /\ k < N /\ \A i \in 1 .. k : handled[i] = sent[i]
      /\ tag_ = f.tag /\ b = Len(f.body)
      /\ r + Len(s) = Len(S)
      /\ \A j \in 1 .. Len(s) : s[j] = S[r + j]
  BY <1>1, <1>5 DEF Cut
<1>7. N \in Nat /\ k \in 0 .. N /\ k + 1 \in 1 .. N /\ (k + 1) - 1 = k
  BY <1>6 DEF FlowInv, FlowTypes
<1>8. /\ c[k] \in Nat /\ r \in Nat /\ FrameAt(S, c[k], f)
      /\ c[k + 1] = r + b
  <2>1. c[k] \in Nat
    BY <1>5, <1>7 DEF Laid
  <2>2. FrameAt(S, c[k], f) /\ c[k + 1] = c[k] + 2 + Len(f.body)
    BY <1>5, <1>7 DEF Laid
  <2> QED
    BY <1>6, <2>1, <2>2
<1>9. f \in Frames /\ f = Frame(f.tag, f.body)
  <2>1. f \in Frames
    BY <1>7 DEF FlowInv, FlowTypes
  <2> QED
    BY <2>1 DEF Frames, Frame
<1>10. body = f.body
  <2>1. f.body \in Seq(Byte)
    BY <1>9 DEF Frames, Bytes
  <2>2. /\ body \in Seq(Byte) /\ Len(body) = b
        /\ \A j \in 1 .. b : body[j] = data_[j]
    BY <1>2
  <2>3. ASSUME NEW j \in 1 .. b PROVE data_[j] = f.body[j]
    <3>1. j \in 1 .. Len(data_) /\ j \in 1 .. Len(s)
      BY <1>2, <1>3
    <3>2. S[r + j] = f.body[j]
      BY <1>6, <1>8 DEF FrameAt
    <3> QED
      BY <1>3, <1>6, <3>1, <3>2
  <2> HIDE DEF body, f
  <2>4. Len(body) = Len(f.body) /\ \A j \in 1 .. Len(body) : body[j] = f.body[j]
    BY <1>6, <2>2, <2>3
  <2> QED
    BY <2>1, <2>2, <2>4, SeqEqual
<1>11. handled' = Append(handled, f)
  BY <1>1, <1>6, <1>9, <1>10
<1> HIDE DEF f
<1>12. /\ handled' \in Seq(Frames) /\ Len(handled') = k + 1 /\ handled'[k + 1] = f
       /\ \A i \in 1 .. k : handled'[i] = handled[i]
  BY <1>6, <1>9, <1>11, AppendProperties
<1>13. \A i \in 1 .. k + 1 : handled'[i] = sent[i]
  BY <1>6, <1>7, <1>12 DEF f
<1>14. /\ c[k + 1] + Len(Stream') = Len(S)
       /\ \A j \in 1 .. Len(Stream') : Stream'[j] = S[c[k + 1] + j]
  <2> DEFINE m == Len(s)
             q == Len(Stream')
  <2>1. /\ m \in Nat /\ q = m - b /\ q \in Int /\ b \in Nat /\ r \in Nat
        /\ r + m = Len(S) /\ c[k + 1] = r + b
    BY <1>2, <1>3, <1>6, <1>8
  <2> HIDE DEF m, q, r
  <2>2. (r + b) + q = r + m
    BY ONLY <2>1
  <2>3. ASSUME NEW j \in 1 .. q PROVE Stream'[j] = S[(r + b) + j]
    <3>1. b + j \in 1 .. m /\ r + (b + j) = (r + b) + j
      BY ONLY <2>1, j \in 1 .. q
    <3>2. Stream'[j] = s[b + j]
      BY <1>3 DEF q
    <3>3. s[b + j] = S[r + (b + j)]
      BY <1>6, <3>1 DEF m
    <3> QED
      BY <3>1, <3>2, <3>3
  <2> QED
    BY <2>1, <2>2, <2>3 DEF q
<1>15. Cut(S, c)'
  <2>1. sent' = sent /\ head_received_' = FALSE
    BY <1>1
  <2>2. c[k + 1] + 0 = c[k + 1]
    BY <1>2, <1>8
  <2> HIDE DEF k
  <2>3. LET K == Len(handled')
            R == c[K] + (IF head_received_' THEN 2 ELSE 0)
        IN  /\ handled' \in Seq(Frames) /\ K <= Len(sent')
            /\ \A i \in 1 .. K : handled'[i] = sent'[i]
            /\ head_received_' => /\ K < Len(sent')
                                  /\ tag_' = sent'[K + 1].tag
                                  /\ body_len_' = Len(sent'[K + 1].body)
            /\ R + Len(Stream') = Len(S)
            /\ \A j \in 1 .. Len(Stream') : Stream'[j] = S[R + j]
    BY <1>7, <1>12, <1>13, <1>14, <2>1, <2>2
  <2> QED
    BY <2>3 DEF Cut
<1>16. Laid(S, c, sent)'
  BY <1>1, <1>5 DEF Laid, FrameAt
<1> QED
  BY <1>15, <1>16

LEMMA FlowNext == FlowInv /\ [FramingNext]_framingVars => FlowInv'
<1> SUFFICES ASSUME FlowInv, [FramingNext]_framingVars PROVE FlowInv'
  OBVIOUS
<1>1. CASE FramingNext
  BY <1>1, FlowSendData, FlowPut, FlowTransfer, FlowReadHead, FlowReadBody DEF FramingNext
<1>2. CASE UNCHANGED framingVars
  <2>1. Stream' = Stream
    BY <1>2 DEF framingVars, readerVars, vars, Stream, Content, Flat
  <2>2. FlowTypes'
    BY <1>2 DEF framingVars, readerVars, vars, FlowInv, FlowTypes, TypeOK, Pieces
  <2> QED
    BY <1>2, <2>1, <2>2, FlowMoved DEF framingVars, readerVars
<1> QED
  BY <1>1, <1>2

\* While every length sent is one its field can say, the client handles the frames
\* sent, whole and in order, for frames of any number and size, any width of the
\* fields, and every way the stream is cut into writes and reads; and all of them
\* once no byte is left on the way.
THEOREM FramesArriveInOrder == FramingSpec => []FramesInOrder
<1>1. FlowInv => FramesInOrder
  <2> SUFFICES ASSUME FlowInv, Short
               PROVE  /\ Len(handled) <= Len(sent)
                      /\ handled = SubSeq(sent, 1, Len(handled))
                      /\ sending = <<>> /\ readAbleBytes = 0 /\ Waiting => handled = sent
    BY DEF FramesInOrder, Short
  <2>1. PICK S, c : Laid(S, c, sent) /\ Cut(S, c)
    BY DEF FlowInv
  <2> DEFINE N == Len(sent)
             k == Len(handled)
  <2>2. /\ handled \in Seq(Frames) /\ sent \in Seq(Frames) /\ k <= N
        /\ \A i \in 1 .. k : handled[i] = sent[i]
        /\ k \in Nat /\ N \in Nat
    BY <2>1 DEF Cut, FlowInv, FlowTypes
  <2>3. handled = SubSeq(sent, 1, k)
    <3>1. /\ SubSeq(sent, 1, k) \in Seq(Frames) /\ Len(SubSeq(sent, 1, k)) = k
          /\ \A i \in 1 .. k : SubSeq(sent, 1, k)[i] = sent[i]
      BY <2>2
    <3> QED
      BY <2>2, <3>1, SeqEqual
  <2>4. ASSUME sending = <<>>, readAbleBytes = 0, Waiting PROVE handled = sent
    <3>1. Len(Stream) = Len(data_) /\ Len(data_) \in Nat
      <4>1. Content = <<>>
        BY <2>4, ContentIsSeq DEF FlowInv, FlowTypes
      <4>2. Stream = data_ /\ data_ \in Seq(Byte)
        <5>1. data_ \in Seq(Byte)
          BY DEF FlowInv, FlowTypes
        <5>2. <<>> \o <<>> = <<>> /\ data_ \o <<>> = data_
          BY <5>1, EmptyIsBytes, ConcatEmptySeq
        <5> QED
          BY <2>4, <4>1, <5>1, <5>2 DEF Stream, Flat
      <4> QED
        BY <4>2
    <3>2. ASSUME k < N PROVE FALSE
      <4>1. k \in 0 .. N /\ k + 1 \in 1 .. N /\ k + 1 \in 0 .. N /\ N \in 0 .. N
            /\ (k + 1) - 1 = k /\ k + 1 <= N
        BY <2>2, <3>2
      <4>2. /\ c[k] \in Nat /\ c[N] \in Nat /\ c[N] = Len(S)
            /\ c[k + 1] = c[k] + 2 + Len(sent[k + 1].body) /\ c[k + 1] <= c[N]
        BY <2>1, <4>1 DEF Laid
      <4>3. sent[k + 1] \in Frames
        BY <2>2, <4>1
      <4>4. Len(sent[k + 1].body) \in Nat
        BY <4>3 DEF Frames, Bytes
      <4>5. CASE head_received_
        <5>1. /\ c[k] + 2 + Len(Stream) = Len(S) /\ body_len_ = Len(sent[k + 1].body)
              /\ Len(data_) < body_len_
          BY <2>1, <2>4, <4>5 DEF Cut, Waiting
        <5> QED
          BY <3>1, <4>2, <4>4, <5>1
      <4>6. CASE ~head_received_
        <5>1. c[k] + 0 + Len(Stream) = Len(S) /\ Len(data_) < 2
          BY <2>1, <2>4, <4>6 DEF Cut, Waiting
        <5> QED
          BY SMTT(30), <3>1, <4>2, <4>4, <5>1
      <4> QED
        BY <4>5, <4>6
    <3>3. k = N
      BY <2>2, <3>2
    <3> QED
      BY <2>2, <3>3, SeqEqual
  <2> QED
    BY <2>2, <2>3, <2>4
<1> QED
  BY <1>1, FlowInit, FlowNext, PTL DEF FramingSpec
-------------------------------------------------------------------------------
(* The buffer between the two ends of the framing is a buffer like any     *)
(* other.                                                                  *)

PiecesAreData == \A i \in 1 .. Len(sending) : sending[i] \in Data

LEMMA PiecesNext ==
  ASSUME MaxData >= 1, FlowInv, PiecesAreData, [FramingNext]_framingVars
  PROVE  PiecesAreData' /\ [Next]_vars
<1>1. ASSUME NEW tag \in Byte, NEW body \in Data, SendData(tag, body)
      PROVE  PiecesAreData' /\ UNCHANGED vars
  <2> DEFINE len == Len(body) % 2^Width
  <2>1. /\ sending' = <<<<tag>>, <<len>>, body>> /\ UNCHANGED vars
    BY <1>1 DEF SendData
  <2>2. len \in Byte
    <3>1. Len(body) \in Nat
      BY DataIsSeq
    <3> DEFINE W == 2^Width
    <3>2. W \in Nat \ {0} /\ Byte = 0 .. W - 1
      BY FramingAssumption DEF FramingAssumption
    <3> HIDE DEF W
    <3>3. Len(body) % W \in Byte
      BY <3>1, <3>2
    <3> QED
      BY <3>3 DEF W
  <2> HIDE DEF len
  <2>3. 1 \in 0 .. MaxData
    BY ConstantAssumption DEF ConstantAssumption
  <2>4. <<tag>> \in [1 .. 1 -> Byte] /\ <<len>> \in [1 .. 1 -> Byte]
    BY <2>2
  <2>5. <<tag>> \in Data /\ <<len>> \in Data
    BY <2>3, <2>4 DEF Data
  <2>6. Len(sending') = 3 /\ sending'[1] = <<tag>> /\ sending'[2] = <<len>> /\ sending'[3] = body
    BY <2>1
  <2>7. \A i \in 1 .. Len(sending') : sending'[i] \in Data
    BY <2>5, <2>6
  <2> QED
    BY <2>1, <2>7 DEF PiecesAreData
<1>2. ASSUME Put PROVE PiecesAreData' /\ Next
  <2>1. /\ sending \in Seq(Bytes) /\ sending # <<>> /\ sending' = Tail(sending)
        /\ write(Head(sending))
    BY <1>2 DEF Put, FlowInv, FlowTypes, Pieces
  <2>2. /\ Len(sending) \in Nat \ {0} /\ Head(sending) = sending[1]
        /\ Len(sending') = Len(sending) - 1
        /\ \A i \in 1 .. Len(sending') : sending'[i] = sending[i + 1]
    BY <2>1, HeadTailProperties
  <2>3. Head(sending) \in Data
    BY <2>2 DEF PiecesAreData
  <2>4. \A i \in 1 .. Len(sending') : sending'[i] \in Data
    BY <2>2 DEF PiecesAreData
  <2> QED
    BY <2>1, <2>3, <2>4 DEF PiecesAreData, Next
<1>3. ASSUME NEW n \in Counts, Transfer(n) PROVE PiecesAreData' /\ Next
  BY <1>3 DEF Transfer, PiecesAreData, Next
<1>4. CASE ReadHead \/ ReadBody \/ UNCHANGED framingVars
  BY <1>4 DEF ReadHead, ReadBody, framingVars, PiecesAreData
<1> QED
  BY <1>1, <1>2, <1>3, <1>4 DEF FramingNext

\* With frames on their way, too, the buffer is a queue of bytes: MaxData only has to
\* allow the one byte of a tag or a length.
THEOREM FramingBufferIsFifo == ASSUME MaxData >= 1 PROVE FramingSpec => FifoSpec
<1>1. FramingInit => Init /\ PiecesAreData
  BY DEF FramingInit, PiecesAreData
<1>2. FramingSpec => Spec
  BY <1>1, FlowInit, FlowNext, PiecesNext, PTL DEF FramingSpec, Spec
<1> QED
  BY <1>2, BufferIsFifo, PTL
===============================================================================
