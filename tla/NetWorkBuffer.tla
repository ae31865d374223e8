----------------------------- MODULE NetWorkBuffer -----------------------------
(***************************************************************************)
(* The byte buffer of src/server/src/common/NetWorkBuffer.cpp: an array    *)
(* with a read and a write index that is compacted or replaced by a larger *)
(* one when a write does not fit.                                          *)
(*                                                                         *)
(* Compaction copies with memcpy although source and destination may       *)
(* overlap.  The model copies as if the source were read first (memmove),  *)
(* which is what the memcpy of the platforms the server is built for does. *)
(***************************************************************************)
EXTENDS Naturals, Sequences

CONSTANTS
  Byte,        \* the values of a byte
  Junk,        \* the content of memory nobody wrote
  InitialSize, \* the size the buffer is constructed with
  MaxSize,     \* bound: no write makes the array larger
  MaxData      \* bound: bytes of one write

ASSUME ConstantAssumption ==
  /\ Junk \in Byte
  /\ InitialSize \in Nat /\ MaxSize \in Nat /\ MaxData \in Nat

VARIABLES
  buffer_,      \* the array: a function on 0 .. size_-1
  read_index_, write_index_, size_,
  result        \* the bytes the last operation returned

vars == <<buffer_, read_index_, write_index_, size_, result>>

readAbleBytes  == write_index_ - read_index_
writeAbleBytes == size_ - write_index_

TypeOK ==
  /\ size_ \in Nat
  /\ read_index_ \in 0..write_index_
  /\ write_index_ \in 0..size_
  /\ buffer_ \in [0 .. size_ - 1 -> Byte]
  /\ result \in Seq(Byte)

Init ==
  /\ size_ = InitialSize
  /\ buffer_ = [i \in 0 .. InitialSize - 1 |-> Junk]
  /\ read_index_ = 0 /\ write_index_ = 0
  /\ result = <<>>

\* write_index_ - read_index_ bytes from peek() on, as a sequence.
Content == [i \in 1..readAbleBytes |-> buffer_[read_index_ + i - 1]]

\* The array b with data copied to position at.
Copied(b, at, data) ==
  [i \in DOMAIN b |-> IF i \in at .. at + Len(data) - 1 THEN data[i - at + 1] ELSE b[i]]

\* write: the data fits behind write_index_ ...
WriteInPlace(data) ==
  /\ Len(data) <= writeAbleBytes
  /\ buffer_' = Copied(buffer_, write_index_, data)
  /\ write_index_' = write_index_ + Len(data)
  /\ UNCHANGED <<read_index_, size_>>

\* Mutant: memcpy copies the overlapping bytes from the last to the first, so a
\* byte that is overwritten before it is read arrives as a later one.
WriteCompacting_Backwards(data) ==
  LET last(i) == CHOOSE j \in i .. readAbleBytes - 1 :
                   (j - i) % read_index_ = 0 /\ j + read_index_ > readAbleBytes - 1
      moved == [i \in 1..readAbleBytes |-> buffer_[read_index_ + last(i - 1)]]
  IN
  /\ Len(data) > writeAbleBytes /\ Len(data) <= read_index_ + writeAbleBytes
  /\ buffer_' = Copied(Copied(buffer_, 0, moved), readAbleBytes, data)
  /\ write_index_' = readAbleBytes + Len(data)
  /\ read_index_' = 0
  /\ UNCHANGED size_

\* ... or it fits once the readable bytes are moved to the front ...
WriteCompacting(data) ==
  /\ Len(data) > writeAbleBytes /\ Len(data) <= read_index_ + writeAbleBytes
  /\ buffer_' = Copied(Copied(buffer_, 0, Content), readAbleBytes, data)
  /\ write_index_' = readAbleBytes + Len(data)
  /\ read_index_' = 0
  /\ UNCHANGED size_

\* ... or it needs an array larger by its length, with the old one copied.
WriteGrowing(data) ==
  /\ Len(data) > read_index_ + writeAbleBytes /\ size_ + Len(data) <= MaxSize
  /\ buffer_' = Copied([i \in 0 .. size_ + Len(data) - 1 |->
                          IF i < size_ THEN buffer_[i] ELSE Junk], write_index_, data)
  /\ write_index_' = write_index_ + Len(data)
  /\ size_' = size_ + Len(data)
  /\ UNCHANGED read_index_

write(data) ==
  /\ WriteInPlace(data) \/ WriteCompacting(data) \/ WriteGrowing(data)
  /\ result' = <<>>

\* retrivevAsString, revrieveUInt16: n bytes, or nothing if there are fewer.
retrivevAsString(n) ==
  /\ IF n <= readAbleBytes
     THEN /\ result' = SubSeq(Content, 1, n)
          /\ read_index_' = read_index_ + n
     ELSE result' = <<>> /\ UNCHANGED read_index_
  /\ UNCHANGED <<buffer_, write_index_, size_>>

Data == UNION {[1..n -> Byte] : n \in 0..MaxData}
Counts == 0..MaxSize

Next == (\E data \in Data : write(data)) \/ (\E n \in Counts : retrivevAsString(n))

Spec == Init /\ [][Next]_vars

-------------------------------------------------------------------------------
Fifo == INSTANCE ByteFifo WITH queue <- Content, got <- result

\* The buffer is a queue of bytes: neither compaction nor growth loses, repeats or
\* reorders a byte, whatever the sequence of writes and reads before it.
FifoSpec == Fifo!Spec
===============================================================================
