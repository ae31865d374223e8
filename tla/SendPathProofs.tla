----------------------------- MODULE SendPathProofs -----------------------------
(***************************************************************************)
(* Proofs about SendPath, for any number of sending threads, any length of *)
(* a body, any array and any number of bytes: at most one write is under   *)
(* way, and the client gets the bytes in order unless they were moved      *)
(* under a reader.                                                         *)
(*                                                                         *)
(* Neither is inductive.  What makes the writes exclusive is split between *)
(* mutex_ and be_sending_: a thread about to start a write holds mutex_    *)
(* and saw be_sending_ unset, and whenever a write is under way either     *)
(* be_sending_ is set or the thread that started it has yet to set it and  *)
(* still holds mutex_ (UnderWayIsSeen).  What keeps the bytes in order is  *)
(* that the array holds the last ones appended, wherever a compaction is   *)
(* between its steps (Retained), and that a write is given the first of    *)
(* them (Accounted).                                                       *)
(***************************************************************************)
EXTENDS SendPath, TLAPS

\* The steps of sendData that hold mutex_.
Filling  == {"write", "compact", "setw", "setr", "grow", "put"}
Critical == Filling \cup {"check", "init", "set"}

\* The steps of handlingWrite after it has taken the completion.
Late == pc[Own] \in {"test", "again", "clear"}

\* The bytes of its frame that a thread has yet to append.
Rest == IF part = 1 THEN FrameLen ELSE IF part = 2 THEN 1 + BodyLen ELSE BodyLen

\* The state has its types, whatever was disturbed.
Types ==
  /\ pc \in [Threads -> PCs]
  /\ mutex_ \in Threads \cup {None} /\ part \in 1..3
  /\ be_sending_ \in BOOLEAN /\ stale \in BOOLEAN /\ broken \in BOOLEAN
  /\ shared \in BOOLEAN /\ disturbed \in BOOLEAN /\ garbled \in BOOLEAN
  /\ size_ \in Nat /\ buffer_ \in [0 .. size_ - 1 -> Bytes]
  /\ read_index_ \in Nat /\ write_index_ \in Nat
  /\ appended \in Bytes /\ sent \in Bytes
  /\ writes \in Nat /\ from \in Nat /\ len \in Nat
  /\ completed \in Bytes \cup {None_} /\ loaded \in Nat

\* Whoever is between lock and unlock in sendData holds mutex_, and has room.
MutexHeld ==
  \A t \in Threads :
    /\ pc[t] \in Critical => mutex_ = t
    /\ pc[t] \in Filling => appended + Rest <= MaxBytes

\* A write is with the socket, or its completion waits, or is being handled.
UnderWay == writes > 0 \/ completed # None_ \/ Late

\* Only one of the three, and of one write only.
Exclusive ==
  /\ writes <= 1
  /\ writes > 0 => completed = None_ /\ ~Late
  /\ completed # None_ => ~Late
  /\ pc[Own] \in {"retrieve", "store"} => completed # None_

\* A thread that holds mutex_ and reads be_sending_ unset finds no write under way.
UnderWayIsSeen ==
  /\ UnderWay => be_sending_ \/ \E t \in Threads : pc[t] = "set"
  /\ \A t \in Threads : pc[t] = "init" => ~UnderWay

Control == Types /\ MutexHeld /\ Exclusive /\ UnderWayIsSeen

\* The array grows by what is then appended, so that no index reaches Wrap.
SizeBound ==
  /\ (\A t \in Threads : pc[t] # "put") => size_ <= InitialSize + appended
  /\ \A t \in Threads : pc[t] = "put" => size_ <= InitialSize + appended + Parts[part]

\* ensureWriteSafe makes the room it was asked for.
Room ==
  \A t \in Threads :
    /\ pc[t] \in {"compact", "setw"} => Parts[part] <= read_index_ + size_ - write_index_
    /\ pc[t] \in {"setr", "put"} => write_index_ + Parts[part] <= size_

\* The bytes retained are the last ones appended: they end at the write index, and
\* begin at the read index - or at 0, once a compaction has moved them.
IndexReset == \E t \in Threads : pc[t] = "setr"
Held == IF IndexReset THEN write_index_ ELSE write_index_ - read_index_

Retained ==
  /\ write_index_ <= size_
  /\ ~IndexReset => read_index_ <= write_index_
  /\ \A i \in 0 .. Held - 1 :
       LET place == IF Moving THEN i ELSE read_index_ + i IN
         buffer_[place] = appended - Held + i + 1

\* The bytes sent and not retrieved are those of the waiting completion, and what the
\* socket was given begins at the first byte retained.
Accounted ==
  /\ completed = None_ => sent = appended - Held
  /\ completed # None_ => sent = appended - Held + completed /\ completed <= Held
  /\ Held <= appended
  /\ writes > 0 => ~stale /\ ~Moving /\ from = read_index_ /\ from + len <= write_index_
  /\ pc[Own] = "store" => ~Moving /\ loaded = read_index_

Data == ~disturbed => ~garbled /\ Room /\ Retained /\ Accounted

Inv == Control /\ SizeBound /\ Data

USE DEF ConstantAssumption, Threads, Bytes, None_, PCs, Goto, Parts, FrameLen,
        bufferVars, sendVars, socketVars

\* Differences of unsigned numbers are numbers, and exact when nothing wraps.
LEMMA MinusNat == ASSUME NEW a \in Nat, NEW b \in Nat PROVE Minus(a, b) \in Nat /\ (b <= a => Minus(a, b) = a - b)
<1>1. Wrap \in Nat \ {0}
  BY ConstantAssumption
<1>2. (a - b) % Wrap \in 0 .. Wrap - 1
  BY <1>1
<1> QED
  BY <1>1, <1>2 DEF Minus

LEMMA ReadWriteAbleNat == Types => ReadAble \in Nat /\ WriteAble \in Nat
  BY MinusNat DEF Types, ReadAble, WriteAble

\* What is read from the array, or from behind it, is a byte.
LEMMA ByteAtByte == ASSUME Types, NEW i \in Nat PROVE ByteAt(i) \in Bytes
  BY ConstantAssumption DEF Types, ByteAt

LEMMA ControlInit == Init => Control
<1> SUFFICES ASSUME Init PROVE Control
  OBVIOUS
<1> USE ConstantAssumption DEF Init
<1>1. Types
  <2>1. pc \in [Threads -> PCs] /\ mutex_ \in Threads \cup {None} /\ part \in 1..3
    OBVIOUS
  <2>2. be_sending_ \in BOOLEAN /\ stale \in BOOLEAN /\ broken \in BOOLEAN
    OBVIOUS
  <2>3. shared \in BOOLEAN /\ disturbed \in BOOLEAN /\ garbled \in BOOLEAN
    OBVIOUS
  <2>4. size_ \in Nat /\ read_index_ \in Nat /\ write_index_ \in Nat
    OBVIOUS
  <2>5. buffer_ \in [0 .. size_ - 1 -> Bytes]
    OBVIOUS
  <2>6. appended \in Bytes /\ sent \in Bytes
    OBVIOUS
  <2>7. writes \in Nat /\ from \in Nat /\ len \in Nat
    OBVIOUS
  <2>8. completed \in Bytes \cup {None_} /\ loaded \in Nat
    OBVIOUS
  <2> QED
    BY <2>1, <2>2, <2>3, <2>4, <2>5, <2>6, <2>7, <2>8 DEF Types
<1>2. MutexHeld /\ Exclusive /\ UnderWayIsSeen
  BY DEF MutexHeld, Exclusive, UnderWayIsSeen, UnderWay, Late, Critical, Filling
<1> QED
  BY <1>1, <1>2 DEF Control

LEMMA ControlNext == Control /\ [Next]_vars => Control'
<1> SUFFICES ASSUME Control, [Next]_vars PROVE Control'
  OBVIOUS
<1> USE ConstantAssumption DEF Control
<1>0. ReadAble \in Nat /\ WriteAble \in Nat
  BY ReadWriteAbleNat
<1>1. ASSUME NEW t \in Threads, Lock(t) PROVE Control'
  <2>1. Types'
    BY <1>0, <1>1 DEF Lock, Types, MutexHeld, Critical, Filling, Rest
  <2>2. MutexHeld'
    BY <1>1 DEF Lock, Types, MutexHeld, Critical, Filling, Rest
  <2>3. Exclusive' /\ UnderWayIsSeen'
    BY <1>1 DEF Lock, Types, MutexHeld, Critical, Filling, Exclusive, UnderWayIsSeen, UnderWay, Late
  <2> QED
    BY <2>1, <2>2, <2>3
<1>2. ASSUME NEW t \in Threads, EnsureWriteSafe(t) PROVE Control'
  <2>1. Types'
    BY <1>0, <1>2 DEF EnsureWriteSafe, Types, MutexHeld, Critical, Filling, Rest
  <2>2. MutexHeld'
    BY <1>2 DEF EnsureWriteSafe, Types, MutexHeld, Critical, Filling, Rest
  <2>3. Exclusive' /\ UnderWayIsSeen'
    BY <1>2 DEF EnsureWriteSafe, Types, MutexHeld, Critical, Filling, Exclusive, UnderWayIsSeen, UnderWay, Late
  <2> QED
    BY <2>1, <2>2, <2>3
<1>3. ASSUME NEW t \in Threads, Compact(t) PROVE Control'
  <2>1. Types'
    <3>1. pc' \in [Threads -> PCs] /\ mutex_' \in Threads \cup {None} /\ part' \in 1..3
      BY <1>0, <1>3 DEF Compact, Disturb, Types, MutexHeld, Critical, Filling, Rest
    <3>2. be_sending_' \in BOOLEAN /\ stale' \in BOOLEAN /\ broken' \in BOOLEAN
      BY <1>0, <1>3 DEF Compact, Disturb, Types, MutexHeld, Critical, Filling, Rest
    <3>3. shared' \in BOOLEAN /\ disturbed' \in BOOLEAN /\ garbled' \in BOOLEAN
      BY <1>0, <1>3 DEF Compact, Disturb, Types, MutexHeld, Critical, Filling, Rest
    <3>4. size_' \in Nat /\ read_index_' \in Nat /\ write_index_' \in Nat
      BY <1>0, <1>3 DEF Compact, Disturb, Types, MutexHeld, Critical, Filling, Rest
    <3>5. buffer_' \in [0 .. size_' - 1 -> Bytes]
      <4>1. \A i \in Nat : ByteAt(read_index_ + i) \in Bytes
        <5>1. Types /\ \A i \in Nat : read_index_ + i \in Nat
          BY DEF Types
        <5> QED
          BY <5>1, ByteAtByte
      <4>2. \A i \in DOMAIN buffer_ : i \in Nat
        BY DEF Types
      <4> QED
        BY <4>1, <4>2, <1>3 DEF Compact, Types
    <3>6. appended' \in Bytes /\ sent' \in Bytes
      BY <1>0, <1>3 DEF Compact, Disturb, Types, MutexHeld, Critical, Filling, Rest
    <3>7. writes' \in Nat /\ from' \in Nat /\ len' \in Nat
      BY <1>0, <1>3 DEF Compact, Disturb, Types, MutexHeld, Critical, Filling, Rest
    <3>8. completed' \in Bytes \cup {None_} /\ loaded' \in Nat
      BY <1>0, <1>3 DEF Compact, Disturb, Types, MutexHeld, Critical, Filling, Rest
    <3> QED
      BY <3>1, <3>2, <3>3, <3>4, <3>5, <3>6, <3>7, <3>8 DEF Types
  <2>2. MutexHeld'
    BY <1>3 DEF Compact, Disturb, Types, MutexHeld, Critical, Filling, Rest
  <2>3. Exclusive' /\ UnderWayIsSeen'
    BY <1>3 DEF Compact, Disturb, Types, MutexHeld, Critical, Filling, Exclusive, UnderWayIsSeen, UnderWay, Late
  <2> QED
    BY <2>1, <2>2, <2>3
<1>4. ASSUME NEW t \in Threads, SetWriteIndex(t) PROVE Control'
  <2>1. Types'
    BY <1>0, <1>4 DEF SetWriteIndex, Disturb, Types, MutexHeld, Critical, Filling, Rest
  <2>2. MutexHeld'
    BY <1>4 DEF SetWriteIndex, Disturb, Types, MutexHeld, Critical, Filling, Rest
  <2>3. Exclusive' /\ UnderWayIsSeen'
    BY <1>4 DEF SetWriteIndex, Disturb, Types, MutexHeld, Critical, Filling, Exclusive, UnderWayIsSeen, UnderWay, Late
  <2> QED
    BY <2>1, <2>2, <2>3
<1>5. ASSUME NEW t \in Threads, SetReadIndex(t) PROVE Control'
  <2>1. Types'
    BY <1>0, <1>5 DEF SetReadIndex, Disturb, Types, MutexHeld, Critical, Filling, Rest
  <2>2. MutexHeld'
    BY <1>5 DEF SetReadIndex, Disturb, Types, MutexHeld, Critical, Filling, Rest
  <2>3. Exclusive' /\ UnderWayIsSeen'
    BY <1>5 DEF SetReadIndex, Disturb, Types, MutexHeld, Critical, Filling, Exclusive, UnderWayIsSeen, UnderWay, Late
  <2> QED
    BY <2>1, <2>2, <2>3
<1>6. ASSUME NEW t \in Threads, Grow(t) PROVE Control'
  <2>1. Types'
    <3>1. pc' \in [Threads -> PCs] /\ mutex_' \in Threads \cup {None} /\ part' \in 1..3
      BY <1>0, <1>6 DEF Grow, Types, MutexHeld, Critical, Filling, Rest
    <3>2. be_sending_' \in BOOLEAN /\ stale' \in BOOLEAN /\ broken' \in BOOLEAN
      BY <1>0, <1>6 DEF Grow, Types, MutexHeld, Critical, Filling, Rest
    <3>3. shared' \in BOOLEAN /\ disturbed' \in BOOLEAN /\ garbled' \in BOOLEAN
      BY <1>0, <1>6 DEF Grow, Types, MutexHeld, Critical, Filling, Rest
    <3>4. size_' \in Nat /\ read_index_' \in Nat /\ write_index_' \in Nat
      BY <1>0, <1>6 DEF Grow, Types, MutexHeld, Critical, Filling, Rest
    <3>5. buffer_' \in [0 .. size_' - 1 -> Bytes]
      <4>1. \A i \in 0 .. size_' - 1 : ByteAt(i) \in Bytes
        BY ByteAtByte, <3>4
      <4> QED
        BY <4>1, <1>6 DEF Grow
    <3>6. appended' \in Bytes /\ sent' \in Bytes
      BY <1>0, <1>6 DEF Grow, Types, MutexHeld, Critical, Filling, Rest
    <3>7. writes' \in Nat /\ from' \in Nat /\ len' \in Nat
      BY <1>0, <1>6 DEF Grow, Types, MutexHeld, Critical, Filling, Rest
    <3>8. completed' \in Bytes \cup {None_} /\ loaded' \in Nat
      BY <1>0, <1>6 DEF Grow, Types, MutexHeld, Critical, Filling, Rest
    <3> QED
      BY <3>1, <3>2, <3>3, <3>4, <3>5, <3>6, <3>7, <3>8 DEF Types
  <2>2. MutexHeld'
    BY <1>6 DEF Grow, Types, MutexHeld, Critical, Filling, Rest
  <2>3. Exclusive' /\ UnderWayIsSeen'
    BY <1>6 DEF Grow, Types, MutexHeld, Critical, Filling, Exclusive, UnderWayIsSeen, UnderWay, Late
  <2> QED
    BY <2>1, <2>2, <2>3
<1>7. ASSUME NEW t \in Threads, PutPart(t) PROVE Control'
  <2>1. Types'
    <3>1. pc' \in [Threads -> PCs] /\ mutex_' \in Threads \cup {None} /\ part' \in 1..3
      <4>1. CASE part < 3
        <5>1. part' = part + 1 /\ pc' = [pc EXCEPT ![t] = "write"] /\ mutex_' = mutex_
          BY <4>1, <1>7 DEF PutPart
        <5> QED
          BY <4>1, <5>1 DEF Types
      <4>2. CASE ~(part < 3)
        BY <4>2, <1>7 DEF PutPart, Types
      <4> QED
        BY <4>1, <4>2
    <3>2. be_sending_' \in BOOLEAN /\ stale' \in BOOLEAN /\ broken' \in BOOLEAN
      BY <1>0, <1>7 DEF PutPart, Types, MutexHeld, Critical, Filling, Rest
    <3>3. shared' \in BOOLEAN /\ disturbed' \in BOOLEAN /\ garbled' \in BOOLEAN
      BY <1>0, <1>7 DEF PutPart, Types, MutexHeld, Critical, Filling, Rest
    <3>4. size_' \in Nat /\ read_index_' \in Nat /\ write_index_' \in Nat
      BY <1>0, <1>7 DEF PutPart, Types, MutexHeld, Critical, Filling, Rest
    <3>5. buffer_' \in [0 .. size_' - 1 -> Bytes]
      BY SMTT(30), <1>0, <1>7 DEF PutPart, Types, MutexHeld, Critical, Filling, Rest
    <3>6. appended' \in Bytes /\ sent' \in Bytes
      BY <1>0, <1>7 DEF PutPart, Types, MutexHeld, Critical, Filling, Rest
    <3>7. writes' \in Nat /\ from' \in Nat /\ len' \in Nat
      BY <1>0, <1>7 DEF PutPart, Types, MutexHeld, Critical, Filling, Rest
    <3>8. completed' \in Bytes \cup {None_} /\ loaded' \in Nat
      BY <1>0, <1>7 DEF PutPart, Types, MutexHeld, Critical, Filling, Rest
    <3> QED
      BY <3>1, <3>2, <3>3, <3>4, <3>5, <3>6, <3>7, <3>8 DEF Types
  <2>2. MutexHeld'
    BY SMTT(30), <1>7 DEF PutPart, Types, MutexHeld, Critical, Filling, Rest
  <2>3. Exclusive' /\ UnderWayIsSeen'
    BY <1>7 DEF PutPart, Types, MutexHeld, Critical, Filling, Exclusive, UnderWayIsSeen, UnderWay, Late
  <2> QED
    BY <2>1, <2>2, <2>3
<1>8. ASSUME NEW t \in Threads, Check(t) PROVE Control'
  <2>1. Types'
    BY <1>0, <1>8 DEF Check, Types, MutexHeld, Critical, Filling, Rest
  <2>2. MutexHeld'
    BY <1>8 DEF Check, Types, MutexHeld, Critical, Filling, Rest
  <2>3. Exclusive' /\ UnderWayIsSeen'
    BY <1>8 DEF Check, Types, MutexHeld, Critical, Filling, Exclusive, UnderWayIsSeen, UnderWay, Late
  <2> QED
    BY <2>1, <2>2, <2>3
<1>9. ASSUME NEW t \in Threads, InitWrite(t) PROVE Control'
  <2>1. Types'
    <3>1. pc' \in [Threads -> PCs] /\ mutex_' \in Threads \cup {None} /\ part' \in 1..3
      BY <1>0, <1>9 DEF InitWrite, StartWrite, Types, MutexHeld, Critical, Filling, Rest
    <3>2. be_sending_' \in BOOLEAN /\ stale' \in BOOLEAN /\ broken' \in BOOLEAN
      BY <1>0, <1>9 DEF InitWrite, StartWrite, Types, MutexHeld, Critical, Filling, Rest
    <3>3. shared' \in BOOLEAN /\ disturbed' \in BOOLEAN /\ garbled' \in BOOLEAN
      BY <1>0, <1>9 DEF InitWrite, StartWrite, Types, MutexHeld, Critical, Filling, Rest
    <3>4. size_' \in Nat /\ read_index_' \in Nat /\ write_index_' \in Nat
      BY <1>0, <1>9 DEF InitWrite, StartWrite, Types, MutexHeld, Critical, Filling, Rest
    <3>5. buffer_' \in [0 .. size_' - 1 -> Bytes]
      BY <1>0, <1>9 DEF InitWrite, StartWrite, Types, MutexHeld, Critical, Filling, Rest
    <3>6. appended' \in Bytes /\ sent' \in Bytes
      BY <1>0, <1>9 DEF InitWrite, StartWrite, Types, MutexHeld, Critical, Filling, Rest
    <3>7. writes' \in Nat /\ from' \in Nat /\ len' \in Nat
      BY <1>0, <1>9 DEF InitWrite, StartWrite, Types, MutexHeld, Critical, Filling, Rest
    <3>8. completed' \in Bytes \cup {None_} /\ loaded' \in Nat
      BY <1>0, <1>9 DEF InitWrite, StartWrite, Types, MutexHeld, Critical, Filling, Rest
    <3> QED
      BY <3>1, <3>2, <3>3, <3>4, <3>5, <3>6, <3>7, <3>8 DEF Types
  <2>2. MutexHeld'
    BY <1>9 DEF InitWrite, StartWrite, Types, MutexHeld, Critical, Filling, Rest
  <2>3. Exclusive' /\ UnderWayIsSeen'
    BY <1>9 DEF InitWrite, StartWrite, Types, MutexHeld, Critical, Filling, Exclusive, UnderWayIsSeen, UnderWay, Late
  <2> QED
    BY <2>1, <2>2, <2>3
<1>10. ASSUME NEW t \in Threads, SetSending(t) PROVE Control'
  <2>1. Types'
    BY <1>0, <1>10 DEF SetSending, Types, MutexHeld, Critical, Filling, Rest
  <2>2. MutexHeld'
    BY <1>10 DEF SetSending, Types, MutexHeld, Critical, Filling, Rest
  <2>3. Exclusive' /\ UnderWayIsSeen'
    BY <1>10 DEF SetSending, Types, MutexHeld, Critical, Filling, Exclusive, UnderWayIsSeen, UnderWay, Late
  <2> QED
    BY <2>1, <2>2, <2>3
<1>11. ASSUME NEW n \in Bytes, Transfer(n) PROVE Control'
  <2>1. Types'
    <3>1. pc' \in [Threads -> PCs] /\ mutex_' \in Threads \cup {None} /\ part' \in 1..3
      BY <1>0, <1>11 DEF Transfer, Done, Types, MutexHeld, Critical, Filling, Rest
    <3>2. be_sending_' \in BOOLEAN /\ stale' \in BOOLEAN /\ broken' \in BOOLEAN
      BY <1>0, <1>11 DEF Transfer, Done, Types, MutexHeld, Critical, Filling, Rest
    <3>3. shared' \in BOOLEAN /\ disturbed' \in BOOLEAN /\ garbled' \in BOOLEAN
      BY <1>0, <1>11 DEF Transfer, Done, Types, MutexHeld, Critical, Filling, Rest
    <3>4. size_' \in Nat /\ read_index_' \in Nat /\ write_index_' \in Nat
      BY <1>0, <1>11 DEF Transfer, Done, Types, MutexHeld, Critical, Filling, Rest
    <3>5. buffer_' \in [0 .. size_' - 1 -> Bytes]
      BY <1>0, <1>11 DEF Transfer, Done, Types, MutexHeld, Critical, Filling, Rest
    <3>6. appended' \in Bytes /\ sent' \in Bytes
      BY <1>0, <1>11 DEF Transfer, Done, Types, MutexHeld, Critical, Filling, Rest
    <3>7. writes' \in Nat /\ from' \in Nat /\ len' \in Nat
      BY <1>0, <1>11 DEF Transfer, Done, Types, MutexHeld, Critical, Filling, Rest
    <3>8. completed' \in Bytes \cup {None_} /\ loaded' \in Nat
      BY <1>0, <1>11 DEF Transfer, Done, Types, MutexHeld, Critical, Filling, Rest
    <3> QED
      BY <3>1, <3>2, <3>3, <3>4, <3>5, <3>6, <3>7, <3>8 DEF Types
  <2>2. MutexHeld'
    BY <1>11 DEF Transfer, Done, Types, MutexHeld, Critical, Filling, Rest
  <2>3. Exclusive' /\ UnderWayIsSeen'
    BY <1>11 DEF Transfer, Done, Types, MutexHeld, Critical, Filling, Exclusive, UnderWayIsSeen, UnderWay, Late
  <2> QED
    BY <2>1, <2>2, <2>3
<1>12. CASE Fail
  <2>1. Types'
    <3>1. pc' \in [Threads -> PCs] /\ mutex_' \in Threads \cup {None} /\ part' \in 1..3
      BY <1>0, <1>12 DEF Fail, Done, Types, MutexHeld, Critical, Filling, Rest
    <3>2. be_sending_' \in BOOLEAN /\ stale' \in BOOLEAN /\ broken' \in BOOLEAN
      BY <1>0, <1>12 DEF Fail, Done, Types, MutexHeld, Critical, Filling, Rest
    <3>3. shared' \in BOOLEAN /\ disturbed' \in BOOLEAN /\ garbled' \in BOOLEAN
      BY <1>0, <1>12 DEF Fail, Done, Types, MutexHeld, Critical, Filling, Rest
    <3>4. size_' \in Nat /\ read_index_' \in Nat /\ write_index_' \in Nat
      BY <1>0, <1>12 DEF Fail, Done, Types, MutexHeld, Critical, Filling, Rest
    <3>5. buffer_' \in [0 .. size_' - 1 -> Bytes]
      BY <1>0, <1>12 DEF Fail, Done, Types, MutexHeld, Critical, Filling, Rest
    <3>6. appended' \in Bytes /\ sent' \in Bytes
      BY <1>0, <1>12 DEF Fail, Done, Types, MutexHeld, Critical, Filling, Rest
    <3>7. writes' \in Nat /\ from' \in Nat /\ len' \in Nat
      BY <1>0, <1>12 DEF Fail, Done, Types, MutexHeld, Critical, Filling, Rest
    <3>8. completed' \in Bytes \cup {None_} /\ loaded' \in Nat
      BY <1>0, <1>12 DEF Fail, Done, Types, MutexHeld, Critical, Filling, Rest
    <3> QED
      BY <3>1, <3>2, <3>3, <3>4, <3>5, <3>6, <3>7, <3>8 DEF Types
  <2>2. MutexHeld'
    BY <1>12 DEF Fail, Done, Types, MutexHeld, Critical, Filling, Rest
  <2>3. Exclusive' /\ UnderWayIsSeen'
    BY <1>12 DEF Fail, Done, Types, MutexHeld, Critical, Filling, Exclusive, UnderWayIsSeen, UnderWay, Late
  <2> QED
    BY <2>1, <2>2, <2>3
<1>13. CASE HandlingWrite
  <2>1. Types'
    BY <1>0, <1>13 DEF HandlingWrite, Types, MutexHeld, Critical, Filling, Rest
  <2>2. MutexHeld'
    BY <1>13 DEF HandlingWrite, Types, MutexHeld, Critical, Filling, Rest
  <2>3. Exclusive' /\ UnderWayIsSeen'
    BY <1>13 DEF HandlingWrite, Types, MutexHeld, Critical, Filling, Exclusive, UnderWayIsSeen, UnderWay, Late
  <2> QED
    BY <2>1, <2>2, <2>3
<1>14. CASE Retrieve
  <2>1. Types'
    BY <1>0, <1>14 DEF Retrieve, ReadIndex, Types, MutexHeld, Critical, Filling, Rest
  <2>2. MutexHeld'
    BY <1>14 DEF Retrieve, ReadIndex, Types, MutexHeld, Critical, Filling, Rest
  <2>3. Exclusive' /\ UnderWayIsSeen'
    BY <1>14 DEF Retrieve, ReadIndex, Types, MutexHeld, Critical, Filling, Exclusive, UnderWayIsSeen, UnderWay, Late
  <2> QED
    BY <2>1, <2>2, <2>3
<1>15. CASE RetrieveN
  <2>1. Types'
    BY <1>0, <1>15 DEF RetrieveN, Types, MutexHeld, Critical, Filling, Rest
  <2>2. MutexHeld'
    BY <1>15 DEF RetrieveN, Types, MutexHeld, Critical, Filling, Rest
  <2>3. Exclusive' /\ UnderWayIsSeen'
    BY <1>15 DEF RetrieveN, Types, MutexHeld, Critical, Filling, Exclusive, UnderWayIsSeen, UnderWay, Late
  <2> QED
    BY <2>1, <2>2, <2>3
<1>16. CASE Test
  <2>1. Types'
    BY <1>0, <1>16 DEF Test, ReadIndex, Types, MutexHeld, Critical, Filling, Rest
  <2>2. MutexHeld'
    BY <1>16 DEF Test, ReadIndex, Types, MutexHeld, Critical, Filling, Rest
  <2>3. Exclusive' /\ UnderWayIsSeen'
    BY <1>16 DEF Test, ReadIndex, Types, MutexHeld, Critical, Filling, Exclusive, UnderWayIsSeen, UnderWay, Late
  <2> QED
    BY <2>1, <2>2, <2>3
<1>17. CASE Again
  <2>1. Types'
    <3>1. pc' \in [Threads -> PCs] /\ mutex_' \in Threads \cup {None} /\ part' \in 1..3
      BY <1>0, <1>17 DEF Again, StartWrite, ReadIndex, Types, MutexHeld, Critical, Filling, Rest
    <3>2. be_sending_' \in BOOLEAN /\ stale' \in BOOLEAN /\ broken' \in BOOLEAN
      BY <1>0, <1>17 DEF Again, StartWrite, ReadIndex, Types, MutexHeld, Critical, Filling, Rest
    <3>3. shared' \in BOOLEAN /\ disturbed' \in BOOLEAN /\ garbled' \in BOOLEAN
      BY <1>0, <1>17 DEF Again, StartWrite, ReadIndex, Types, MutexHeld, Critical, Filling, Rest
    <3>4. size_' \in Nat /\ read_index_' \in Nat /\ write_index_' \in Nat
      BY <1>0, <1>17 DEF Again, StartWrite, ReadIndex, Types, MutexHeld, Critical, Filling, Rest
    <3>5. buffer_' \in [0 .. size_' - 1 -> Bytes]
      BY <1>0, <1>17 DEF Again, StartWrite, ReadIndex, Types, MutexHeld, Critical, Filling, Rest
    <3>6. appended' \in Bytes /\ sent' \in Bytes
      BY <1>0, <1>17 DEF Again, StartWrite, ReadIndex, Types, MutexHeld, Critical, Filling, Rest
    <3>7. writes' \in Nat /\ from' \in Nat /\ len' \in Nat
      BY <1>0, <1>17 DEF Again, StartWrite, ReadIndex, Types, MutexHeld, Critical, Filling, Rest
    <3>8. completed' \in Bytes \cup {None_} /\ loaded' \in Nat
      BY <1>0, <1>17 DEF Again, StartWrite, ReadIndex, Types, MutexHeld, Critical, Filling, Rest
    <3> QED
      BY <3>1, <3>2, <3>3, <3>4, <3>5, <3>6, <3>7, <3>8 DEF Types
  <2>2. MutexHeld'
    BY <1>17 DEF Again, StartWrite, ReadIndex, Types, MutexHeld, Critical, Filling, Rest
  <2>3. Exclusive' /\ UnderWayIsSeen'
    BY <1>17 DEF Again, StartWrite, ReadIndex, Types, MutexHeld, Critical, Filling, Exclusive, UnderWayIsSeen, UnderWay, Late
  <2> QED
    BY <2>1, <2>2, <2>3
<1>18. CASE Clear
  <2>1. Types'
    BY <1>0, <1>18 DEF Clear, Types, MutexHeld, Critical, Filling, Rest
  <2>2. MutexHeld'
    BY <1>18 DEF Clear, Types, MutexHeld, Critical, Filling, Rest
  <2>3. Exclusive' /\ UnderWayIsSeen'
    BY <1>18 DEF Clear, Types, MutexHeld, Critical, Filling, Exclusive, UnderWayIsSeen, UnderWay, Late
  <2> QED
    BY <2>1, <2>2, <2>3
<1>19. CASE UNCHANGED vars
  BY <1>19 DEF vars, Types, MutexHeld, Critical, Filling, Rest, Exclusive, UnderWayIsSeen, UnderWay, Late
<1> QED
  BY <1>1, <1>2, <1>3, <1>4, <1>5, <1>6, <1>7, <1>8, <1>9, <1>10, <1>11, <1>12, <1>13, <1>14, <1>15, <1>16, <1>17, <1>18, <1>19
     DEF Next, InSendData, InHandlingWrite, Socket

\* A part of a frame has bytes.
LEMMA PartNat == Types => Parts[part] \in Nat \ {0}
  BY ConstantAssumption DEF Types

\* One thread at a time is between lock and unlock.
LEMMA Alone == ASSUME MutexHeld, NEW t \in Threads, NEW u \in Threads, pc[t] \in Critical, pc[u] \in Critical PROVE t = u
  BY DEF MutexHeld

HIDE DEF Parts, FrameLen

LEMMA SizeNext == Control /\ SizeBound /\ [Next]_vars => SizeBound'
<1> SUFFICES ASSUME Control, SizeBound, [Next]_vars PROVE SizeBound'
  OBVIOUS
<1> USE ConstantAssumption DEF Control, SizeBound, Types
<1>p. Parts[part] \in Nat \ {0}
  BY PartNat
<1>a. \A t \in Threads : pc[t] \in Critical \ {"put"} => size_ <= InitialSize + appended
  BY Alone DEF Critical, Filling
<1>1. ASSUME NEW t \in Threads, Lock(t) PROVE SizeBound'
  BY <1>1 DEF Lock, MutexHeld, Critical, Filling
<1>2. ASSUME NEW t \in Threads, EnsureWriteSafe(t) PROVE SizeBound'
  <2>1. size_ <= InitialSize + appended
    BY <1>a, <1>2 DEF EnsureWriteSafe, Critical, Filling
  <2>2. appended' = appended /\ part' = part /\ size_' \in {size_, size_ + Parts[part]} /\ (size_' = size_ \/ pc'[t] = "put")
    BY <1>2 DEF EnsureWriteSafe, sendVars
  <2> QED
    BY <1>p, <2>1, <2>2
<1>3. ASSUME NEW t \in Threads, Compact(t) PROVE SizeBound'
  BY <1>3 DEF Compact, Disturb, MutexHeld, Critical, Filling
<1>4. ASSUME NEW t \in Threads, SetWriteIndex(t) PROVE SizeBound'
  BY <1>4 DEF SetWriteIndex, Disturb, MutexHeld, Critical, Filling
<1>5. ASSUME NEW t \in Threads, SetReadIndex(t) PROVE SizeBound'
  <2>1. size_ <= InitialSize + appended
    BY <1>a, <1>5 DEF SetReadIndex, Critical, Filling
  <2>2. appended' = appended /\ part' = part /\ size_' \in {size_, size_ + Parts[part]} /\ (size_' = size_ \/ pc'[t] = "put")
    BY <1>5 DEF SetReadIndex, sendVars
  <2> QED
    BY <1>p, <2>1, <2>2
<1>6. ASSUME NEW t \in Threads, Grow(t) PROVE SizeBound'
  <2>1. size_ <= InitialSize + appended
    BY <1>a, <1>6 DEF Grow, Critical, Filling
  <2>2. appended' = appended /\ part' = part /\ size_' \in {size_, size_ + Parts[part]} /\ (size_' = size_ \/ pc'[t] = "put")
    BY <1>6 DEF Grow, sendVars
  <2> QED
    BY <1>p, <2>1, <2>2
<1>7. ASSUME NEW t \in Threads, PutPart(t) PROVE SizeBound'
  <2>1. size_' = size_ /\ appended' = appended + Parts[part] /\ Parts[part] \in Nat
    BY <1>7, PartNat DEF PutPart
  <2>2. size_ <= InitialSize + appended + Parts[part] /\ pc[t] = "put"
    BY <1>7 DEF PutPart
  <2>3. \A u \in Threads : u # t => pc'[u] = pc[u]
    BY <1>7 DEF PutPart
  <2>4. pc'[t] # "put"
    BY <1>7 DEF PutPart
  <2>5. \A u \in Threads : pc'[u] # "put"
    BY <2>2, <2>3, <2>4, Alone DEF Critical, Filling
  <2> QED
    BY <2>1, <2>2, <2>5
<1>8. ASSUME NEW t \in Threads, Check(t) PROVE SizeBound'
  BY <1>8 DEF Check, MutexHeld, Critical, Filling
<1>9. ASSUME NEW t \in Threads, InitWrite(t) PROVE SizeBound'
  BY <1>9 DEF InitWrite, StartWrite, MutexHeld, Critical, Filling
<1>10. ASSUME NEW t \in Threads, SetSending(t) PROVE SizeBound'
  BY <1>10 DEF SetSending, MutexHeld, Critical, Filling
<1>11. ASSUME NEW n \in Bytes, Transfer(n) PROVE SizeBound'
  BY <1>11 DEF Transfer, Done, MutexHeld, Critical, Filling
<1>12. CASE Fail
  BY <1>12 DEF Fail, Done, MutexHeld, Critical, Filling
<1>13. CASE HandlingWrite
  BY <1>13 DEF HandlingWrite, MutexHeld, Critical, Filling
<1>14. CASE Retrieve
  BY <1>14 DEF Retrieve, ReadIndex, MutexHeld, Critical, Filling
<1>15. CASE RetrieveN
  BY <1>15 DEF RetrieveN, MutexHeld, Critical, Filling
<1>16. CASE Test
  BY <1>16 DEF Test, ReadIndex, MutexHeld, Critical, Filling
<1>17. CASE Again
  BY <1>17 DEF Again, StartWrite, ReadIndex, MutexHeld, Critical, Filling
<1>18. CASE Clear
  BY <1>18 DEF Clear, MutexHeld, Critical, Filling
<1>19. CASE UNCHANGED vars
  BY <1>19 DEF vars
<1> QED
  BY <1>1, <1>2, <1>3, <1>4, <1>5, <1>6, <1>7, <1>8, <1>9, <1>10, <1>11, <1>12, <1>13, <1>14, <1>15, <1>16, <1>17, <1>18, <1>19
     DEF Next, InSendData, InHandlingWrite, Socket

LEMMA DataNext == Control /\ SizeBound /\ Data /\ [Next]_vars => Data'
<1> SUFFICES ASSUME Control, SizeBound, Data, [Next]_vars, ~disturbed' PROVE ~garbled' /\ Room' /\ Retained' /\ Accounted'
  BY DEF Data
<1> USE ConstantAssumption
<1>0. Types /\ MutexHeld /\ Exclusive /\ UnderWayIsSeen
  BY DEF Control
<1>a. \A t \in Threads : pc[t] \in Critical /\ pc[t] \notin {"setw", "setr"} => ~Moving /\ ~IndexReset
  BY <1>0, Alone DEF Moving, IndexReset, Critical, Filling
<1>b. Parts[part] \in Nat \ {0}
  BY <1>0, PartNat
<1>c. /\ ~Moving => ~IndexReset
      /\ Retained => WriteAble = size_ - write_index_
      /\ Retained /\ ~IndexReset => ReadAble = write_index_ - read_index_
  BY <1>0, MinusNat DEF Types, Retained, Moving, IndexReset, ReadAble, WriteAble
<1>d. ~disturbed => ~garbled /\ Room /\ Retained /\ Accounted
  BY DEF Data
<1>1. ASSUME NEW t \in Threads, Lock(t) PROVE ~garbled' /\ Room' /\ Retained' /\ Accounted'
  <2>1. ~disturbed /\ ~garbled /\ Room /\ Retained /\ Accounted
    BY <1>0, <1>d, <1>1 DEF Lock, Types
  <2>2. IndexReset' = IndexReset /\ Moving' = Moving
    BY <1>0, <1>1 DEF Lock, Types, IndexReset, Moving
  <2>3. ~garbled' /\ Room'
    BY <1>0, <2>1, <1>1 DEF Lock, Types, Room, MutexHeld, Critical, Filling
  <2>4. Retained'
    BY <1>0, <2>1, <2>2, <1>1 DEF Lock, Types, Retained, Held
  <2>5. Accounted'
    BY <1>0, <2>1, <2>2, <1>1 DEF Lock, Types, Accounted, Held, Exclusive
  <2> QED
    BY <2>3, <2>4, <2>5
<1>2. ASSUME NEW t \in Threads, EnsureWriteSafe(t) PROVE ~garbled' /\ Room' /\ Retained' /\ Accounted'
  <2>1. ~disturbed /\ ~garbled /\ Room /\ Retained /\ Accounted
    BY <1>0, <1>d, <1>2 DEF EnsureWriteSafe, Types
  <2>2. IndexReset' = IndexReset /\ Moving' = Moving
    BY <1>0, <1>2 DEF EnsureWriteSafe, Types, IndexReset, Moving
  <2>3. ~garbled' /\ Room'
    <3>1. \A u \in Threads : u # t => pc'[u] \notin {"compact", "setw", "setr", "put"}
      BY <1>0, <1>2, Alone DEF EnsureWriteSafe, Types, Critical, Filling
    <3>2. pc'[t] = "put" => write_index_ + Parts[part] <= size_
      BY <1>0, <1>b, <1>c, <2>1, <1>2 DEF EnsureWriteSafe, Types
    <3>3. pc'[t] = "compact" => Parts[part] <= read_index_ + size_ - write_index_
      BY <1>0, <1>b, <1>c, <2>1, <1>2 DEF EnsureWriteSafe, Types
    <3>4. pc'[t] \in {"put", "compact", "grow"}
      BY <1>0, <1>2 DEF EnsureWriteSafe, Types
    <3> QED
      BY <2>1, <3>1, <3>2, <3>3, <3>4, <1>2 DEF EnsureWriteSafe, Room
  <2>4. Retained'
    BY <1>0, <2>1, <2>2, <1>2 DEF EnsureWriteSafe, Types, Retained, Held
  <2>5. Accounted'
    BY <1>0, <2>1, <2>2, <1>2 DEF EnsureWriteSafe, Types, Accounted, Held, Exclusive
  <2> QED
    BY <2>3, <2>4, <2>5
<1>3. ASSUME NEW t \in Threads, Compact(t) PROVE ~garbled' /\ Room' /\ Retained' /\ Accounted'
  <2>1. ~disturbed /\ ~garbled /\ Room /\ Retained /\ Accounted
    BY <1>0, <1>d, <1>3 DEF Compact, Disturb, Types
  <2>2. ~IndexReset /\ ~IndexReset' /\ ~Moving /\ Moving'
    <3>1. ~IndexReset /\ ~Moving
      BY <1>a, <1>3 DEF Compact, Critical, Filling
    <3>2. pc'[t] = "setw"
      BY <1>0, <1>3 DEF Compact, Types
    <3> QED
      BY <1>0, <3>1, <3>2, <1>3 DEF Compact, Types, Moving, IndexReset
  <2>3. ~garbled' /\ Room'
    BY <1>0, <2>1, <1>3 DEF Compact, Disturb, Types, Room, MutexHeld, Critical, Filling
  <2>4. Retained'
    <3>1. ReadAble = Held /\ Held' = Held /\ Held \in Nat
      BY <1>0, <1>c, <2>1, <2>2, <1>3 DEF Compact, Held, Retained, Types
    <3>2. ASSUME NEW i \in 0 .. Held - 1 PROVE buffer_'[i] = appended - Held + i + 1
      <4>1. read_index_ + i < size_ /\ i \in 0 .. size_ - 1 /\ read_index_ + i \in Nat
        BY <1>0, <2>1, <2>2, <3>1 DEF Held, Retained, Types
      <4>2. buffer_'[i] = ByteAt(read_index_ + i)
        BY <1>0, <3>1, <4>1, <1>3 DEF Compact, Types
      <4>3. buffer_[read_index_ + i] = appended - Held + i + 1
        BY <2>1, <2>2 DEF Retained
      <4> QED
        BY <4>1, <4>2, <4>3 DEF ByteAt
    <3> QED
      BY <2>1, <2>2, <3>1, <3>2, <1>3 DEF Compact, Retained
  <2>5. Accounted'
    BY <1>0, <2>1, <2>2, <1>3 DEF Compact, Disturb, Types, Accounted, Held, Exclusive
  <2> QED
    BY <2>3, <2>4, <2>5
<1>4. ASSUME NEW t \in Threads, SetWriteIndex(t) PROVE ~garbled' /\ Room' /\ Retained' /\ Accounted'
  <2>1. ~disturbed /\ ~garbled /\ Room /\ Retained /\ Accounted
    BY <1>0, <1>d, <1>4 DEF SetWriteIndex, Disturb, Types
  <2>2. ~IndexReset /\ IndexReset' /\ Moving /\ Moving'
    <3>1. Moving /\ pc[t] = "setw" /\ pc'[t] = "setr"
      BY <1>0, <1>4 DEF SetWriteIndex, Types, Moving
    <3>2. ~IndexReset
      BY <1>0, <3>1, Alone DEF IndexReset, Critical, Filling
    <3> QED
      BY <3>1, <3>2 DEF Moving, IndexReset
  <2>3. ~garbled' /\ Room'
    <3>1. \A u \in Threads : u # t => pc'[u] \notin {"compact", "setw", "setr", "put"}
      BY <1>0, <1>4, Alone DEF SetWriteIndex, Types, Critical, Filling
    <3>2. pc'[t] = "setr" /\ write_index_' = write_index_ - read_index_ /\ size_' = size_ /\ part' = part
      BY <1>0, <1>c, <2>1, <2>2, <1>4 DEF SetWriteIndex, Types, sendVars
    <3>3. Parts[part] <= read_index_ + size_ - write_index_
      BY <2>1, <1>4 DEF SetWriteIndex, Room
    <3>4. write_index_' + Parts[part]' <= size_'
      BY <1>0, <1>b, <3>2, <3>3 DEF Types
    <3> QED
      BY <2>1, <3>1, <3>2, <3>4, <1>4 DEF SetWriteIndex, Room
  <2>4. Retained'
    <3>1. write_index_' = Held /\ Held' = Held /\ Held \in Nat /\ Held <= size_
      BY <1>0, <1>c, <2>1, <2>2, <1>4 DEF SetWriteIndex, Held, Retained, Types
    <3>2. \A i \in 0 .. Held - 1 : buffer_[i] = appended - Held + i + 1
      BY <2>1, <2>2 DEF Retained
    <3> QED
      BY <2>2, <3>1, <3>2, <1>4 DEF SetWriteIndex, Retained
  <2>5. Accounted'
    <3>1. Held' = Held
      BY <1>0, <1>c, <2>1, <2>2, <1>4 DEF SetWriteIndex, Held, Retained, Types
    <3>2. writes = 0 /\ pc[Own] # "store" /\ pc'[Own] # "store"
      <4>1. ~(writes > 0) /\ pc[Own] # "store"
        BY <1>4 DEF SetWriteIndex, Disturb
      <4>2. pc'[Own] # "store"
        BY <1>0, <4>1, <1>4 DEF SetWriteIndex, Types
      <4> QED
        BY <1>0, <4>1, <4>2 DEF Types
    <3> QED
      BY <1>0, <2>1, <3>1, <3>2, <1>4 DEF SetWriteIndex, Accounted, Types
  <2> QED
    BY <2>3, <2>4, <2>5
<1>5. ASSUME NEW t \in Threads, SetReadIndex(t) PROVE ~garbled' /\ Room' /\ Retained' /\ Accounted'
  <2>1. ~disturbed /\ ~garbled /\ Room /\ Retained /\ Accounted
    BY <1>0, <1>d, <1>5 DEF SetReadIndex, Disturb, Types
  <2>2. IndexReset /\ ~IndexReset' /\ Moving /\ ~Moving'
    <3>1. Moving /\ IndexReset /\ pc[t] = "setr" /\ pc'[t] = "put"
      BY <1>0, <1>5 DEF SetReadIndex, Types, Moving, IndexReset
    <3>2. \A u \in Threads : u # t => pc'[u] \notin {"setw", "setr"}
      BY <1>0, <1>5, Alone DEF SetReadIndex, Types, Critical, Filling
    <3> QED
      BY <3>1, <3>2 DEF Moving, IndexReset
  <2>3. ~garbled' /\ Room'
    BY <1>0, <2>1, <1>5 DEF SetReadIndex, Disturb, Types, Room, MutexHeld, Critical, Filling
  <2>4. Retained'
    <3>1. Held' = Held /\ Held = write_index_ /\ write_index_' = write_index_ /\ read_index_' = 0 /\ write_index_ \in Nat
      BY <1>0, <2>2, <1>5 DEF SetReadIndex, Held, Types
    <3>2. \A i \in 0 .. Held - 1 : buffer_[i] = appended - Held + i + 1
      BY <2>1, <2>2 DEF Retained
    <3> QED
      BY <2>1, <2>2, <3>1, <3>2, <1>5 DEF SetReadIndex, Retained
  <2>5. Accounted'
    <3>1. Held' = Held
      BY <1>0, <2>2, <1>5 DEF SetReadIndex, Held, Types
    <3>2. writes = 0 /\ pc[Own] # "store" /\ pc'[Own] # "store"
      <4>1. ~(writes > 0) /\ pc[Own] # "store"
        BY <1>5 DEF SetReadIndex, Disturb
      <4>2. pc'[Own] # "store"
        BY <1>0, <4>1, <1>5 DEF SetReadIndex, Types
      <4> QED
        BY <1>0, <4>1, <4>2 DEF Types
    <3> QED
      BY <1>0, <2>1, <3>1, <3>2, <1>5 DEF SetReadIndex, Accounted, Types
  <2> QED
    BY <2>3, <2>4, <2>5
<1>6. ASSUME NEW t \in Threads, Grow(t) PROVE ~garbled' /\ Room' /\ Retained' /\ Accounted'
  <2>1. ~disturbed /\ ~garbled /\ Room /\ Retained /\ Accounted
    BY <1>0, <1>d, <1>6 DEF Grow, Types
  <2>2. IndexReset' = IndexReset /\ Moving' = Moving
    BY <1>0, <1>6 DEF Grow, Types, IndexReset, Moving
  <2>3. ~garbled' /\ Room'
    <3>1. \A u \in Threads : u # t => pc'[u] \notin {"compact", "setw", "setr", "put"}
      BY <1>0, <1>6, Alone DEF Grow, Types, Critical, Filling
    <3>2. pc'[t] = "put" /\ write_index_' = write_index_ /\ size_' = size_ + Parts[part] /\ part' = part
      BY <1>0, <1>6 DEF Grow, Types, sendVars
    <3>3. write_index_' + Parts[part]' <= size_'
      BY <1>0, <1>b, <2>1, <3>2 DEF Types, Retained
    <3> QED
      BY <2>1, <3>1, <3>2, <3>3, <1>6 DEF Grow, Room
  <2>4. Retained'
    <3>1. ~Moving /\ ~IndexReset
      BY <1>a, <1>6 DEF Grow, Critical, Filling
    <3>2. Held' = Held /\ Held = write_index_ - read_index_ /\ size_' = size_ + Parts[part]
      BY <2>2, <3>1, <1>6 DEF Grow, Held
    <3>3. ASSUME NEW i \in 0 .. Held - 1 PROVE buffer_'[read_index_ + i] = appended - Held + i + 1
      <4>1. read_index_ + i \in 0 .. size_ - 1 /\ read_index_ + i \in 0 .. size_' - 1
        BY <1>0, <1>b, <2>1, <3>1, <3>2 DEF Retained, Types
      <4>2. buffer_'[read_index_ + i] = buffer_[read_index_ + i]
        BY <1>0, <4>1, <1>6 DEF Grow, ByteAt, Types
      <4> QED
        BY <2>1, <3>1, <4>2 DEF Retained
    <3>4. write_index_ <= size_'
      BY <1>0, <1>b, <2>1, <3>2 DEF Retained, Types
    <3> QED
      BY <2>1, <2>2, <3>1, <3>2, <3>3, <3>4, <1>6 DEF Grow, Retained
  <2>5. Accounted'
    BY <1>0, <2>1, <2>2, <1>6 DEF Grow, Types, Accounted, Held, Exclusive
  <2> QED
    BY <2>3, <2>4, <2>5
<1>7. ASSUME NEW t \in Threads, PutPart(t) PROVE ~garbled' /\ Room' /\ Retained' /\ Accounted'
  <2>1. ~disturbed /\ ~garbled /\ Room /\ Retained /\ Accounted
    BY <1>0, <1>d, <1>7 DEF PutPart, Types
  <2>2. IndexReset' = IndexReset /\ Moving' = Moving
    BY <1>0, <1>7 DEF PutPart, Types, IndexReset, Moving
  <2>3. ~garbled' /\ Room'
    BY SMTT(30), <1>0, <2>1, <1>7 DEF PutPart, Types, Room, MutexHeld, Critical, Filling
  <2>4. Retained'
    <3>1. ~Moving /\ ~IndexReset /\ pc[t] = "put"
      BY <1>a, <1>7 DEF PutPart, Critical, Filling
    <3>2. write_index_' = write_index_ + Parts[part] /\ appended' = appended + Parts[part]
      BY <1>7 DEF PutPart
    <3>3. Held' = Held + Parts[part] /\ Held = write_index_ - read_index_
      BY <1>0, <1>b, <2>2, <3>1, <3>2, <1>7 DEF PutPart, Held, Types
    <3>4. write_index_' <= size_
      BY <2>1, <3>1, <3>2 DEF Room
    <3>7. Held \in Int /\ Held' \in Int /\ appended' - Held' = appended - Held
      <4>1. Held \in Int /\ Parts[part] \in Int /\ appended \in Int
        BY <1>0, <1>b, <3>3 DEF Types
      <4>2. \A a, h, p \in Int : (a + p) - (h + p) = a - h /\ h + p \in Int
        OBVIOUS
      <4> QED
        BY <3>2, <3>3, <4>1, <4>2
    <3>5. ASSUME NEW i \in 0 .. Held' - 1 PROVE buffer_'[read_index_ + i] = appended' - Held' + i + 1
      <4>1. read_index_ + i \in 0 .. size_ - 1
        BY SMTT(30), <1>0, <1>b, <2>1, <3>1, <3>2, <3>3, <3>4 DEF Retained, Types
      <4>2. CASE i < Held
        <5>1. buffer_'[read_index_ + i] = buffer_[read_index_ + i]
          BY <1>0, <1>b, <3>3, <4>1, <4>2, <1>7 DEF PutPart, Types
        <5>2. buffer_[read_index_ + i] = appended - Held + i + 1
          <6>1. i \in 0 .. Held - 1
            BY <3>7, <4>2
          <6> QED
            BY <2>1, <3>1, <6>1 DEF Retained
        <5> QED
          BY <3>7, <5>1, <5>2
      <4>3. CASE ~(i < Held)
        <5>1. read_index_ + i \in write_index_ .. write_index_ + Parts[part] - 1
          BY <1>0, <1>b, <3>3, <4>3 DEF Types
        <5>2. buffer_'[read_index_ + i] = appended + 1 + (read_index_ + i) - write_index_
          BY <1>0, <4>1, <5>1, <1>7 DEF PutPart, Types
        <5>3. appended + 1 + (read_index_ + i) - write_index_ = appended - Held + i + 1
          BY <1>0, <3>3 DEF Types
        <5> QED
          BY <3>7, <5>2, <5>3
      <4> QED
        BY <4>2, <4>3
    <3>6. read_index_ <= write_index_'
      BY <1>0, <1>b, <2>1, <3>1, <3>2 DEF Retained, Types
    <3> QED
      BY <2>1, <2>2, <3>1, <3>2, <3>4, <3>5, <3>6, <1>7 DEF PutPart, Retained
  <2>5. Accounted'
    <3>1. ~Moving /\ ~IndexReset
      BY <1>a, <1>7 DEF PutPart, Critical, Filling
    <3>2. write_index_' = write_index_ + Parts[part] /\ appended' = appended + Parts[part]
      BY <1>7 DEF PutPart
    <3>3. Held' = Held + Parts[part] /\ Held \in Nat
      BY <1>0, <1>b, <2>1, <2>2, <3>1, <3>2, <1>7 DEF PutPart, Held, Retained, Types
    <3>4. pc'[Own] = "store" => pc[Own] = "store"
      BY <1>0, <1>7 DEF PutPart, Types
    <3>5. appended' - Held' = appended - Held /\ Held' \in Nat /\ Held <= Held' /\ write_index_ <= write_index_'
      <4>1. Held \in Int /\ Parts[part] \in Nat /\ appended \in Int
        BY <1>0, <1>b, <3>3 DEF Types
      <4>2. \A a, h \in Int, p \in Nat : (a + p) - (h + p) = a - h /\ h <= h + p
        OBVIOUS
      <4>3. write_index_ <= write_index_ + Parts[part]
        BY <1>0, <4>1 DEF Types
      <4> QED
        BY <3>2, <3>3, <4>1, <4>2, <4>3
    <3>6. UNCHANGED <<socketVars, loaded, read_index_>>
      BY <1>7 DEF PutPart
    <3>7. /\ completed' = None_ => sent' = appended' - Held'
          /\ completed' # None_ => sent' = appended' - Held' + completed' /\ completed' <= Held'
          /\ Held' <= appended'
      <4>1. sent' = sent /\ completed' = completed
        BY <3>6 DEF socketVars
      <4>0. Held' <= appended'
        <5>1. Held <= appended /\ Held \in Nat /\ appended \in Nat /\ Parts[part] \in Nat
          BY <1>0, <1>b, <2>1, <3>3 DEF Accounted, Types
        <5>2. Held + Parts[part] <= appended + Parts[part]
          BY <5>1
        <5> QED
          BY <3>2, <3>3, <5>2
      <4>2. CASE completed = None_
        BY <2>1, <3>5, <4>0, <4>1, <4>2 DEF Accounted
      <4>3. CASE completed # None_
        <5>1. completed \in Nat /\ Held \in Nat /\ Held' \in Nat /\ Held <= Held' /\ completed <= Held
          BY <1>0, <2>1, <3>3, <3>5, <4>3 DEF Accounted, Types
        <5>2. completed <= Held'
          BY <5>1
        <5> QED
          BY <2>1, <3>5, <4>0, <4>1, <4>3, <5>2 DEF Accounted
      <4> QED
        BY <4>2, <4>3
    <3>8. /\ writes' > 0 => ~stale' /\ ~Moving' /\ from' = read_index_' /\ from' + len' <= write_index_'
          /\ pc'[Own] = "store" => ~Moving' /\ loaded' = read_index_'
      BY <1>0, <2>1, <2>2, <1>b, <3>2, <3>4, <3>5, <3>6 DEF Accounted, Types, socketVars
    <3> QED
      BY <3>7, <3>8 DEF Accounted
  <2> QED
    BY <2>3, <2>4, <2>5
<1>8. ASSUME NEW t \in Threads, Check(t) PROVE ~garbled' /\ Room' /\ Retained' /\ Accounted'
  <2>1. ~disturbed /\ ~garbled /\ Room /\ Retained /\ Accounted
    BY <1>0, <1>d, <1>8 DEF Check, Types
  <2>2. IndexReset' = IndexReset /\ Moving' = Moving
    BY <1>0, <1>8 DEF Check, Types, IndexReset, Moving
  <2>3. ~garbled' /\ Room'
    BY <1>0, <2>1, <1>8 DEF Check, Types, Room, MutexHeld, Critical, Filling
  <2>4. Retained'
    BY <1>0, <2>1, <2>2, <1>8 DEF Check, Types, Retained, Held
  <2>5. Accounted'
    BY <1>0, <2>1, <2>2, <1>8 DEF Check, Types, Accounted, Held, Exclusive
  <2> QED
    BY <2>3, <2>4, <2>5
<1>9. ASSUME NEW t \in Threads, InitWrite(t) PROVE ~garbled' /\ Room' /\ Retained' /\ Accounted'
  <2>1. ~disturbed /\ ~garbled /\ Room /\ Retained /\ Accounted
    BY <1>0, <1>d, <1>9 DEF InitWrite, StartWrite, Types
  <2>2. IndexReset' = IndexReset /\ Moving' = Moving
    BY <1>0, <1>9 DEF InitWrite, StartWrite, Types, IndexReset, Moving
  <2>3. ~garbled' /\ Room'
    BY <1>0, <2>1, <1>9 DEF InitWrite, StartWrite, Types, Room, MutexHeld, Critical, Filling
  <2>4. Retained'
    BY <1>0, <2>1, <2>2, <1>9 DEF InitWrite, StartWrite, Types, Retained, Held
  <2>5. Accounted'
    <3>1. ~Moving /\ ~IndexReset
      BY <1>a, <1>9 DEF InitWrite, Critical, Filling
    <3>2. from' = read_index_ /\ len' = write_index_ - read_index_ /\ stale' = FALSE
      BY <1>c, <2>1, <3>1, <1>9 DEF InitWrite, StartWrite
    <3>3. Held' = Held
      BY <2>2, <1>9 DEF InitWrite, Held
    <3>4. pc'[Own] # "store" \/ pc[Own] = "store"
      BY <1>0, <1>9 DEF InitWrite, Types
    <3> QED
      BY <1>0, <2>1, <2>2, <3>1, <3>2, <3>3, <3>4, <1>9 DEF InitWrite, Accounted, Types
  <2> QED
    BY <2>3, <2>4, <2>5
<1>10. ASSUME NEW t \in Threads, SetSending(t) PROVE ~garbled' /\ Room' /\ Retained' /\ Accounted'
  <2>1. ~disturbed /\ ~garbled /\ Room /\ Retained /\ Accounted
    BY <1>0, <1>d, <1>10 DEF SetSending, Types
  <2>2. IndexReset' = IndexReset /\ Moving' = Moving
    BY <1>0, <1>10 DEF SetSending, Types, IndexReset, Moving
  <2>3. ~garbled' /\ Room'
    BY <1>0, <2>1, <1>10 DEF SetSending, Types, Room, MutexHeld, Critical, Filling
  <2>4. Retained'
    BY <1>0, <2>1, <2>2, <1>10 DEF SetSending, Types, Retained, Held
  <2>5. Accounted'
    BY <1>0, <2>1, <2>2, <1>10 DEF SetSending, Types, Accounted, Held, Exclusive
  <2> QED
    BY <2>3, <2>4, <2>5
<1>11. ASSUME NEW n \in Bytes, Transfer(n) PROVE ~garbled' /\ Room' /\ Retained' /\ Accounted'
  <2>1. ~disturbed /\ ~garbled /\ Room /\ Retained /\ Accounted
    BY <1>0, <1>d, <1>11 DEF Transfer, Done, Types
  <2>2. IndexReset' = IndexReset /\ Moving' = Moving
    BY <1>0, <1>11 DEF Transfer, Done, Types, IndexReset, Moving
  <2>3. ~garbled' /\ Room'
    <3>1. ~stale /\ ~Moving /\ from = read_index_ /\ from + len <= write_index_ /\ n <= len /\ sent = appended - Held
      BY <1>0, <2>1, <1>11 DEF Transfer, Accounted, Types
    <3>2. Held = write_index_ - read_index_
      BY <1>c, <3>1 DEF Held
    <3>3. ASSUME NEW i \in 0 .. n - 1 PROVE ByteAt(from + i) = sent + i + 1
      <4>1. i \in 0 .. Held - 1 /\ from + i < size_
        BY <1>0, <2>1, <3>1, <3>2 DEF Retained, Types
      <4>2. buffer_[read_index_ + i] = appended - Held + i + 1
        BY <2>1, <3>1, <4>1 DEF Retained
      <4> QED
        BY <3>1, <4>1, <4>2 DEF ByteAt
    <3>4. ~garbled'
      BY <2>1, <3>1, <3>3, <1>11 DEF Transfer, Next_
    <3> QED
      BY <2>1, <3>4, <1>11 DEF Transfer, Room
  <2>4. Retained'
    BY <1>0, <2>1, <2>2, <1>11 DEF Transfer, Done, Types, Retained, Held
  <2>5. Accounted'
    BY <1>0, <2>1, <2>2, <1>11 DEF Transfer, Done, Types, Accounted, Held, Exclusive
  <2> QED
    BY <2>3, <2>4, <2>5
<1>12. CASE Fail
  <2>1. ~disturbed /\ ~garbled /\ Room /\ Retained /\ Accounted
    BY <1>0, <1>d, <1>12 DEF Fail, Done, Types
  <2>2. IndexReset' = IndexReset /\ Moving' = Moving
    BY <1>0, <1>12 DEF Fail, Done, Types, IndexReset, Moving
  <2>3. ~garbled' /\ Room'
    BY <1>0, <2>1, <1>12 DEF Fail, Done, Types, Room, MutexHeld, Critical, Filling
  <2>4. Retained'
    BY <1>0, <2>1, <2>2, <1>12 DEF Fail, Done, Types, Retained, Held
  <2>5. Accounted'
    BY <1>0, <2>1, <2>2, <1>12 DEF Fail, Done, Types, Accounted, Held, Exclusive
  <2> QED
    BY <2>3, <2>4, <2>5
<1>13. CASE HandlingWrite
  <2>1. ~disturbed /\ ~garbled /\ Room /\ Retained /\ Accounted
    BY <1>0, <1>d, <1>13 DEF HandlingWrite, Types
  <2>2. IndexReset' = IndexReset /\ Moving' = Moving
    BY <1>0, <1>13 DEF HandlingWrite, Types, IndexReset, Moving
  <2>3. ~garbled' /\ Room'
    BY <1>0, <2>1, <1>13 DEF HandlingWrite, Types, Room, MutexHeld, Critical, Filling
  <2>4. Retained'
    BY <1>0, <2>1, <2>2, <1>13 DEF HandlingWrite, Types, Retained, Held
  <2>5. Accounted'
    BY <1>0, <2>1, <2>2, <1>13 DEF HandlingWrite, Types, Accounted, Held, Exclusive
  <2> QED
    BY <2>3, <2>4, <2>5
<1>14. CASE Retrieve
  <2>1. ~disturbed /\ ~garbled /\ Room /\ Retained /\ Accounted
    BY <1>0, <1>d, <1>14 DEF Retrieve, ReadIndex, Types
  <2>2. IndexReset' = IndexReset /\ Moving' = Moving
    BY <1>0, <1>14 DEF Retrieve, ReadIndex, Types, IndexReset, Moving
  <2>3. ~garbled' /\ Room'
    BY <1>0, <2>1, <1>14 DEF Retrieve, ReadIndex, Types, Room, MutexHeld, Critical, Filling
  <2>4. Retained'
    BY <1>0, <2>1, <2>2, <1>14 DEF Retrieve, ReadIndex, Types, Retained, Held
  <2>5. Accounted'
    <3>1. ~Moving /\ ~IndexReset
      BY <1>0, <1>c, <1>14 DEF Retrieve, ReadIndex, Types
    <3>2. ReadAble = Held /\ Held' = Held
      BY <1>c, <2>1, <2>2, <3>1, <1>14 DEF Retrieve, Held
    <3>3. completed # None_ /\ completed <= Held /\ writes = 0
      BY <1>0, <2>1, <1>14 DEF Retrieve, Exclusive, Accounted, Types
    <3> QED
      BY <1>0, <2>1, <2>2, <3>1, <3>2, <3>3, <1>14 DEF Retrieve, Accounted, Types
  <2> QED
    BY <2>3, <2>4, <2>5
<1>15. CASE RetrieveN
  <2>1. ~disturbed /\ ~garbled /\ Room /\ Retained /\ Accounted
    BY <1>0, <1>d, <1>15 DEF RetrieveN, Types
  <2>2. IndexReset' = IndexReset /\ Moving' = Moving
    BY <1>0, <1>15 DEF RetrieveN, Types, IndexReset, Moving
  <2>3. ~Moving /\ ~IndexReset /\ loaded = read_index_ /\ completed \in Bytes /\ completed <= Held /\ writes = 0
    BY <1>0, <1>c, <2>1, <1>15 DEF RetrieveN, Accounted, Exclusive, Types
  <2>4. size_ <= InitialSize + MaxBytes
    <3>1. CASE \E t \in Threads : pc[t] = "put"
      <4>1. PICK t \in Threads : pc[t] = "put"
        BY <3>1
      <4>2. appended + Rest <= MaxBytes
        BY <1>0, <4>1 DEF MutexHeld, Filling
      <4>3. Parts[part] <= Rest
        BY <1>0 DEF Types, Parts, Rest, FrameLen
      <4>4. Rest \in Nat
        BY <1>0 DEF Types, Rest, FrameLen
      <4> QED
        BY <1>0, <1>b, <4>1, <4>2, <4>3, <4>4 DEF SizeBound, Types
    <3>2. CASE ~ \E t \in Threads : pc[t] = "put"
      BY <1>0, <3>2 DEF SizeBound, Types
    <3> QED
      BY <3>1, <3>2
  <2>5. read_index_' = read_index_ + completed
    <3>1. loaded + completed \in 0 .. Wrap - 1 /\ Wrap \in Nat \ {0}
      BY <1>0, <2>1, <2>3, <2>4 DEF Held, Retained, Types
    <3>2. (loaded + completed) % Wrap = loaded + completed
      BY <3>1
    <3> QED
      BY <2>3, <3>2, <1>15 DEF RetrieveN
  <2>6. Held = write_index_ - read_index_ /\ Held' = Held - completed
    BY <1>0, <2>2, <2>3, <2>5, <1>15 DEF RetrieveN, Held, Types
  <2>7. ~garbled' /\ Room'
    <3>1. \A t \in Threads : pc'[t] \in {"compact", "setw", "setr", "put"} => pc[t] = pc'[t]
      BY <1>0, <1>15 DEF RetrieveN, Types
    <3>2. Parts[part] <= read_index_ + size_ - write_index_ => Parts[part] <= read_index_' + size_ - write_index_
      BY <1>0, <1>b, <2>3, <2>5 DEF Types
    <3> QED
      BY <2>1, <3>1, <3>2, <1>15 DEF RetrieveN, Room, sendVars
  <2>8. Retained'
    <3>1. ASSUME NEW i \in 0 .. Held' - 1 PROVE buffer_[read_index_' + i] = appended - Held' + i + 1
      <4>1. completed + i \in 0 .. Held - 1
        BY <1>0, <2>3, <2>6 DEF Types
      <4>2. buffer_[read_index_ + (completed + i)] = appended - Held + (completed + i) + 1
        BY <2>1, <2>3, <4>1 DEF Retained
      <4>3. read_index_ + (completed + i) = read_index_' + i /\ appended - Held + (completed + i) + 1 = appended - Held' + i + 1
        BY <1>0, <2>3, <2>5, <2>6 DEF Types
      <4> QED
        BY <4>2, <4>3
    <3>2. read_index_' <= write_index_
      BY <1>0, <2>3, <2>5, <2>6 DEF Types
    <3> QED
      BY <2>1, <2>2, <2>3, <3>1, <3>2, <1>15 DEF RetrieveN, Retained, sendVars
  <2>9. Accounted'
    <3>1. pc'[Own] # "store"
      BY <1>0, <1>15 DEF RetrieveN, Types
    <3>2. Held \in Int /\ Held' \in Int
      BY <1>0, <2>3, <2>6 DEF Types
    <3> QED
      BY <1>0, <2>1, <2>3, <2>6, <3>1, <3>2, <1>15 DEF RetrieveN, Accounted, Types, sendVars
  <2> QED
    BY <2>7, <2>8, <2>9
<1>16. CASE Test
  <2>1. ~disturbed /\ ~garbled /\ Room /\ Retained /\ Accounted
    BY <1>0, <1>d, <1>16 DEF Test, ReadIndex, Types
  <2>2. IndexReset' = IndexReset /\ Moving' = Moving
    BY <1>0, <1>16 DEF Test, ReadIndex, Types, IndexReset, Moving
  <2>3. ~garbled' /\ Room'
    BY <1>0, <2>1, <1>16 DEF Test, ReadIndex, Types, Room, MutexHeld, Critical, Filling
  <2>4. Retained'
    BY <1>0, <2>1, <2>2, <1>16 DEF Test, ReadIndex, Types, Retained, Held
  <2>5. Accounted'
    BY <1>0, <2>1, <2>2, <1>16 DEF Test, ReadIndex, Types, Accounted, Held, Exclusive
  <2> QED
    BY <2>3, <2>4, <2>5
<1>17. CASE Again
  <2>1. ~disturbed /\ ~garbled /\ Room /\ Retained /\ Accounted
    BY <1>0, <1>d, <1>17 DEF Again, StartWrite, ReadIndex, Types
  <2>2. IndexReset' = IndexReset /\ Moving' = Moving
    BY <1>0, <1>17 DEF Again, StartWrite, ReadIndex, Types, IndexReset, Moving
  <2>3. ~garbled' /\ Room'
    BY <1>0, <2>1, <1>17 DEF Again, StartWrite, ReadIndex, Types, Room, MutexHeld, Critical, Filling
  <2>4. Retained'
    BY <1>0, <2>1, <2>2, <1>17 DEF Again, StartWrite, ReadIndex, Types, Retained, Held
  <2>5. Accounted'
    <3>1. ~Moving /\ ~IndexReset
      BY <1>0, <1>c, <1>17 DEF Again, ReadIndex, Types
    <3>2. from' = read_index_ /\ len' = write_index_ - read_index_ /\ stale' = FALSE
      BY <1>c, <2>1, <3>1, <1>17 DEF Again, StartWrite
    <3>3. Held' = Held
      BY <2>2, <1>17 DEF Again, Held
    <3>4. pc'[Own] # "store"
      BY <1>0, <1>17 DEF Again, Types
    <3> QED
      BY <1>0, <2>1, <2>2, <3>1, <3>2, <3>3, <3>4, <1>17 DEF Again, Accounted, Types
  <2> QED
    BY <2>3, <2>4, <2>5
<1>18. CASE Clear
  <2>1. ~disturbed /\ ~garbled /\ Room /\ Retained /\ Accounted
    BY <1>0, <1>d, <1>18 DEF Clear, Types
  <2>2. IndexReset' = IndexReset /\ Moving' = Moving
    BY <1>0, <1>18 DEF Clear, Types, IndexReset, Moving
  <2>3. ~garbled' /\ Room'
    BY <1>0, <2>1, <1>18 DEF Clear, Types, Room, MutexHeld, Critical, Filling
  <2>4. Retained'
    BY <1>0, <2>1, <2>2, <1>18 DEF Clear, Types, Retained, Held
  <2>5. Accounted'
    BY <1>0, <2>1, <2>2, <1>18 DEF Clear, Types, Accounted, Held, Exclusive
  <2> QED
    BY <2>3, <2>4, <2>5
<1>19. CASE UNCHANGED vars
  BY <1>0, <1>d, <1>19 DEF vars, Types, Room, Retained, Held, IndexReset, Moving, Accounted
<1> QED
  BY <1>1, <1>2, <1>3, <1>4, <1>5, <1>6, <1>7, <1>8, <1>9, <1>10, <1>11, <1>12, <1>13, <1>14, <1>15, <1>16, <1>17, <1>18, <1>19
     DEF Next, InSendData, InHandlingWrite, Socket

LEMMA InvInit == Init => Inv
<1> SUFFICES ASSUME Init PROVE Inv
  OBVIOUS
<1>1. Control
  BY ControlInit
<1>2. SizeBound
  BY ConstantAssumption DEF Init, SizeBound
<1>3. Room /\ Retained /\ Accounted /\ ~garbled
  BY ConstantAssumption DEF Init, Room, Retained, Accounted, Held, IndexReset, Moving
<1> QED
  BY <1>1, <1>2, <1>3 DEF Inv, Data

LEMMA InvAlways == Spec => []Inv
<1>1. Inv /\ [Next]_vars => Inv'
  BY ControlNext, SizeNext, DataNext DEF Inv
<1> QED
  BY <1>1, InvInit, PTL DEF Spec

\* The state has its types, and the write index stays inside the array and behind the
\* read index (but for the steps of a compaction), unless bytes were moved while a
\* write of them was pending or their index was being read.
THEOREM SendPathTypeOK == Spec => []TypeOK
<1>1. Inv => TypeOK
  <2> SUFFICES ASSUME Inv PROVE TypeOK
    OBVIOUS
  <2>1. Types
    BY DEF Inv, Control
  <2>2. ~disturbed => write_index_ <= size_ /\ (~Moving => read_index_ <= write_index_)
    BY DEF Inv, Data, Retained, Moving, IndexReset
  <2> QED
    BY <2>1, <2>2 DEF Types, TypeOK
<1> QED
  BY <1>1, InvAlways, PTL

\* sendData and handlingWrite never have two writes under way on one socket,
\* however many threads send to the session and wherever they interleave.
THEOREM OneWriteAtATime == Spec => []AtMostOneWrite
<1>1. Inv => AtMostOneWrite
  BY ConstantAssumption DEF Inv, Control, Types, Exclusive, Late, AtMostOneWrite
<1> QED
  BY <1>1, InvAlways, PTL

\* The client gets the bytes appended to write_buffer_ once each and in order, through
\* every compaction and growth of the array, unless bytes were moved while a write of
\* them was pending or their index was being read.
THEOREM BytesInOrder == Spec => []StreamInOrder
<1>1. Inv => StreamInOrder
  BY DEF Inv, Control, Types, Data, StreamInOrder
<1> QED
  BY <1>1, InvAlways, PTL
================================================================================
