------------------------------- MODULE SendPath -------------------------------
(***************************************************************************)
(* How the frames of one session leave it: ChatSession::sendData, called   *)
(* by the session's own thread (replies) and by others (messages forwarded *)
(* by another session's handler or by TcpServer::run), the socket, and     *)
(* ChatSession::handlingWrite, which the session's own thread runs when a  *)
(* write completes.  sendData holds mutex_; handlingWrite does not, so     *)
(* its steps interleave with those of a sendData on another thread, also   *)
(* while that one moves the bytes of write_buffer_ (ensureWriteSafe of     *)
(* NetWorkBuffer) that the socket may still be reading.                    *)
(*                                                                         *)
(* The bytes of the session are numbered in the order they are appended;   *)
(* one byte stands for two of the code.                                    *)
(***************************************************************************)
EXTENDS Integers, Sequences

CONSTANTS
  Own,         \* the thread of the session's io_context
  Others,      \* the other threads that call sendData
  None,        \* nobody holds mutex_
  BodyLen,     \* the bytes of a body, at least 1
  InitialSize, \* the size of the array of write_buffer_
  Wrap,        \* 2^64 of the code: the indices are unsigned
  MaxBytes     \* bound: bytes appended

\* The three writes of a frame: tag, length and body.
Parts == <<1, 1, BodyLen>>
FrameLen == 2 + BodyLen

ASSUME ConstantAssumption ==
  /\ Own \notin Others /\ None \notin Others \cup {Own}
  /\ BodyLen \in Nat \ {0} /\ InitialSize \in Nat /\ MaxBytes \in Nat
  /\ Wrap \in Nat /\ Wrap > InitialSize + MaxBytes

Threads == Others \cup {Own}

VARIABLES
  pc,          \* per thread: what it does next
  mutex_,      \* the thread that holds the session's mutex_
  part,        \* the part of its frame that thread writes
  be_sending_, \* a write is believed to be on its way
  buffer_, read_index_, write_index_, size_,   \* write_buffer_
  appended,    \* bytes ever put into write_buffer_
  writes,      \* the number of asynchronous writes started and not completed
  from, len,   \* the part of the array the last of them was given, while it is pending
  stale,       \* that array was deleted since
  sent,        \* bytes the socket took
  completed,   \* the bytes_transferred of completions handlingWrite has yet to see
  loaded,      \* read_index_ as handlingWrite has read it
  broken,      \* the socket failed
  shared,      \* history: a thread other than the session's own has sent
  disturbed,   \* history: bytes were moved while they, or their index, were read
  garbled      \* history: the socket took another byte than the next one

bufferVars == <<buffer_, read_index_, write_index_, size_>>
sendVars   == <<mutex_, part, be_sending_, appended, shared>>
socketVars == <<writes, from, len, stale, sent, completed, broken, garbled>>
vars == <<pc, bufferVars, sendVars, socketVars, loaded, disturbed>>

Bytes == 0..MaxBytes    \* a byte is its number, or 0 in memory nobody wrote
None_ == MaxBytes + 1   \* no completion waits

PCs == {"idle", "write", "compact", "setw", "setr", "grow", "put", "check", "init", "set",
        "retrieve", "store", "test", "again", "clear"}

\* A thread is between the steps of a compaction.
Moving == \E t \in Threads : pc[t] \in {"setw", "setr"}

\* The indices stay inside the array, unless its bytes were moved under a reader.
TypeOK ==
  /\ pc \in [Threads -> PCs]
  /\ mutex_ \in Threads \cup {None} /\ part \in 1..3
  /\ {be_sending_, stale, broken, shared, disturbed, garbled} \subseteq BOOLEAN
  /\ size_ \in Nat /\ buffer_ \in [0 .. size_ - 1 -> Bytes]
  /\ read_index_ \in Nat /\ write_index_ \in Nat
  /\ ~disturbed => write_index_ <= size_ /\ (~Moving => read_index_ <= write_index_)
  /\ appended \in Bytes /\ sent \in Bytes
  /\ writes \in Nat /\ from \in Nat /\ len \in Nat
  /\ completed \in Bytes \cup {None_} /\ loaded \in Nat

Init ==
  /\ pc = [t \in Threads |-> "idle"] /\ mutex_ = None /\ part = 1
  /\ be_sending_ = FALSE /\ broken = FALSE /\ shared = FALSE
  /\ size_ = InitialSize /\ buffer_ = [i \in 0 .. InitialSize - 1 |-> 0]
  /\ read_index_ = 0 /\ write_index_ = 0
  /\ appended = 0 /\ sent = 0
  /\ writes = 0 /\ from = 0 /\ len = 0 /\ stale = FALSE
  /\ completed = None_ /\ loaded = 0
  /\ disturbed = FALSE /\ garbled = FALSE

\* readAbleBytes and writeAbleBytes: differences of unsigned numbers.
Minus(a, b) == IF b <= a THEN a - b ELSE (a - b) % Wrap
ReadAble  == Minus(write_index_, read_index_)
WriteAble == Minus(size_, write_index_)

\* The byte at place i of the array, or behind it.
ByteAt(i) == IF i < size_ THEN buffer_[i] ELSE 0

Goto(t, label) == pc' = [pc EXCEPT ![t] = label]

-------------------------------------------------------------------------------
(* sendData                                                                *)

\* The thread enters sendData and takes mutex_.
Lock(t) ==
  /\ pc[t] = "idle" /\ mutex_ = None /\ appended + FrameLen <= MaxBytes
  /\ mutex_' = t /\ part' = 1
  /\ shared' = (shared \/ t # Own)
  /\ Goto(t, "write")
  /\ UNCHANGED <<be_sending_, appended, bufferVars, socketVars, loaded, disturbed>>

\* ensureWriteSafe: is there room behind the bytes, or before and behind them?
EnsureWriteSafe(t) ==
  /\ pc[t] = "write"
  /\ Goto(t, IF Parts[part] <= WriteAble THEN "put"
             ELSE IF read_index_ + WriteAble >= Parts[part] THEN "compact" ELSE "grow")
  /\ UNCHANGED <<bufferVars, sendVars, socketVars, loaded, disturbed>>

\* The bytes of write_buffer_ are moved: is somebody reading them, or their index?
Disturb == disturbed' = (disturbed \/ writes > 0 \/ pc[Own] = "store")

\* Compaction: the bytes are moved to the front ...
Compact(t) ==
  /\ pc[t] = "compact"
  /\ buffer_' = [i \in DOMAIN buffer_ |->
                   IF i < ReadAble THEN ByteAt(read_index_ + i) ELSE buffer_[i]]
  /\ Goto(t, "setw")
  /\ Disturb
  /\ UNCHANGED <<read_index_, write_index_, size_, sendVars, socketVars, loaded>>

\* ... then the write index ...
SetWriteIndex(t) ==
  /\ pc[t] = "setw"
  /\ write_index_' = ReadAble
  /\ Goto(t, "setr")
  /\ Disturb
  /\ UNCHANGED <<buffer_, read_index_, size_, sendVars, socketVars, loaded>>

\* Mutant: the read index is not reset.
SetReadIndex_Forgotten(t) ==
  /\ pc[t] = "setr"
  /\ Goto(t, "put")
  /\ Disturb
  /\ UNCHANGED <<bufferVars, sendVars, socketVars, loaded>>

\* ... and the read index are set.
SetReadIndex(t) ==
  /\ pc[t] = "setr"
  /\ read_index_' = 0
  /\ Goto(t, "put")
  /\ Disturb
  /\ UNCHANGED <<buffer_, write_index_, size_, sendVars, socketVars, loaded>>

\* Growth: a larger array, to which the old one is copied before it is deleted.  (A
\* write that is started between the two has the old array: that is the order in
\* which it is started first.)
Grow(t) ==
  /\ pc[t] = "grow"
  /\ size_' = size_ + Parts[part]
  /\ buffer_' = [i \in 0 .. size_' - 1 |-> ByteAt(i)]
  /\ stale' = (stale \/ writes > 0)
  /\ disturbed' = (disturbed \/ writes > 0)
  /\ Goto(t, "put")
  /\ UNCHANGED <<read_index_, write_index_, sendVars, writes, from, len, sent, completed,
                 broken, garbled, loaded>>

\* The part is put behind the bytes there are.
PutPart(t) ==
  /\ pc[t] = "put"
  /\ LET n == Parts[part] IN
       /\ buffer_' = [i \in DOMAIN buffer_ |->
                        IF i \in write_index_ .. write_index_ + n - 1
                        THEN appended + 1 + i - write_index_ ELSE buffer_[i]]
       /\ write_index_' = write_index_ + n
       /\ appended' = appended + n
  /\ IF part < 3 THEN part' = part + 1 /\ Goto(t, "write")
                 ELSE Goto(t, "check") /\ UNCHANGED part
  /\ UNCHANGED <<read_index_, size_, mutex_, be_sending_, shared, socketVars, loaded, disturbed>>

\* Mutant: be_sending_ is not looked at.
Check_Never(t) ==
  /\ pc[t] = "check"
  /\ Goto(t, "init")
  /\ UNCHANGED <<bufferVars, sendVars, socketVars, loaded, disturbed>>

\* Return if a write is on its way, else start one.
Check(t) ==
  /\ pc[t] = "check"
  /\ IF be_sending_ THEN Goto(t, "idle") /\ mutex_' = None
     ELSE Goto(t, "init") /\ UNCHANGED mutex_
  /\ UNCHANGED <<part, be_sending_, appended, shared, bufferVars, socketVars, loaded, disturbed>>

\* async_write_some of what write_buffer_ holds now.
StartWrite ==
  /\ writes' = writes + 1
  /\ from' = read_index_ /\ len' = ReadAble /\ stale' = FALSE

InitWrite(t) ==
  /\ pc[t] = "init"
  /\ StartWrite
  /\ Goto(t, "set")
  /\ UNCHANGED <<bufferVars, sendVars, sent, completed, broken, garbled, loaded, disturbed>>

\* Only now be_sending_ is set, and mutex_ released.
SetSending(t) ==
  /\ pc[t] = "set"
  /\ be_sending_' = TRUE
  /\ mutex_' = None
  /\ Goto(t, "idle")
  /\ UNCHANGED <<part, appended, shared, bufferVars, socketVars, loaded, disturbed>>

-------------------------------------------------------------------------------
(* The socket                                                              *)

\* The n bytes that the write finds in memory are the next ones.
Next_(n) == \A i \in 0 .. n - 1 : ByteAt(from + i) = sent + i + 1

\* A write is done; what it was given is forgotten.
Done ==
  /\ writes' = writes - 1
  /\ from' = 0 /\ len' = 0 /\ stale' = FALSE

\* The socket takes some of the bytes (a write of none completes at once) and the
\* completion is queued.  In a deleted array may be anything.
Transfer(n) ==
  /\ writes > 0 /\ completed = None_ /\ ~broken
  /\ n <= len /\ (n = 0 => len = 0)
  /\ sent' = IF sent + n <= MaxBytes THEN sent + n ELSE MaxBytes
  /\ completed' = n
  /\ garbled' \in IF stale THEN BOOLEAN ELSE {garbled \/ ~Next_(n)}
  /\ Done
  /\ UNCHANGED <<pc, bufferVars, sendVars, broken, loaded, disturbed>>

\* The peer is gone: the write completes with an error and no bytes.
Fail ==
  /\ writes > 0 /\ completed = None_
  /\ broken' = TRUE
  /\ completed' = 0
  /\ Done
  /\ UNCHANGED <<pc, bufferVars, sendVars, sent, garbled, loaded, disturbed>>

-------------------------------------------------------------------------------
(* handlingWrite, on the session's own thread, without mutex_              *)

HandlingWrite ==
  /\ pc[Own] = "idle" /\ completed # None_
  /\ Goto(Own, "retrieve")
  /\ UNCHANGED <<bufferVars, sendVars, socketVars, loaded, disturbed>>

\* An index is read while a compaction is between its steps.
ReadIndex == disturbed' = (disturbed \/ Moving)

\* retrieveN(bytes_transferred) reads read_index_; the error code is not looked at ...
Retrieve ==
  /\ pc[Own] = "retrieve"
  /\ IF completed <= ReadAble
     THEN loaded' = read_index_ /\ Goto(Own, "store") /\ UNCHANGED completed
     ELSE Goto(Own, "test") /\ completed' = None_ /\ UNCHANGED loaded
  /\ ReadIndex
  /\ UNCHANGED <<bufferVars, sendVars, writes, from, len, stale, sent, broken, garbled>>

\* Mutant: the bytes written stay in the buffer.
RetrieveN_Forgotten ==
  /\ pc[Own] = "store"
  /\ completed' = None_
  /\ Goto(Own, "test")
  /\ UNCHANGED <<bufferVars, sendVars, writes, from, len, stale, sent, broken, garbled,
                 loaded, disturbed>>

\* Mutant: a write is taken to have written everything.
RetrieveN_ThenClear ==
  /\ pc[Own] = "store"
  /\ read_index_' = (loaded + completed) % Wrap
  /\ loaded' = 0 /\ completed' = None_
  /\ Goto(Own, "clear")
  /\ UNCHANGED <<buffer_, write_index_, size_, sendVars, writes, from, len, stale, sent,
                 broken, garbled, disturbed>>

\* ... and adds to what it read.
RetrieveN ==
  /\ pc[Own] = "store"
  /\ read_index_' = (loaded + completed) % Wrap
  /\ loaded' = 0 /\ completed' = None_
  /\ Goto(Own, "test")
  /\ UNCHANGED <<buffer_, write_index_, size_, sendVars, writes, from, len, stale, sent,
                 broken, garbled, disturbed>>

\* Is there anything left to write?
Test ==
  /\ pc[Own] = "test"
  /\ Goto(Own, IF ReadAble > 0 THEN "again" ELSE "clear")
  /\ ReadIndex
  /\ UNCHANGED <<bufferVars, sendVars, socketVars, loaded>>

Again ==
  /\ pc[Own] = "again"
  /\ StartWrite
  /\ Goto(Own, "idle")
  /\ ReadIndex
  /\ UNCHANGED <<bufferVars, sendVars, sent, completed, broken, garbled, loaded>>

Clear ==
  /\ pc[Own] = "clear"
  /\ be_sending_' = FALSE
  /\ Goto(Own, "idle")
  /\ UNCHANGED <<mutex_, part, appended, shared, bufferVars, socketVars, loaded, disturbed>>

-------------------------------------------------------------------------------
InSendData(t) ==
  \/ EnsureWriteSafe(t) \/ Compact(t) \/ SetWriteIndex(t) \/ SetReadIndex(t) \/ Grow(t)
  \/ PutPart(t) \/ Check(t) \/ InitWrite(t) \/ SetSending(t)
InHandlingWrite == HandlingWrite \/ Retrieve \/ RetrieveN \/ Test \/ Again \/ Clear
Socket == (\E n \in Bytes : Transfer(n)) \/ Fail

Next == (\E t \in Threads : Lock(t) \/ InSendData(t)) \/ InHandlingWrite \/ Socket

Spec == Init /\ [][Next]_vars

\* Threads run and the socket accepts bytes or fails; nobody has to send more.
\* The own thread serves a waiting completion (HandlingWrite) although it may
\* first run another handler that sends: its io_context queue is FIFO.
FairSpec ==
  /\ Spec /\ WF_vars(Socket) /\ WF_vars(InHandlingWrite)
  /\ \A t \in Threads : WF_vars(InSendData(t))

-------------------------------------------------------------------------------
\* At most one write is given to the socket and not yet dealt with: two at once
\* could interleave their bytes.  The late be_sending_ = true, and a handlingWrite
\* that runs without the mutex on another thread, do not break this.
AtMostOneWrite ==
  writes + (IF completed = None_ THEN 0 ELSE 1)
         + (IF pc[Own] \in {"test", "again", "clear"} THEN 1 ELSE 0) <= 1

\* The client gets every byte once and in order, however sendData of other threads
\* and handlingWrite interleave and whatever was moved in the array between two
\* writes - unless bytes were moved while a write of them was pending, or while
\* handlingWrite was between reading and writing an index of theirs.
StreamInOrder == garbled => disturbed

\* Bytes wait in write_buffer_ while no write is on its way, no completion waits and
\* no thread is inside sendData or handlingWrite.
Stalled ==
  /\ ReadAble > 0 /\ writes = 0 /\ completed = None_
  /\ \A t \in Threads : pc[t] = "idle"

\* Forwarding a message ends with "send" (comment, ChatSession.cpp 173): the frame
\* handed to sendData is on its way to the client.  It is not when be_sending_ is
\* set although nothing is being sent: then no later sendData starts a write either.
NeverStuck == ~(Stalled /\ be_sending_)

\* Every byte appended is sent, however few bytes a write takes, unless the socket
\* fails or another thread has sent too.
AllSent == \A n \in 1..MaxBytes : appended >= n ~> (sent >= n \/ broken \/ shared)

\* Bound of a run: what follows once the stream is garbled is not explored.
UntilGarbled == ~garbled
===============================================================================
