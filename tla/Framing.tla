-------------------------------- MODULE Framing --------------------------------
(***************************************************************************)
(* The stream of frames from a session of the chat server to a client: a   *)
(* frame is a tag, the length of the body in few bits, and the body.       *)
(* ChatSession::sendData puts it into a NetWorkBuffer, the socket takes    *)
(* any number of bytes at a time, and TcpManager::onDataReady of the       *)
(* client cuts the stream into frames again.  (ChatSession::handlingRaad   *)
(* cuts the stream of the client in the same way.)  A byte of the model    *)
(* stands for the two of a tag or a length.  That no write_buffer_ is used *)
(* by two threads at once is what SendPath is about, not this module.      *)
(***************************************************************************)
EXTENDS NetWorkBuffer

CONSTANTS
  Width,       \* the bits of a byte; the code has 16 for a tag and a length
  MaxFrames    \* bound: frames sent

ASSUME FramingAssumption ==
  /\ Width \in Nat /\ 2^Width \in Nat \ {0} /\ Byte = 0 .. 2^Width - 1
  /\ MaxFrames \in Nat

VARIABLES
  sending,         \* what sendData has yet to put into the buffer
  sent,            \* history: the frames sent
  data_, head_received_, tag_, body_len_,   \* the members of TcpManager
  handled          \* history: the frames passed to handing()

readerVars  == <<data_, head_received_, tag_, body_len_, handled>>
framingVars == <<vars, sending, sent, readerVars>>

Frame(tag, body) == [tag |-> tag, body |-> body]

FramingInit ==
  /\ Init
  /\ sending = <<>> /\ sent = <<>>
  /\ data_ = <<>> /\ head_received_ = FALSE /\ tag_ = 0 /\ body_len_ = 0
  /\ handled = <<>>

\* sendData: the tag, the length, which is cut to its width, and the whole body
\* are put into the buffer one after the other.
SendData(tag, body) ==
  /\ sending = <<>> /\ Len(sent) < MaxFrames
  /\ sending' = <<<<tag>>, <<Len(body) % 2^Width>>, body>>
  /\ sent' = Append(sent, Frame(tag, body))
  /\ UNCHANGED <<vars, readerVars>>

Put ==
  /\ sending # <<>>
  /\ write(Head(sending))
  /\ sending' = Tail(sending)
  /\ UNCHANGED <<sent, readerVars>>

\* Nothing more can be cut from what has arrived: onDataReady returned.
Waiting == IF head_received_ THEN Len(data_) < body_len_ ELSE Len(data_) < 2

\* async_write_some takes n bytes, handlingWrite retrieves them, and the client
\* reads them: onDataReady begins.
Transfer(n) ==
  /\ sending = <<>> /\ Waiting
  /\ n \in 1 .. readAbleBytes
  /\ retrivevAsString(n)
  /\ data_' = data_ \o SubSeq(Content, 1, n)
  /\ UNCHANGED <<sending, sent, head_received_, tag_, body_len_, handled>>

ReadHead ==
  /\ ~head_received_ /\ Len(data_) >= 2
  /\ tag_' = data_[1] /\ body_len_' = data_[2]
  /\ data_' = SubSeq(data_, 3, Len(data_))
  /\ head_received_' = TRUE
  /\ UNCHANGED <<vars, sending, sent, handled>>

\* Mutant: the next frame is read without its head.
ReadBody_KeepsHead ==
  /\ head_received_ /\ Len(data_) >= body_len_
  /\ Len(handled) < MaxFrames
  /\ handled' = Append(handled, Frame(tag_, SubSeq(data_, 1, body_len_)))
  /\ data_' = SubSeq(data_, body_len_ + 1, Len(data_))
  /\ UNCHANGED <<vars, sending, sent, head_received_, tag_, body_len_>>

ReadBody ==
  /\ head_received_ /\ Len(data_) >= body_len_
  /\ Len(handled) < MaxFrames
  /\ handled' = Append(handled, Frame(tag_, SubSeq(data_, 1, body_len_)))
  /\ data_' = SubSeq(data_, body_len_ + 1, Len(data_))
  /\ head_received_' = FALSE
  /\ UNCHANGED <<vars, sending, sent, tag_, body_len_>>

FramingNext ==
  \/ \E tag \in Byte, body \in Data : SendData(tag, body)
  \/ Put
  \/ \E n \in Counts : Transfer(n)
  \/ ReadHead \/ ReadBody

FramingSpec == FramingInit /\ [][FramingNext]_framingVars

-------------------------------------------------------------------------------
\* While no body has been longer than its length can say, the frames handled are
\* the frames sent, whole and in order, however the stream is cut into writes and
\* reads; and when no byte is left in the buffer, all of them are.
FramesInOrder ==
  (\A i \in DOMAIN sent : Len(sent[i].body) < 2^Width) =>
     /\ Len(handled) <= Len(sent)
     /\ handled = SubSeq(sent, 1, Len(handled))
     /\ sending = <<>> /\ readAbleBytes = 0 /\ Waiting => handled = sent
===============================================================================
