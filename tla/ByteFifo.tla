------------------------------- MODULE ByteFifo -------------------------------
(***************************************************************************)
(* What NetWorkBuffer promises its users, ChatSession's read and write     *)
(* buffers: a queue of bytes of any length.  Bytes go in at the end, and   *)
(* come out at the front, in order, without loss.                          *)
(***************************************************************************)
EXTENDS Naturals, Sequences

CONSTANTS
  Data,   \* the byte sequences that may be put in
  Counts  \* the numbers of bytes that may be asked for

VARIABLES
  queue,  \* the bytes put in and not yet taken out
  got     \* the bytes the last operation returned

Init == queue = <<>> /\ got = <<>>

Put(data) == queue' = queue \o data /\ got' = <<>>

\* Taking more bytes than there are returns nothing and takes nothing.
Take(n) ==
  IF n <= Len(queue)
  THEN got' = SubSeq(queue, 1, n) /\ queue' = SubSeq(queue, n + 1, Len(queue))
  ELSE got' = <<>> /\ UNCHANGED queue

Next == (\E data \in Data : Put(data)) \/ (\E n \in Counts : Take(n))

Spec == Init /\ [][Next]_<<queue, got>>
===============================================================================
