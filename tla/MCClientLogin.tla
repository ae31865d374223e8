----------------------------- MODULE MCClientLogin -----------------------------
(* Instances of ClientLogin for TLC.                                       *)
EXTENDS ClientLogin

CONSTANT ann

MCUsers == {ann}
MCPosts == 1 .. MaxTokens
===============================================================================
