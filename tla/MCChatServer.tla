----------------------------- MODULE MCChatServer -----------------------------
(* Instances of ChatServer for TLC.                                        *)
EXTENDS ChatServer, TLC

\* The servers, users and sessions are interchangeable.
Symmetry == Permutations(Servers) \cup Permutations(Users) \cup Permutations(Sessions)
===============================================================================
