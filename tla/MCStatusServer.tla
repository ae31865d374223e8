---------------------------- MODULE MCStatusServer ----------------------------
(* Instances of StatusServer for TLC.                                      *)
EXTENDS StatusServer, TLC

Symmetry == Permutations(Callers)
===============================================================================
