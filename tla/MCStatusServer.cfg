\* Three clients of two users, logging in again and again.
CONSTANTS
  Callers = {c1, c2, c3}
  Users = {u1, u2}
  NServers = 2
  Width = 3
  MaxTokens = 4
SPECIFICATION Spec
SYMMETRY Symmetry
CHECK_DEADLOCK FALSE
INVARIANTS
  TypeOK
  FreshTokenValid
  BoundedImbalance
PROPERTIES
  SupersededRefused
