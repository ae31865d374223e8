\* A message that could not be stored, after one that was.
CONSTANTS
  Servers = {h1}
  Users = {u1, u2, u3}
  Sessions = {s1, s2}
  Nil = Nil
  NoForward = NoForward
  Writes = {"SEND_MSG"}
  Reads = {}
  Page = 20
  MaxRequests = 2
  MaxFrames = 3
  MaxCrashes = 0
  MaxEarly = 2
SPECIFICATION Spec
CHECK_DEADLOCK FALSE
INVARIANTS
  PushGoesToToid
