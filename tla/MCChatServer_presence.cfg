\* Presence, lookup and push: overlapping sessions and one crash.
CONSTANTS
  Servers = {h1, h2}
  Users = {u1, u2}
  Sessions = {s1, s2, s3}
  Nil = Nil
  NoForward = NoForward
  Writes = {"SEND_MSG"}
  Reads = {}
  Page = 20
  MaxRequests = 1
  MaxFrames = 2
  MaxCrashes = 1
  MaxEarly = 3
SPECIFICATION Spec
SYMMETRY Symmetry
CHECK_DEADLOCK FALSE
INVARIANTS
  RouteOwner
  PushToAddressee
