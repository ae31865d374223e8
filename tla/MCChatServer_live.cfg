\* Liveness and history: two users with a session each, messages, lookups and one crash.
CONSTANTS
  Servers = {h1, h2}
  Users = {u1, u2}
  Sessions = {s1, s2}
  Nil = Nil
  NoForward = NoForward
  Writes = {"SEND_MSG"}
  Reads = {"GET_FRIEND_MSG", "GET_FRIEND_LIST", "USER_SET_HEAD", "GET_USER_HEAD",
           "GET_USERINFO_BY_ACCOUNT", "GET_USERINFO_BY_ID"}
  Page = 20
  MaxRequests = 1
  MaxFrames = 2
  MaxCrashes = 1
  MaxEarly = 0
SPECIFICATION FairSpec
CHECK_DEADLOCK FALSE
INVARIANTS
  NoLostRow
PROPERTIES
  PushArrives
  ClosingEnds
