\* Friend requests and answers: three users, two sessions, two servers, two requests.
CONSTANTS
  Servers = {h1, h2}
  Users = {u1, u2, u3}
  Sessions = {s1, s2}
  Nil = Nil
  NoForward = NoForward
  Writes = {"REQUEST_ADD_FRIEND", "WHETHER_ACCEPT_ADD_FRIEND"}
  Reads = {"GET_APPLY_FRIEND_LIST"}
  Page = 20
  MaxRequests = 2
  MaxFrames = 3
  MaxCrashes = 0
  MaxEarly = 0
SPECIFICATION Spec
SYMMETRY Symmetry
CHECK_DEADLOCK FALSE
INVARIANTS
  TypeOK
  NoLostRow
  PushBacked
  PushesInOrder
  LoginReplyFirst
