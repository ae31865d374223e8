\* Two requests at once, to a gateway of two threads (three cores).
CONSTANTS
  ann = ann
  Callers <- MCPosts
  Users <- MCUsers
  NServers = 2
  Width = 2
  MaxTokens = 2
  NCores = 3
SPECIFICATION LoginSpec
CHECK_DEADLOCK FALSE
INVARIANTS
  LoginTypeOK
  StubsKept
  ChatUserAuthentic
  RegisterHintHolds
PROPERTIES
  PostsAnswered
