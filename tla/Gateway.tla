-------------------------------- MODULE Gateway --------------------------------
(***************************************************************************)
(* The gateway (src/server/src/GateWay): an HTTP server that registers     *)
(* accounts and, at a login, checks the password and asks the StatusServer *)
(* for a chat server and a token (common/StatusServerClient.cpp).  Each    *)
(* request has a connection and a session of its own, on one of the        *)
(* io_contexts of common/IoContextPool.cpp, each run by one thread.  A     *)
(* handler is synchronous and keeps its context busy.  The calls of the    *)
(* requests are those of StatusServer; account u belongs to user u.        *)
(***************************************************************************)
EXTENDS StatusServer, Sequences

CONSTANT
  NCores   \* hardware_concurrency(): the gRPC stubs, and the io_contexts and one

ASSUME CoresAssumption == NCores \in Nat \ {0, 1}

NContexts == NCores - 1

Posts == Callers
None  == "none"

VARIABLES
  up,        \* the gateway runs
  accounts,  \* the database: the accounts
  kind,      \* per request: None, or what it asks for
  account,   \* its account
  right,     \* its password is the account's
  stage,     \* where the session and its handler are
  context,   \* the io_context of its session
  index_,    \* IoContextPool: the next context
  socket_, writing, waiting,   \* the requests whose socket is open, whose
                               \* response is on its way, whose deadline runs
  reply,     \* the response
  answer,    \* what the client gets of it
  stubs_,    \* StatusServerClient: the queue of stubs, "null" when moved from
  stub,      \* the stub a handler took
  overlapped \* history: two handlers used the queue at once

statusVars  == <<session_, count_, pc, uid, first, chosen, token, issued, owner,
                 returned, superseded>>
requestVars == <<kind, account, right>>
sessionVars == <<stage, context, index_, socket_, writing, waiting>>
stubVars    == <<stubs_, stub, overlapped>>
gatewayVars == <<up, accounts, requestVars, sessionVars, reply, answer, stubVars>>

Refusals == {"exists", "error", "refused", "uid"}
Replies  == Refusals \cup {"registered", "token"}
Failure  == "NETWORK_ERR"
InHandler == {"handle", "front", "pop", "call", "rpc", "push"}

GatewayTypeOK ==
  /\ TypeOK
  /\ up \in BOOLEAN /\ overlapped \in BOOLEAN
  /\ accounts \subseteq Users
  /\ kind \in [Posts -> {None, "register", "login"}]
  /\ account \in [Posts -> Users] /\ right \in [Posts -> BOOLEAN]
  /\ stage \in [Posts -> {None, "read", "served"} \cup InHandler]
  /\ context \in [Posts -> 0 .. NContexts - 1] /\ index_ \in 0 .. NContexts - 1
  /\ {socket_, writing, waiting} \subseteq SUBSET Posts
  /\ reply \in [Posts -> Replies \cup {None}]
  /\ answer \in [Posts -> Replies \cup {None, Failure}]
  /\ stubs_ \in Seq({"stub", "null"})
  /\ stub \in [Posts -> {None, "stub", "null"}]

GatewayInit ==
  /\ Init
  /\ up = TRUE
  /\ accounts \in SUBSET Users
  /\ kind = [p \in Posts |-> None]
  /\ account = uid /\ right = [p \in Posts |-> FALSE]
  /\ stage = [p \in Posts |-> None]
  /\ context = [p \in Posts |-> 0] /\ index_ = 0
  /\ socket_ = {} /\ writing = {} /\ waiting = {}
  /\ reply = [p \in Posts |-> None] /\ answer = [p \in Posts |-> None]
  /\ stubs_ = [i \in 1 .. NCores |-> "stub"]
  /\ stub = [p \in Posts |-> None]
  /\ overlapped = FALSE

To(p, s) == stage' = [stage EXCEPT ![p] = s]

\* The thread of the context of p is free to run a handler of p.
Free(p) == up /\ \A q \in Posts : context[q] = context[p] => stage[q] \notin InHandler

\* Every session is gone and every client that waits gets an error.
Died ==
  /\ up' = FALSE
  /\ stage' = [p \in Posts |-> IF stage[p] = None THEN None ELSE "served"]
  /\ socket_' = {} /\ writing' = {} /\ waiting' = {}
  /\ answer' = [p \in Posts |->
       IF stage[p] # None /\ answer[p] = None THEN Failure ELSE answer[p]]
  /\ UNCHANGED <<accounts, requestVars, context, index_, reply, stubVars>>

-------------------------------------------------------------------------------
(* HttpServer and HttpSession.                                             *)

\* Mutant: the index of the next context does not wrap.
Post_NoWrap(p, k, u, r) ==
  /\ kind[p] = None
  /\ \A q \in Posts : kind[q] = None => p <= q
  /\ kind' = [kind EXCEPT ![p] = k]
  /\ account' = [account EXCEPT ![p] = u]
  /\ right' = [right EXCEPT ![p] = r]
  /\ IF up
     THEN /\ To(p, "read")
          /\ context' = [context EXCEPT ![p] = index_]
          /\ index_' = index_ + 1
          /\ socket_' = socket_ \cup {p}
          /\ UNCHANGED answer
     ELSE /\ To(p, "served")
          /\ answer' = [answer EXCEPT ![p] = Failure]
          /\ UNCHANGED <<context, index_, socket_>>
  /\ UNCHANGED <<up, accounts, writing, waiting, reply, stubVars>>

\* The client posts a request.  HttpServer::start accepts its connection; the
\* contexts take turns.
Post(p, k, u, r) ==
  /\ kind[p] = None
  /\ \A q \in Posts : kind[q] = None => p <= q
  /\ kind' = [kind EXCEPT ![p] = k]
  /\ account' = [account EXCEPT ![p] = u]
  /\ right' = [right EXCEPT ![p] = r]
  /\ IF up
     THEN /\ To(p, "read")
          /\ context' = [context EXCEPT ![p] = index_]
          /\ index_' = (index_ + 1) % NContexts
          /\ socket_' = socket_ \cup {p}
          /\ UNCHANGED answer
     ELSE /\ To(p, "served")
          /\ answer' = [answer EXCEPT ![p] = Failure]
          /\ UNCHANGED <<context, index_, socket_>>
  /\ UNCHANGED <<up, accounts, writing, waiting, reply, stubVars>>

\* HttpSession::start: the request is read and its handler begins ...
Read(p) ==
  /\ stage[p] = "read" /\ Free(p)
  /\ To(p, "handle")
  /\ UNCHANGED <<up, accounts, requestVars, context, index_, socket_, writing,
                 waiting, reply, answer, stubVars>>

\* ... or the connection breaks first: close().
ReadFails(p) ==
  /\ stage[p] = "read" /\ Free(p)
  /\ To(p, "served")
  /\ socket_' = socket_ \ {p}
  /\ answer' = [answer EXCEPT ![p] = Failure]
  /\ UNCHANGED <<up, accounts, requestVars, context, index_, writing, waiting, reply,
                 stubVars>>

\* Mutant: the deadline is not set.
Respond_NoDeadline(p, r) ==
  /\ To(p, "served")
  /\ reply' = [reply EXCEPT ![p] = r]
  /\ writing' = writing \cup {p}
  /\ UNCHANGED <<context, index_, socket_, waiting, answer>>

\* The handler ends: writeResponse and checkDeadline.
Respond(p, r) ==
  /\ To(p, "served")
  /\ reply' = [reply EXCEPT ![p] = r]
  /\ writing' = writing \cup {p}
  /\ waiting' = waiting \cup {p}
  /\ UNCHANGED <<context, index_, socket_, answer>>

\* The socket takes the whole response, which the client then gets.
Transfer(p) ==
  /\ p \in writing \cap socket_ /\ answer[p] = None
  /\ answer' = [answer EXCEPT ![p] = reply[p]]
  /\ UNCHANGED <<up, accounts, requestVars, sessionVars, reply, stubVars>>

\* The handler of async_write, after a success, cancels the deadline;
\* nothing holds the session any more and its socket is closed.
Written(p) ==
  /\ p \in writing /\ answer[p] = reply[p] /\ Free(p)
  /\ writing' = writing \ {p}
  /\ waiting' = waiting \ {p}
  /\ socket_' = socket_ \ {p}
  /\ UNCHANGED <<up, accounts, requestVars, stage, context, index_, reply, answer,
                 stubVars>>

\* close(): the client that has not got its response gets an error.
close(p) ==
  /\ socket_' = socket_ \ {p}
  /\ answer' = [answer EXCEPT ![p] = IF @ = None THEN Failure ELSE @]

\* The handler of async_write, after a failure (the connection broke or the
\* deadline closed the socket).
WriteFails(p) ==
  /\ p \in writing /\ answer[p] # reply[p] /\ Free(p)
  /\ writing' = writing \ {p}
  /\ close(p)
  /\ UNCHANGED <<up, accounts, requestVars, stage, context, index_, waiting, reply,
                 stubVars>>

\* The deadline.  It counts from the construction of the session, which waits
\* for a connection since the one before was accepted: it may be over at once.
Deadline(p) ==
  /\ p \in waiting /\ Free(p)
  /\ waiting' = waiting \ {p}
  /\ close(p)
  /\ UNCHANGED <<up, accounts, requestVars, stage, context, index_, writing, reply,
                 stubVars>>

-------------------------------------------------------------------------------
(* LogicSystem and MysqlDao.  A handler may wait in getConn for as long as *)
(* it likes: nothing is assumed of when it goes on.                        *)

\* /register, with MysqlDao::register_user.  Or the database fails, before the
\* account is stored or after.
Register(p) ==
  /\ stage[p] = "handle" /\ kind[p] = "register"
  /\ \/ /\ account[p] \notin accounts
        /\ accounts' = accounts \cup {account[p]}
        /\ Respond(p, "registered")
     \/ /\ account[p] \in accounts
        /\ Respond(p, "exists")
        /\ UNCHANGED accounts
     \/ Respond(p, "error") /\ accounts' \in {accounts, accounts \cup {account[p]}}
  /\ UNCHANGED <<up, requestVars, stubVars>>

\* /login, with MysqlDao::check_pwd.
CheckPwd(p) ==
  /\ stage[p] = "handle" /\ kind[p] = "login"
  /\ \/ /\ account[p] \in accounts /\ right[p]
        /\ To(p, "front")
        /\ UNCHANGED <<context, index_, socket_, writing, waiting, reply, answer>>
     \/ ~(account[p] \in accounts /\ right[p]) /\ Respond(p, "refused")
     \/ Respond(p, "error")
  /\ UNCHANGED <<up, accounts, requestVars, stubVars>>

\* GetStube and RetuenStube construct a lock_guard that is gone before the queue
\* is used: nothing keeps p from using it while another handler does.
Using(p) == \E q \in Posts \ {p} : stage[q] \in {"pop", "push"}
Overlap(p) == overlapped' = (overlapped \/ Using(p))

\* GetStube: the front is moved from - two handlers may both have read it before
\* either clears it.  With no stub left front() is that of an empty queue.
GetFront(p) ==
  /\ stage[p] = "front"
  /\ IF stubs_ = <<>> THEN UNCHANGED statusVars /\ Died
     ELSE /\ To(p, "pop")
          /\ \E s \in {Head(stubs_)} \cup (IF Using(p) THEN {"stub"} ELSE {}) :
               stub' = [stub EXCEPT ![p] = s]
          /\ stubs_' = [stubs_ EXCEPT ![1] = "null"]
          /\ Overlap(p)
          /\ UNCHANGED <<up, accounts, requestVars, context, index_, socket_, writing,
                         waiting, reply, answer, statusVars>>

\* ... and popped.  The pop may be lost to that of another handler.
Pop(p) ==
  /\ stage[p] = "pop"
  /\ To(p, "call")
  /\ stubs_' \in {IF stubs_ = <<>> THEN <<>> ELSE Tail(stubs_)}
                  \cup (IF Using(p) THEN {stubs_} ELSE {})
  /\ UNCHANGED <<up, accounts, requestVars, context, index_, socket_, writing, waiting,
                 reply, answer, stub, overlapped>>

\* GetChatServer calls through the stub: a null one ends the process.
Call(p) ==
  /\ stage[p] = "call"
  /\ IF stub[p] = "null" THEN Died /\ UNCHANGED statusVars
     ELSE /\ To(p, "rpc")
          /\ GetChartServer(p, account[p])
          /\ UNCHANGED <<up, accounts, requestVars, context, index_, socket_, writing,
                         waiting, reply, answer, stubVars>>

\* The call is over and RetuenStube begins to push the stub.
Push(p) ==
  /\ To(p, "push")
  /\ Overlap(p)
  /\ UNCHANGED <<up, accounts, requestVars, context, index_, socket_, writing, waiting,
                 reply, answer, stubs_, stub>>

\* The StatusServer cannot be reached.
CallFails(p) ==
  /\ stage[p] = "call" /\ stub[p] = "stub"
  /\ Push(p)

\* The call returned, unless its result was lost.
CallReturns(p) ==
  /\ stage[p] = "rpc" /\ pc[p] = "connect"
  /\ Push(p)

\* The queue once the stub is pushed: what two handlers that push at once put there
\* may be lost, or not there yet where the queue believes it.
Pushed(p) == {Append(stubs_, stub[p])}
             \cup (IF Using(p) THEN {stubs_, Append(stubs_, "null")} ELSE {})

\* Mutant: the stub is kept when the call failed.
ReturnStub_Keeps(p) ==
  /\ stage[p] = "push"
  /\ \/ pc[p] = "connect" /\ Respond(p, "token") /\ stubs_' \in Pushed(p)
     \/ Respond(p, "uid") /\ UNCHANGED stubs_
  /\ stub' = [stub EXCEPT ![p] = None]
  /\ UNCHANGED <<up, accounts, requestVars, overlapped>>

\* The end of RetuenStube, and the response: after a failure its text is what
\* check_pwd left in rsp, the uid.
ReturnStub(p) ==
  /\ stage[p] = "push"
  /\ stubs_' \in Pushed(p)
  /\ stub' = [stub EXCEPT ![p] = None]
  /\ \/ pc[p] = "connect" /\ Respond(p, "token")
     \/ Respond(p, "uid")
  /\ UNCHANGED <<up, accounts, requestVars, overlapped>>

\* What a handler of the request p does, and the StatusServer for it.  Nothing is
\* assumed of its progress: getConn may wait for ever, and so may a gRPC call, which
\* has no deadline.
Handler(p) ==
  \/ /\ \/ Read(p) \/ Register(p) \/ CheckPwd(p) \/ Pop(p)
        \/ CallFails(p) \/ CallReturns(p) \/ ReturnStub(p)
     /\ UNCHANGED statusVars
  \/ GetFront(p) \/ Call(p)
  \/ (ReadFirst(p) \/ Choose(p) \/ InsertToken(p)) /\ UNCHANGED gatewayVars

\* What the network may do or not.
Luck(p) == (ReadFails(p) \/ Transfer(p) \/ WriteFails(p)) /\ UNCHANGED statusVars

\* What ends a response once it is being written: the socket took it, or it is
\* closed, or its time is over.
Finish(p) ==
  /\ Written(p) \/ (p \notin socket_ /\ WriteFails(p)) \/ Deadline(p)
  /\ UNCHANGED statusVars

-------------------------------------------------------------------------------
\* Unless two handlers use the queue at once, no stub is lost or duplicated by
\* the calls that succeed and fail, every handler has a real one, and the queue is
\* never empty when a handler wants one: there are more stubs than contexts.
StubsKept ==
  ~overlapped =>
    LET held == {p \in Posts : stub[p] # None}
    IN  /\ up
        /\ \A p \in held : stub[p] = "stub"
        /\ Cardinality({i \in DOMAIN stubs_ : stubs_[i] = "stub"}) + Cardinality(held) = NCores
===============================================================================
