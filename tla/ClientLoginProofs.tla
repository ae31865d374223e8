--------------------------- MODULE ClientLoginProofs ---------------------------
(***************************************************************************)
(* Proofs about ClientLogin and the Gateway in it, for any number of       *)
(* requests, users, servers and cores: the state has its types, a chat     *)
(* window belongs to an authentic login, the hint of the registration      *)
(* window is true, and stubs are kept.                                     *)
(*                                                                         *)
(* What the client shows it has from answers, so the invariant goes back   *)
(* from an answer to the response, from the response to the handler and    *)
(* from the handler to the call of the StatusServer (Request); the         *)
(* properties of StatusServer's own invariant hold here as well, though    *)
(* here logins are counted for the server the client connected to.         *)
(***************************************************************************)
EXTENDS ClientLogin, StatusServerProofs, SequenceTheorems

\* The parts of GatewayTypeOK and LoginTypeOK of the module itself.
GatewayTyped ==
  /\ up \in BOOLEAN /\ overlapped \in BOOLEAN
  /\ accounts \subseteq Users
  /\ kind \in [Posts -> {None, "register", "login"}]
  /\ account \in [Posts -> Users] /\ right \in [Posts -> BOOLEAN]
  /\ stage \in [Posts -> {None, "read", "served"} \cup InHandler]
  /\ context \in [Posts -> 0 .. NContexts - 1] /\ index_ \in 0 .. NContexts - 1
  /\ {socket_, writing, waiting} \subseteq SUBSET Posts
  /\ reply \in [Posts -> Replies \cup {None}]
  /\ answer \in [Posts -> Replies \cup {None, Failure}]
  /\ stubs_ \in Seq({"stub", "null"})
  /\ stub \in [Posts -> {None, "stub", "null"}]

ClientTyped ==
  /\ {visible, overtaken, strayed} \subseteq BOOLEAN
  /\ pending \subseteq Posts /\ chatWindows \subseteq Posts
  /\ userInfo \in Posts \cup {NoLogin}
  /\ tcp \in {"Unconnected", "Connecting", "Connected"}
  /\ conn \in [login : Posts \cup {NoLogin}, at : Servers,
               is : {None, "sent", "count", "accepted", "refused"}]
  /\ reg \in [open : BOOLEAN, btn : BOOLEAN,
              hint : Replies \cup {None, Failure, "asking"},
              timer : BOOLEAN, edited : BOOLEAN, asked : BOOLEAN]

\* A token the StatusServer handed over is one of those returned.
TokenReturned == \A c \in Callers : pc[c] = "connect" => token[c] \in returned

\* The handlers that hold a stub.
Taking == {"pop", "call", "rpc", "push"}

\* Who holds a stub has taken one.
StubTaken == \A p \in Posts : stage[p] \in Taking => stub[p] # None

\* A request that is not posted has left no trace.
Unposted ==
  \A p \in Posts : kind[p] = None =>
    stage[p] = None /\ pc[p] = "idle" /\ reply[p] = None /\ answer[p] = None

\* Past check_pwd the password was right.
PastCheck ==
  \A p \in Posts : stage[p] \in {"front"} \cup Taking =>
    kind[p] = "login" /\ right[p] /\ account[p] \in accounts

\* The call of a request is for its account.
CallForAccount == \A p \in Posts : pc[p] # "idle" => uid[p] = account[p]

\* There is a response only once the handler is over, and an answer is the response.
ServedLast ==
  \A p \in Posts :
    /\ reply[p] # None \/ answer[p] # None \/ p \in writing \cup waiting => stage[p] = "served"
    /\ answer[p] \in {None, Failure, reply[p]}

\* The login p is of an account, with its password and a token given out for it.
Authentic(p) ==
  /\ kind[p] = "login" /\ right[p] /\ account[p] \in accounts
  /\ token[p] \in returned /\ owner[token[p]] = account[p]

\* A response with a token means that.
TokenReplies ==
  \A p \in Posts : reply[p] = "token" =>
    Authentic(p) /\ pc[p] \in {"connect", "count", "idle"}

\* "registered" means that the account is stored.
RegisterReplies ==
  \A p \in Posts : reply[p] = "registered" => kind[p] = "register" /\ account[p] \in accounts

Request ==
  /\ TokenReturned /\ Unposted /\ PastCheck /\ CallForAccount /\ ServedLast
  /\ TokenReplies /\ RegisterReplies

LoginTyped == CountsTyped /\ GatewayTyped /\ ClientTyped /\ StubTaken

\* A connection in use, or about to be, is of a login that got a token.
ConnOfLogin ==
  /\ tcp = "Connecting" => userInfo \in Posts /\ answer[userInfo] = "token"
  /\ conn.is # None => conn.login \in Posts /\ answer[conn.login] = "token"
  /\ conn.is # None /\ ~overtaken => userInfo = conn.login
  /\ \A p \in chatWindows : answer[p] = "token"

\* A registration is pending in the window that asked for it, or was strayed.
Asked ==
  /\ \A p \in pending : kind[p] # None /\ (kind[p] = "register" /\ ~strayed => reg.open /\ reg.asked)
  /\ RegisterHintHolds

LoginInv == Inv /\ LoginTyped /\ Request /\ ConnOfLogin /\ Asked
-------------------------------------------------------------------------------
(* The steps.                                                              *)

\* What the gateway does for the request p without the StatusServer and the client.
GatewayStep(p) ==
  \/ Read(p) \/ ReadFails(p) \/ Register(p) \/ CheckPwd(p) \/ Pop(p) \/ CallFails(p)
  \/ CallReturns(p) \/ ReturnStub(p) \/ Transfer(p) \/ Written(p) \/ WriteFails(p) \/ Deadline(p)
  \/ GetFront(p) /\ UNCHANGED statusVars
  \/ stage[p] = "call" /\ stub[p] = "null" /\ Died

\* The call of the StatusServer begins.
CallBegins(p) ==
  /\ stage[p] = "call" /\ To(p, "rpc")
  /\ GetChartServer(p, account[p])
  /\ UNCHANGED <<up, accounts, requestVars, context, index_, socket_, writing, waiting,
                 reply, answer, stubVars>>

\* What the client does when it posts nothing.
ClientStep ==
  \/ OpenRegister \/ CloseRegister
  \/ \E enabled \in BOOLEAN : Edit(enabled)
  \/ onTimerout
  \/ Connected \/ ConnectFails \/ Disconnected \/ LoginReply
  \/ \E p \in Posts : HandleLogin(p) \/ HandleRegister(p)

\* A request is posted by one of the windows.
PostStep(p) ==
  \/ \E u \in Users, r \in BOOLEAN : ClickLogin(p, u, r)
  \/ \E u \in Users : onRegister(p, u)

LEMMA StepKinds ==
  ASSUME LoginNext
  PROVE  \/ ClientStep /\ UNCHANGED <<statusVars, gatewayVars>>
         \/ \E p \in Posts : PostStep(p) /\ UNCHANGED statusVars
         \/ ServerLogin /\ UNCHANGED gatewayVars
         \/ \E p \in Posts : GatewayStep(p) /\ UNCHANGED statusVars /\ UNCHANGED clientVars
         \/ \E p \in Posts : CallBegins(p) /\ UNCHANGED clientVars
         \/ \E p \in Posts : /\ ReadFirst(p) \/ Choose(p) \/ InsertToken(p)
                             /\ UNCHANGED gatewayVars /\ UNCHANGED clientVars
<1>1. CASE Client
  BY <1>1 DEF Client, ClientStep, PostStep
<1>2. CASE \E p \in Posts : (Handler(p) \/ Luck(p) \/ Finish(p)) /\ UNCHANGED clientVars
  <2>1. PICK p \in Posts : (Handler(p) \/ Luck(p) \/ Finish(p)) /\ UNCHANGED clientVars
    BY <1>2
  <2>2. Call(p) => CallBegins(p) \/ (GatewayStep(p) /\ UNCHANGED statusVars)
    BY DEF Call, CallBegins, GatewayStep
  <2>3. GetFront(p) => GatewayStep(p) /\ UNCHANGED statusVars
    BY DEF GetFront, GatewayStep
  <2> QED
    BY <2>1, <2>2, <2>3 DEF Handler, Luck, Finish, GatewayStep
<1> QED
  BY <1>1, <1>2 DEF LoginNext

\* A step of the StatusServer is one of StatusServer's, of a caller that is not idle
\* unless its call begins.
LEMMA ServerLoginIsStatusStep ==
  ASSUME LoginTyped, ConnOfLogin, ServerLogin
  PROVE  conn.login \in Posts /\ StatusStep(conn.login) /\ pc[conn.login] \in {"connect", "count"}
<1>1. conn.is # None /\ conn.at \in Servers
  BY DEF ServerLogin, LoginTyped, ClientTyped, None
<1>2. conn.login \in Posts
  BY <1>1 DEF ConnOfLogin
<1> QED
  BY <1>1, <1>2 DEF ServerLogin, StatusStep, Login, LoginFails, CountLoginAt

LEMMA CallBeginsIsStatusStep ==
  ASSUME GatewayTyped, NEW p \in Posts, CallBegins(p)
  PROVE  StatusStep(p)
  BY DEF GatewayTyped, CallBegins, StatusStep, Posts

-------------------------------------------------------------------------------
(* Types.                                                                  *)

LEMMA StatusInv ==
  ASSUME Inv, LoginTyped, ConnOfLogin, [LoginNext]_loginVars
  PROVE  Inv' /\ CountsTyped'
<1>1. CASE UNCHANGED statusVars
  <2>1. UNCHANGED vars
    BY <1>1 DEF statusVars, vars
  <2>2. Inv'
    BY <2>1, InvNext
  <2>3. CountsTyped'
    BY <2>1 DEF LoginTyped, CountsTyped, vars
  <2> QED
    BY <2>2, <2>3
<1>2. ASSUME NEW c \in Callers, StatusStep(c) PROVE Inv' /\ CountsTyped'
  BY <1>2, InvStep, CountsTypedStep DEF LoginTyped
<1>3. CASE ServerLogin
  BY <1>2, <1>3, ServerLoginIsStatusStep DEF Posts
<1>4. ASSUME NEW p \in Posts, CallBegins(p) PROVE Inv' /\ CountsTyped'
  BY <1>2, <1>4, CallBeginsIsStatusStep DEF Posts, LoginTyped
<1>5. ASSUME NEW p \in Posts, ReadFirst(p) \/ Choose(p) \/ InsertToken(p)
      PROVE  Inv' /\ CountsTyped'
  BY <1>2, <1>5 DEF Posts, StatusStep
<1>6. CASE UNCHANGED loginVars
  BY <1>1, <1>6 DEF loginVars
<1> HIDE DEF Inv, CountsTyped, LoginTyped, ConnOfLogin
<1> QED
  BY <1>1, <1>3, <1>4, <1>5, <1>6, StepKinds

\* A queue whose front is moved from.
LEMMA FrontMoved ==
  ASSUME NEW S, NEW s \in Seq(S), s # <<>>, NEW e \in S
  PROVE  /\ Len(s) \in Nat \ {0} /\ Head(s) = s[1]
         /\ [s EXCEPT ![1] = e] \in Seq(S)
         /\ Len([s EXCEPT ![1] = e]) = Len(s)
         /\ [s EXCEPT ![1] = e][1] = e
         /\ \A i \in 2 .. Len(s) : [s EXCEPT ![1] = e][i] = s[i]
<1>1. Len(s) \in Nat \ {0} /\ Head(s) = s[1]
  BY EmptySeq, LenProperties
<1> QED
  BY <1>1, ExceptSeq

LEMMA GatewayTypedInit == GatewayInit => GatewayTyped /\ StubTaken
<1> SUFFICES ASSUME GatewayInit PROVE GatewayTyped /\ StubTaken
  OBVIOUS
<1>1. NCores \in Nat /\ NContexts - 1 \in Nat
  BY CoresAssumption DEF NContexts
<1>2. (CHOOSE u \in Users : TRUE) \in Users
  BY ConstantAssumption DEF ConstantAssumption
<1>3. account \in [Posts -> Users]
  BY <1>2 DEF GatewayInit, Init, Posts
<1>4. stubs_ \in Seq({"stub", "null"})
  <2>1. \A i \in 1 .. NCores : "stub" \in {"stub", "null"}
    OBVIOUS
  <2>2. stubs_ \in [1 .. NCores -> {"stub", "null"}]
    BY DEF GatewayInit
  <2> QED
    BY <1>1, <2>2, SeqDef
<1>5. StubTaken
  BY DEF GatewayInit, StubTaken, Taking, None
<1>6. /\ up \in BOOLEAN /\ overlapped \in BOOLEAN /\ accounts \subseteq Users
      /\ kind \in [Posts -> {None, "register", "login"}] /\ right \in [Posts -> BOOLEAN]
      /\ stage \in [Posts -> {None, "read", "served"} \cup InHandler]
  BY DEF GatewayInit
<1>7. context \in [Posts -> 0 .. NContexts - 1] /\ index_ \in 0 .. NContexts - 1
  BY <1>1 DEF GatewayInit
<1>8. /\ {socket_, writing, waiting} \subseteq SUBSET Posts
      /\ reply \in [Posts -> Replies \cup {None}]
      /\ answer \in [Posts -> Replies \cup {None, Failure}]
      /\ stub \in [Posts -> {None, "stub", "null"}]
  BY DEF GatewayInit
<1> QED
  BY <1>3, <1>4, <1>5, <1>6, <1>7, <1>8 DEF GatewayTyped

LEMMA GatewayTypedPost ==
  ASSUME GatewayTyped, StubTaken, NEW p \in Posts, NEW k \in {"register", "login"}, NEW u \in Users,
         NEW r \in BOOLEAN, Post(p, k, u, r)
  PROVE  GatewayTyped' /\ StubTaken'
<1>1. NContexts \in Nat \ {0}
  BY CoresAssumption DEF NContexts
<1>2. (index_ + 1) % NContexts \in 0 .. NContexts - 1
  BY <1>1 DEF GatewayTyped
<1>3. /\ kind' \in [Posts -> {None, "register", "login"}]
      /\ account' \in [Posts -> Users] /\ right' \in [Posts -> BOOLEAN]
  BY DEF GatewayTyped, Post
<1>4. /\ stage' \in [Posts -> {None, "read", "served"} \cup InHandler]
      /\ answer' \in [Posts -> Replies \cup {None, Failure}]
      /\ context' \in [Posts -> 0 .. NContexts - 1] /\ index_' \in 0 .. NContexts - 1
      /\ socket_' \in SUBSET Posts
  <2>1. CASE up
    BY ZenonT(30), <1>2, <2>1 DEF GatewayTyped, Post, To
  <2>2. CASE ~up
    BY <2>2 DEF GatewayTyped, Post, To
  <2> QED
    BY <2>1, <2>2
<1>5. UNCHANGED <<up, overlapped, accounts, writing, waiting, reply, stubs_, stub>>
  BY DEF Post, stubVars
<1>6. \A q \in Posts : stage'[q] \in Taking => stage[q] \in Taking
  BY DEF GatewayTyped, Post, To, Taking
<1> QED
  BY <1>3, <1>4, <1>5, <1>6 DEF GatewayTyped, StubTaken

LEMMA GatewayTypedStep ==
  ASSUME GatewayTyped, StubTaken, NEW p \in Posts, GatewayStep(p)
  PROVE  GatewayTyped' /\ StubTaken'
<1>1. CASE Read(p) \/ Pop(p) \/ CallFails(p) \/ CallReturns(p)
  <2>1. /\ \E s \in InHandler : To(p, s) /\ (s \in Taking => stage[p] \in Taking)
        /\ UNCHANGED <<up, accounts, kind, account, right, context, index_, socket_, writing,
                       waiting, reply, answer, stub>>
    BY <1>1 DEF Read, Pop, CallFails, CallReturns, Push, requestVars, stubVars, InHandler, Taking
  <2>2. stubs_' = stubs_ \/ stubs_' = <<>> \/ (stubs_ # <<>> /\ stubs_' = Tail(stubs_))
    BY <1>1 DEF Read, Pop, CallFails, CallReturns, Push, stubVars
  <2>3. stubs_' \in Seq({"stub", "null"})
    <3>1. /\ stubs_ \in Seq({"stub", "null"}) /\ <<>> \in Seq({"stub", "null"})
          /\ stubs_ # <<>> => Tail(stubs_) \in Seq({"stub", "null"})
      BY EmptySeq, HeadTailProperties DEF GatewayTyped
    <3> QED
      BY <2>2, <3>1
  <2>4. stage' \in [Posts -> {None, "read", "served"} \cup InHandler]
    BY <2>1 DEF GatewayTyped, To
  <2>5. overlapped' \in BOOLEAN
    BY <1>1 DEF Read, Pop, CallFails, CallReturns, Push, Overlap, GatewayTyped, stubVars
  <2> QED
    BY <2>1, <2>3, <2>4, <2>5 DEF GatewayTyped, StubTaken, To
<1>2. CASE ReadFails(p) \/ Transfer(p) \/ Written(p) \/ WriteFails(p) \/ Deadline(p)
  <2>1. UNCHANGED <<up, overlapped, accounts, kind, account, right, context, index_, reply, stubs_,
                    stub>>
    BY <1>2 DEF ReadFails, Transfer, Written, WriteFails, Deadline, requestVars, sessionVars, stubVars
  <2>2. stage' = stage \/ To(p, "served")
    BY <1>2 DEF ReadFails, Transfer, Written, WriteFails, Deadline, sessionVars
  <2>3. {socket_', writing', waiting'} \subseteq SUBSET Posts
    BY <1>2 DEF GatewayTyped, ReadFails, Transfer, Written, WriteFails, Deadline, close, sessionVars
  <2>4. answer' \in [Posts -> Replies \cup {None, Failure}]
    BY SMTT(30), <1>2 DEF GatewayTyped, ReadFails, Transfer, Written, WriteFails, Deadline, close
  <2>5. stage' \in [Posts -> {None, "read", "served"} \cup InHandler]
    BY <2>2 DEF GatewayTyped, To
  <2>6. StubTaken'
    BY <2>1, <2>2 DEF GatewayTyped, StubTaken, To, Taking
  <2> QED
    BY <2>1, <2>3, <2>4, <2>5, <2>6 DEF GatewayTyped
<1>3. CASE Register(p) \/ CheckPwd(p) \/ ReturnStub(p)
  <2>1. UNCHANGED <<up, overlapped, kind, account, right, context, index_, socket_, answer>>
    BY <1>3 DEF Register, CheckPwd, ReturnStub, Respond, requestVars, stubVars
  <2>2. To(p, "served") \/ (To(p, "front") /\ stub' = stub)
    BY <1>3 DEF Register, CheckPwd, ReturnStub, Respond, stubVars
  <2>3. /\ stage' \in [Posts -> {None, "read", "served"} \cup InHandler]
        /\ \A q \in Posts : stage'[q] \in Taking => stage[q] \in Taking /\ q # p
    BY <2>2 DEF GatewayTyped, To, InHandler, Taking
  <2>4. /\ accounts' \subseteq Users
        /\ {socket_', writing', waiting'} \subseteq SUBSET Posts
    BY <1>3 DEF GatewayTyped, Register, CheckPwd, ReturnStub, Respond
  <2>5. reply' \in [Posts -> Replies \cup {None}]
    BY <1>3 DEF GatewayTyped, Register, CheckPwd, ReturnStub, Respond, Replies, Refusals
  <2>6. stub' = stub \/ stub' = [stub EXCEPT ![p] = None]
    BY <1>3 DEF Register, CheckPwd, ReturnStub, stubVars
  <2>7. stubs_' \in Seq({"stub", "null"})
    <3>1. CASE ReturnStub(p)
      <4>1. stub[p] \in {"stub", "null"}
        BY <3>1 DEF GatewayTyped, StubTaken, ReturnStub, Taking
      <4>2. \A e \in {"stub", "null"} : Append(stubs_, e) \in Seq({"stub", "null"})
        BY AppendProperties DEF GatewayTyped
      <4> QED
        BY <3>1, <4>1, <4>2 DEF GatewayTyped, ReturnStub, Pushed
    <3>2. CASE Register(p) \/ CheckPwd(p)
      BY <3>2 DEF GatewayTyped, Register, CheckPwd, stubVars
    <3> QED
      BY <1>3, <3>1, <3>2
  <2>8. stub' \in [Posts -> {None, "stub", "null"}] /\ StubTaken'
    BY <2>3, <2>6 DEF GatewayTyped, StubTaken
  <2> QED
    BY <2>1, <2>3, <2>4, <2>5, <2>7, <2>8 DEF GatewayTyped
<1>4. CASE Died
  <2>1. UNCHANGED <<overlapped, accounts, kind, account, right, context, index_, reply, stubs_, stub>>
    BY <1>4 DEF Died, requestVars, stubVars
  <2>2. /\ stage' \in [Posts -> {None, "read", "served"} \cup InHandler]
        /\ answer' \in [Posts -> Replies \cup {None, Failure}]
    BY <1>4 DEF GatewayTyped, Died
  <2>3. StubTaken'
    BY <1>4 DEF Died, StubTaken, Taking, None
  <2>4. up' \in BOOLEAN /\ {socket_', writing', waiting'} \subseteq SUBSET Posts
    BY <1>4 DEF Died
  <2> QED
    BY <2>1, <2>2, <2>3, <2>4 DEF GatewayTyped
<1>5. CASE GetFront(p) /\ ~Died
  <2>1. /\ stubs_ # <<>> /\ To(p, "pop")
        /\ \E s \in {Head(stubs_), "stub"} : stub' = [stub EXCEPT ![p] = s]
        /\ stubs_' = [stubs_ EXCEPT ![1] = "null"]
        /\ overlapped' \in BOOLEAN
        /\ UNCHANGED <<up, accounts, kind, account, right, context, index_, socket_, writing,
                       waiting, reply, answer>>
    BY <1>5 DEF GetFront, Overlap, requestVars, GatewayTyped
  <2>2. stubs_' \in Seq({"stub", "null"}) /\ Head(stubs_) \in {"stub", "null"}
    BY <2>1, FrontMoved, HeadTailProperties DEF GatewayTyped
  <2>3. stub' \in [Posts -> {None, "stub", "null"}] /\ StubTaken'
    BY <2>1, <2>2 DEF GatewayTyped, StubTaken, To, None
  <2>4. stage' \in [Posts -> {None, "read", "served"} \cup InHandler]
    BY <2>1 DEF GatewayTyped, To, InHandler
  <2> QED
    BY <2>1, <2>2, <2>3, <2>4 DEF GatewayTyped
<1> QED
  BY <1>1, <1>2, <1>3, <1>4, <1>5 DEF GatewayStep
-------------------------------------------------------------------------------
(* From the answer back to the call.                                       *)

USE DEF Posts, Tokens, NoToken, Goto

\* The handler of p goes on.
Moves(p) ==
  /\ \E s \in InHandler :
       /\ To(p, s)
       /\ \/ stage[p] = "read" /\ s = "handle"
          \/ /\ stage[p] = "handle" /\ s = "front"
             /\ kind[p] = "login" /\ right[p] /\ account[p] \in accounts
          \/ stage[p] \in {"front"} \cup Taking /\ s \in Taking
  /\ UNCHANGED <<accounts, kind, account, right, writing, waiting, reply, answer>>

\* The handler of p ends with the response r.
Responds(p, r) ==
  /\ stage[p] \in {"handle", "push"} /\ To(p, "served")
  /\ reply' = [reply EXCEPT ![p] = r]
  /\ writing' = writing \cup {p} /\ waiting' = waiting \cup {p}
  /\ \/ r \in Refusals /\ accounts' = accounts
     \/ /\ r \in {"registered", "error"} /\ kind[p] = "register"
        /\ accounts' = accounts \cup {account[p]}
     \/ r = "token" /\ stage[p] = "push" /\ pc[p] = "connect" /\ accounts' = accounts
  /\ UNCHANGED <<kind, account, right, answer>>

\* The client gets its answer, or nothing.
Ends(p) ==
  /\ writing' \subseteq writing /\ waiting' \subseteq waiting
  /\ \/ answer' = answer
     \/ /\ p \in writing \cup waiting /\ answer[p] = None
        /\ \E a \in {Failure, reply[p]} : answer' = [answer EXCEPT ![p] = a]
  /\ UNCHANGED <<accounts, kind, account, right, stage, reply>>

LEMMA GatewayEffects ==
  ASSUME GatewayTyped, NEW p \in Posts, GatewayStep(p)
  PROVE  Moves(p) \/ (\E r : Responds(p, r)) \/ Ends(p) \/ ReadFails(p) \/ Died
<1>1. CASE Read(p)
  BY <1>1 DEF Read, Moves, InHandler, requestVars
<1>2. CASE Register(p)
  BY <1>2 DEF Register, Responds, Respond, requestVars, Refusals
<1>3. CASE CheckPwd(p)
  BY <1>3 DEF CheckPwd, Responds, Respond, Moves, InHandler, requestVars, Refusals
<1>4. CASE Pop(p) \/ CallFails(p) \/ CallReturns(p)
  BY <1>4 DEF Pop, CallFails, CallReturns, Push, Moves, InHandler, Taking, requestVars
<1>5. CASE ReturnStub(p)
  BY <1>5 DEF ReturnStub, Responds, Respond, requestVars, Refusals
<1>6. CASE Transfer(p)
  BY <1>6 DEF Transfer, Ends, requestVars, sessionVars
<1>7. CASE Written(p)
  BY <1>7 DEF Written, Ends, requestVars
<1>8. CASE WriteFails(p) \/ Deadline(p)
  <2>1. p \in writing \cup waiting /\ answer' = [answer EXCEPT ![p] = IF answer[p] = None THEN Failure ELSE answer[p]]
    BY <1>8 DEF WriteFails, Deadline, close
  <2>2. \/ answer' = answer
        \/ answer[p] = None /\ answer' = [answer EXCEPT ![p] = Failure]
    BY <2>1 DEF GatewayTyped
  <2> QED
    BY <1>8, <2>1, <2>2 DEF WriteFails, Deadline, Ends, requestVars
<1>9. CASE GetFront(p) /\ ~Died
  BY <1>9 DEF GetFront, Moves, InHandler, Taking, requestVars
<1> QED
  BY <1>1, <1>2, <1>3, <1>4, <1>5, <1>6, <1>7, <1>8, <1>9 DEF GatewayStep

LEMMA RequestMoves ==
  ASSUME GatewayTyped, Request, NEW p \in Posts, Moves(p), UNCHANGED statusVars
  PROVE  Request'
<1> USE DEF Request, Moves, statusVars, To, Authentic, None
<1>1. TokenReturned' /\ CallForAccount' /\ TokenReplies' /\ RegisterReplies'
  BY DEF TokenReturned, CallForAccount, TokenReplies, RegisterReplies
<1>2. Unposted'
  BY DEF GatewayTyped, Unposted, Taking
<1>3. PastCheck'
  BY DEF GatewayTyped, PastCheck, Taking
<1>4. ServedLast'
  BY DEF GatewayTyped, ServedLast, Taking
<1> QED
  BY <1>1, <1>2, <1>3, <1>4

LEMMA RequestResponds ==
  ASSUME Inv, GatewayTyped, Request, NEW p \in Posts, NEW r, Responds(p, r), UNCHANGED statusVars
  PROVE  Request'
<1> USE DEF Request, Responds, statusVars, To, Authentic, None
<1>1. TokenReturned' /\ CallForAccount'
  BY DEF TokenReturned, CallForAccount
<1>2. Unposted'
  BY DEF GatewayTyped, Unposted
<1>3. PastCheck'
  BY DEF GatewayTyped, PastCheck, Taking
<1>4. r # None
  BY DEF Refusals
<1>5. answer[p] = None \/ stage[p] = "served"
  BY DEF ServedLast
<1>6. ServedLast'
  BY <1>4, <1>5 DEF GatewayTyped, ServedLast
<1>7. TokenReplies'
  <2>1. pc[p] = "connect" => token[p] \in returned /\ owner[token[p]] = uid[p] /\ uid[p] = account[p]
    BY DEF TokenReturned, CallForAccount, Inv, TokenOfCall
  <2>2. stage[p] = "push" => kind[p] = "login" /\ right[p] /\ account[p] \in accounts
    BY DEF PastCheck, Taking
  <2>3. accounts \subseteq accounts' /\ r \in Refusals \cup {"registered", "token"}
    BY DEF Refusals
  <2> QED
    BY <2>1, <2>2, <2>3 DEF GatewayTyped, TokenReplies, Refusals
<1>8. RegisterReplies'
  BY DEF GatewayTyped, RegisterReplies, Refusals
<1> QED
  BY <1>1, <1>2, <1>3, <1>6, <1>7, <1>8

LEMMA RequestEnds ==
  ASSUME GatewayTyped, Request, NEW p \in Posts, Ends(p), UNCHANGED statusVars
  PROVE  Request'
<1> USE DEF Request, Ends, statusVars, Authentic
<1>1. TokenReturned' /\ CallForAccount' /\ PastCheck' /\ TokenReplies' /\ RegisterReplies'
  BY DEF TokenReturned, CallForAccount, PastCheck, TokenReplies, RegisterReplies
<1>2. ServedLast'
  BY DEF GatewayTyped, ServedLast
<1>3. Unposted'
  BY DEF GatewayTyped, Unposted, ServedLast, None
<1> QED
  BY <1>1, <1>2, <1>3

LEMMA RequestReadFails ==
  ASSUME GatewayTyped, Request, NEW p \in Posts, ReadFails(p), UNCHANGED statusVars
  PROVE  Request'
<1> USE DEF Request, ReadFails, statusVars, requestVars, To, Authentic, None
<1>1. TokenReturned' /\ CallForAccount' /\ TokenReplies' /\ RegisterReplies'
  BY DEF TokenReturned, CallForAccount, TokenReplies, RegisterReplies
<1>2. Unposted' /\ PastCheck' /\ ServedLast'
  BY DEF GatewayTyped, Unposted, PastCheck, ServedLast, Taking
<1> QED
  BY <1>1, <1>2

LEMMA RequestDied ==
  ASSUME GatewayTyped, Request, Died, UNCHANGED statusVars
  PROVE  Request'
<1> USE DEF Request, Died, statusVars, requestVars, Authentic, None
<1>1. TokenReturned' /\ CallForAccount' /\ TokenReplies' /\ RegisterReplies'
  BY DEF TokenReturned, CallForAccount, TokenReplies, RegisterReplies
<1>2. Unposted' /\ PastCheck'
  BY DEF GatewayTyped, Unposted, PastCheck, Taking
<1>3. ServedLast'
  BY DEF GatewayTyped, ServedLast
<1> QED
  BY <1>1, <1>2, <1>3

LEMMA RequestPost ==
  ASSUME GatewayTyped, Request, NEW p \in Posts, NEW k \in {"register", "login"}, NEW u \in Users,
         NEW r \in BOOLEAN, Post(p, k, u, r), UNCHANGED statusVars
  PROVE  Request'
<1>1. /\ kind[p] = None /\ kind' = [kind EXCEPT ![p] = k]
      /\ account' = [account EXCEPT ![p] = u] /\ right' = [right EXCEPT ![p] = r]
      /\ UNCHANGED <<accounts, writing, waiting, reply, session_, pc, uid, token, owner, returned>>
      /\ \/ stage' = [stage EXCEPT ![p] = "read"] /\ answer' = answer
         \/ stage' = [stage EXCEPT ![p] = "served"] /\ answer' = [answer EXCEPT ![p] = Failure]
  BY DEF Post, statusVars, To
<1>2. stage[p] = None /\ pc[p] = "idle" /\ reply[p] = None /\ answer[p] = None
      /\ p \notin writing \cup waiting
  BY <1>1 DEF Request, Unposted, ServedLast, None
<1> USE DEF Request, Authentic, None
<1>3. TokenReturned' /\ CallForAccount'
  BY <1>1, <1>2 DEF GatewayTyped, TokenReturned, CallForAccount
<1>4. Unposted'
  BY <1>1, <1>2 DEF GatewayTyped, Unposted
<1>5. PastCheck'
  BY <1>1, <1>2 DEF GatewayTyped, PastCheck, Taking
<1>6. ServedLast'
  BY <1>1, <1>2 DEF GatewayTyped, ServedLast
<1>7. TokenReplies' /\ RegisterReplies'
  BY <1>1, <1>2 DEF GatewayTyped, TokenReplies, RegisterReplies
<1> QED
  BY <1>3, <1>4, <1>5, <1>6, <1>7

LEMMA RequestCallBegins ==
  ASSUME Inv, GatewayTyped, Request, NEW p \in Posts, CallBegins(p)
  PROVE  Request'
<1>1. /\ stage[p] = "call" /\ stage' = [stage EXCEPT ![p] = "rpc"]
      /\ pc[p] = "idle" /\ pc' = [pc EXCEPT ![p] = "read"]
      /\ uid' = [uid EXCEPT ![p] = account[p]]
      /\ UNCHANGED <<accounts, kind, account, right, writing, waiting, reply, answer, token, owner,
                     returned>>
  BY DEF CallBegins, To, GetChartServer, requestVars, statusVars, Goto
<1>2. pc \in [Posts -> PCs] /\ uid \in [Posts -> Users]
  BY DEF Inv, Typed
<1>3. reply[p] = None /\ answer[p] = None
  BY <1>1 DEF Request, ServedLast
<1> USE DEF Request, Authentic, None
<1>4. TokenReturned' /\ CallForAccount'
  BY <1>1, <1>2 DEF TokenReturned, CallForAccount
<1>5. Unposted' /\ PastCheck'
  BY <1>1, <1>2 DEF GatewayTyped, Unposted, PastCheck, Taking
<1>6. ServedLast'
  BY <1>1 DEF GatewayTyped, ServedLast
<1>7. TokenReplies' /\ RegisterReplies'
  BY <1>1, <1>2, <1>3 DEF TokenReplies, RegisterReplies
<1> QED
  BY <1>4, <1>5, <1>6, <1>7

\* A step of the StatusServer or of a chat server for a call under way.
LEMMA RequestStatusStep ==
  ASSUME Inv, GatewayTyped, Request, NEW c \in Posts,
         \/ ReadFirst(c) \/ Choose(c) \/ InsertToken(c)
         \/ Login(c) \/ LoginFails(c) \/ (\E s : CountLoginAt(c, s)),
         UNCHANGED gatewayVars
  PROVE  Request'
<1>1. UNCHANGED <<accounts, kind, account, right, stage, writing, waiting, reply, answer, uid>>
  BY DEF gatewayVars, requestVars, sessionVars, ReadFirst, Choose, InsertToken, Login, LoginFails,
     CountLoginAt
<1>2. \/ /\ pc[c] = "read" /\ pc' = [pc EXCEPT ![c] = "choose"]
         /\ UNCHANGED <<token, owner, returned>>
      \/ /\ pc[c] = "choose" /\ pc' = [pc EXCEPT ![c] = "insert"]
         /\ issued + 1 <= MaxTokens
         /\ token' = [token EXCEPT ![c] = issued + 1]
         /\ owner' = [owner EXCEPT ![issued + 1] = uid[c]]
         /\ returned' = returned
      \/ /\ pc[c] = "insert" /\ pc' = [pc EXCEPT ![c] = "connect"]
         /\ returned' = returned \cup {token[c]}
         /\ UNCHANGED <<token, owner>>
      \/ /\ pc[c] \in {"connect", "count"} /\ pc' = [pc EXCEPT ![c] = "count"]
         /\ UNCHANGED <<token, owner, returned>>
      \/ /\ pc[c] \in {"connect", "count"} /\ pc' = [pc EXCEPT ![c] = "idle"]
         /\ UNCHANGED <<token, owner, returned>>
  <2>1. issued \in Nat /\ MaxTokens \in Nat
    BY ConstantAssumption DEF ConstantAssumption, Inv, Typed
  <2> QED
    BY <2>1 DEF ReadFirst, Choose, InsertToken, Login, LoginFails, CountLoginAt
<1>3. /\ pc \in [Posts -> PCs] /\ token \in [Posts -> Tokens \cup {0}]
      /\ owner \in [Tokens -> Users] /\ issued \in Nat
      /\ returned \subseteq 1 .. issued /\ returned \subseteq Tokens
  BY ConstantAssumption DEF ConstantAssumption, Inv, Typed, TokensIssued
<1> USE DEF Request
<1>4. TokenReturned'
  BY <1>2, <1>3 DEF TokenReturned
<1>5. Unposted' /\ CallForAccount'
  BY <1>1, <1>2, <1>3 DEF Unposted, CallForAccount
<1>6. PastCheck' /\ ServedLast' /\ RegisterReplies'
  BY <1>1 DEF PastCheck, ServedLast, RegisterReplies
<1>7. TokenReplies'
  <2> SUFFICES ASSUME NEW q \in Posts, reply[q] = "token"
               PROVE  Authentic(q)' /\ pc'[q] \in {"connect", "count", "idle"}
    BY <1>1 DEF TokenReplies
  <2>1. Authentic(q) /\ pc[q] \in {"connect", "count", "idle"}
    BY DEF TokenReplies
  <2>2. pc'[q] \in {"connect", "count", "idle"}
    BY <1>2, <1>3, <2>1
  <2>3. token[q] \in 1 .. issued /\ token'[q] = token[q]
    <3>1. token[q] \in 1 .. issued
      BY <1>3, <2>1 DEF Authentic
    <3>2. token' = token \/ (c # q /\ token' = [token EXCEPT ![c] = issued + 1])
      BY <1>2, <2>1
    <3> QED
      BY <1>3, <3>1, <3>2
  <2>4. owner'[token[q]] = owner[token[q]] /\ returned \subseteq returned'
    <3>1. owner' = owner \/ owner' = [owner EXCEPT ![issued + 1] = uid[c]]
      BY <1>2
    <3>2. token[q] # issued + 1 /\ token[q] \in Tokens
      BY <1>3, <2>1, <2>3 DEF Authentic
    <3>3. returned \subseteq returned'
      BY <1>2
    <3> QED
      BY <1>3, <3>1, <3>2, <3>3
  <2> QED
    BY <1>1, <2>1, <2>2, <2>3, <2>4 DEF Authentic
<1> QED
  BY <1>4, <1>5, <1>6, <1>7
-------------------------------------------------------------------------------
(* The client.                                                             *)

\* What is known of a request stays so.
Kept ==
  /\ accounts \subseteq accounts'
  /\ \A p \in Posts :
       /\ kind[p] # None => kind'[p] = kind[p] /\ account'[p] = account[p]
       /\ reply[p] # None => reply'[p] = reply[p]
       /\ answer[p] # None => answer'[p] = answer[p]

LEMMA GatewayKeeps ==
  ASSUME GatewayTyped, Request, NEW p \in Posts, GatewayStep(p)
  PROVE  Kept
<1>1. CASE Moves(p)
  BY <1>1 DEF Moves, Kept
<1>2. ASSUME NEW r, Responds(p, r) PROVE Kept
  <2>1. reply[p] = None
    BY <1>2 DEF Responds, Request, ServedLast
  <2> QED
    BY <1>2, <2>1 DEF GatewayTyped, Responds, Kept
<1>3. CASE Ends(p)
  BY <1>3 DEF GatewayTyped, Ends, Kept
<1>4. CASE ReadFails(p)
  <2>1. answer[p] = None
    BY <1>4 DEF ReadFails, Request, ServedLast
  <2> QED
    BY <1>4, <2>1 DEF GatewayTyped, ReadFails, requestVars, Kept
<1>5. CASE Died
  BY <1>5 DEF GatewayTyped, Died, requestVars, Kept
<1> QED
  BY <1>1, <1>2, <1>3, <1>4, <1>5, GatewayEffects

LEMMA PostKeeps ==
  ASSUME GatewayTyped, Request, NEW p \in Posts, NEW k \in {"register", "login"}, NEW u \in Users,
         NEW r \in BOOLEAN, Post(p, k, u, r)
  PROVE  Kept /\ kind[p] = None /\ kind'[p] = k
<1>1. kind[p] = None /\ reply[p] = None /\ answer[p] = None
  BY DEF Post, Request, Unposted
<1>2. kind' = [kind EXCEPT ![p] = k] /\ account' = [account EXCEPT ![p] = u]
      /\ reply' = reply /\ accounts' = accounts
      /\ (answer' = answer \/ answer' = [answer EXCEPT ![p] = Failure])
  BY DEF Post
<1> QED
  BY <1>1, <1>2 DEF GatewayTyped, Kept

\* A login that got a token is authentic, and has its response.
LEMMA TokenAnswer ==
  ASSUME Request, NEW p \in Posts
  PROVE  /\ answer[p] = "token" => Authentic(p)
         /\ answer[p] = "registered" => reply[p] = "registered"
  BY DEF Request, ServedLast, TokenReplies, None, Failure

LEMMA ClientTypedStep ==
  ASSUME ClientTyped, CountsTyped, GatewayTyped, ConnOfLogin,
         ClientStep \/ (\E p \in Posts : PostStep(p)) \/ ServerLogin \/ UNCHANGED clientVars
  PROVE  ClientTyped'
<1> USE DEF ClientTyped
<1>1. CASE UNCHANGED clientVars
  BY <1>1 DEF clientVars, tcpVars
<1>2. CASE OpenRegister \/ CloseRegister
  <2> DEFINE Regs == [open : BOOLEAN, btn : BOOLEAN,
                     hint : Replies \cup {None, Failure, "asking"},
                     timer : BOOLEAN, edited : BOOLEAN, asked : BOOLEAN]
  <2>1. Closed \in Regs
    BY DEF Closed
  <2>2. reg' = Closed \/ reg' = [Closed EXCEPT !.open = TRUE]
    BY <1>2 DEF OpenRegister, CloseRegister
  <2>3. reg' \in Regs
    BY <2>1, <2>2
  <2>4. /\ visible' \in BOOLEAN /\ strayed' \in BOOLEAN
        /\ UNCHANGED <<pending, userInfo, tcp, conn, chatWindows, overtaken>>
    BY <1>2 DEF OpenRegister, CloseRegister, tcpVars
  <2> QED
    BY <2>3, <2>4
<1>3. ASSUME NEW e \in BOOLEAN, Edit(e) \/ onTimerout PROVE ClientTyped'
  <2>1. UNCHANGED <<visible, pending, userInfo, tcp, conn, chatWindows, overtaken, strayed>>
    BY <1>3 DEF Edit, onTimerout, tcpVars
  <2>2. reg' \in [open : BOOLEAN, btn : BOOLEAN,
                  hint : Replies \cup {None, Failure, "asking"},
                  timer : BOOLEAN, edited : BOOLEAN, asked : BOOLEAN]
    BY ZenonT(30), <1>3 DEF Edit, onTimerout
  <2> QED
    BY <2>1, <2>2
<1>4. CASE Connected
  <2>1. conn' \in [login : Posts \cup {NoLogin}, at : Servers,
                   is : {None, "sent", "count", "accepted", "refused"}]
    BY <1>4 DEF Connected
  <2> QED
    BY <1>4, <2>1 DEF Connected
<1>5. CASE ConnectFails \/ Disconnected
  <2>1. 1 \in Servers
    BY ConstantAssumption DEF ConstantAssumption, Servers
  <2> QED
    BY <1>5, <2>1 DEF ConnectFails, Disconnected, NoConn
<1>6. CASE LoginReply
  <2>1. conn.login \in Posts
    BY <1>6 DEF LoginReply, ConnOfLogin, None
  <2> QED
    BY <1>6, <2>1 DEF LoginReply
<1>7. ASSUME NEW p \in Posts, HandleLogin(p) PROVE ClientTyped'
  <2>1. [NoConn EXCEPT !.at = chosen[p]] = [login |-> NoLogin, at |-> chosen[p], is |-> None]
    BY DEF NoConn
  <2>2. chosen[p] \in Servers
    BY DEF CountsTyped
  <2>3. conn' \in [login : Posts \cup {NoLogin}, at : Servers,
                   is : {None, "sent", "count", "accepted", "refused"}]
    BY <1>7, <2>1, <2>2 DEF HandleLogin
  <2>4. userInfo' \in Posts \cup {NoLogin} /\ tcp' \in {"Unconnected", "Connecting", "Connected"}
        /\ overtaken' \in BOOLEAN
    BY <1>7 DEF HandleLogin
  <2> QED
    BY <1>7, <2>3, <2>4 DEF HandleLogin
<1>8. ASSUME NEW p \in Posts, HandleRegister(p) PROVE ClientTyped'
  <2>1. reg' \in [open : BOOLEAN, btn : BOOLEAN,
                  hint : Replies \cup {None, Failure, "asking"},
                  timer : BOOLEAN, edited : BOOLEAN, asked : BOOLEAN]
    BY <1>8 DEF HandleRegister, GatewayTyped
  <2> QED
    BY <1>8, <2>1 DEF HandleRegister, tcpVars
<1>9. ASSUME NEW p \in Posts, PostStep(p) PROVE ClientTyped'
  <2>1. CASE \E u \in Users, r \in BOOLEAN : ClickLogin(p, u, r)
    BY <2>1 DEF ClickLogin, tcpVars
  <2>2. CASE \E u \in Users : onRegister(p, u)
    <3>1. reg' \in [open : BOOLEAN, btn : BOOLEAN,
                    hint : Replies \cup {None, Failure, "asking"},
                    timer : BOOLEAN, edited : BOOLEAN, asked : BOOLEAN]
      BY <2>2 DEF onRegister
    <3> QED
      BY <2>2, <3>1 DEF onRegister, tcpVars
  <2> QED
    BY <1>9, <2>1, <2>2 DEF PostStep
<1>10. CASE ServerLogin
  <2>1. \E is \in {"count", "refused", "accepted"} : conn' = [conn EXCEPT !.is = is]
    BY <1>10 DEF ServerLogin
  <2>2. conn' \in [login : Posts \cup {NoLogin}, at : Servers,
                   is : {None, "sent", "count", "accepted", "refused"}]
    BY <2>1
  <2> QED
    BY <1>10, <2>2 DEF ServerLogin
<1> QED
  BY <1>1, <1>2, <1>3, <1>4, <1>5, <1>6, <1>7, <1>8, <1>9, <1>10 DEF ClientStep

LEMMA ConnOfLoginStep ==
  ASSUME ClientTyped, GatewayTyped, ConnOfLogin, Kept,
         ClientStep \/ (\E p \in Posts : PostStep(p)) \/ ServerLogin \/ UNCHANGED clientVars
  PROVE  ConnOfLogin'
<1>1. \A p \in Posts : answer[p] = "token" => answer'[p] = "token"
  BY DEF Kept, None
<1> USE DEF ConnOfLogin, None
<1>2. CASE UNCHANGED <<userInfo, tcp, conn, chatWindows, overtaken>>
  BY <1>1, <1>2 DEF ClientTyped
<1>3. CASE Connected
  BY <1>1, <1>3 DEF ClientTyped, Connected
<1>4. CASE ConnectFails \/ Disconnected
  BY <1>1, <1>4 DEF ClientTyped, ConnectFails, Disconnected, NoConn
<1>5. CASE LoginReply
  BY <1>1, <1>5 DEF ClientTyped, LoginReply
<1>6. ASSUME NEW p \in Posts, HandleLogin(p) PROVE ConnOfLogin'
  <2>1. [NoConn EXCEPT !.at = chosen[p]].is = None
    BY DEF NoConn
  <2>2. CASE answer[p] = "token"
    <3>1. userInfo' = p /\ answer'[p] = "token" /\ chatWindows' = chatWindows
      BY <1>1, <1>6, <2>2 DEF HandleLogin
    <3>2. CASE tcp = "Unconnected"
      <4>1. tcp' = "Connecting" /\ conn'.is = None
        BY <1>6, <2>1, <2>2, <3>2 DEF HandleLogin
      <4> QED
        BY <1>1, <3>1, <4>1 DEF ClientTyped
    <3>3. CASE tcp # "Unconnected"
      <4>1. tcp' = tcp /\ conn' = conn /\ overtaken' = (overtaken \/ conn.is # None)
        BY <1>6, <2>2, <3>3 DEF HandleLogin
      <4> QED
        BY <1>1, <3>1, <4>1 DEF ClientTyped
    <3> QED
      BY <3>2, <3>3
  <2>3. CASE answer[p] # "token"
    BY <1>2, <1>6, <2>3 DEF HandleLogin
  <2> QED
    BY <2>2, <2>3
<1>7. CASE ServerLogin
  <2>1. /\ conn.is # None /\ \E is \in {"count", "refused", "accepted"} : conn' = [conn EXCEPT !.is = is]
        /\ UNCHANGED <<userInfo, tcp, chatWindows, overtaken>>
    BY <1>7 DEF ServerLogin
  <2>2. conn'.login = conn.login
    BY <2>1 DEF ClientTyped
  <2> QED
    BY <1>1, <2>1, <2>2 DEF ClientTyped
<1>8. OpenRegister \/ CloseRegister \/ (\E e \in BOOLEAN : Edit(e)) \/ onTimerout
      \/ (\E p \in Posts : HandleRegister(p) \/ PostStep(p)) \/ UNCHANGED clientVars
      => UNCHANGED <<userInfo, tcp, conn, chatWindows, overtaken>>
  BY DEF OpenRegister, CloseRegister, Edit, onTimerout, HandleRegister, PostStep, ClickLogin,
     onRegister, clientVars, tcpVars
<1> QED
  BY <1>2, <1>3, <1>4, <1>5, <1>6, <1>7, <1>8 DEF ClientStep

LEMMA AskedStep ==
  ASSUME ClientTyped, GatewayTyped, Request, Asked, Kept,
         \/ ClientStep
         \/ (\E p \in Posts, k \in {"register", "login"}, u \in Users, r \in BOOLEAN :
               PostStep(p) /\ Post(p, k, u, r))
         \/ ServerLogin \/ UNCHANGED clientVars
  PROVE  Asked'
<1> DEFINE Said(p) == kind[p] = "register" /\ reply[p] = "registered" /\ account[p] \in accounts
<1>1. \A p \in Posts : (kind[p] # None => kind'[p] = kind[p]) /\ (Said(p) => Said(p)')
  BY DEF Kept, None
<1>2. /\ \A p \in pending : p \in Posts /\ kind[p] # None
                            /\ (kind[p] = "register" /\ ~strayed => reg.open /\ reg.asked)
      /\ reg.timer => reg.edited
      /\ reg.hint = "registered" /\ ~strayed => reg.asked /\ \E p \in Posts \ pending : Said(p)
  BY DEF Asked, RegisterHintHolds, ClientTyped
<1>3. ASSUME /\ \A p \in pending' : kind'[p] # None
                                   /\ (kind'[p] = "register" /\ ~strayed' => reg'.open /\ reg'.asked)
             /\ reg'.timer => reg'.edited
             /\ reg'.hint = "registered" /\ ~strayed' =>
                  reg'.asked /\ \E p \in Posts \ pending' : Said(p)'
      PROVE  Asked'
  BY <1>3 DEF Asked, RegisterHintHolds
<1> HIDE DEF Said
<1>4. CASE UNCHANGED <<pending, reg, strayed>>
  BY <1>1, <1>2, <1>3, <1>4
<1>5. CASE OpenRegister
  BY <1>1, <1>2, <1>3, <1>5 DEF OpenRegister, Closed, None
<1>6. CASE CloseRegister
  BY <1>1, <1>2, <1>3, <1>6 DEF ClientTyped, CloseRegister, Closed, None
<1>7. ASSUME NEW e \in BOOLEAN, Edit(e) PROVE Asked'
  BY <1>1, <1>2, <1>3, <1>7 DEF ClientTyped, Edit, None
<1>8. CASE onTimerout
  BY <1>1, <1>2, <1>3, <1>8 DEF ClientTyped, onTimerout, None
<1>9. ASSUME NEW p \in Posts, HandleRegister(p) PROVE Asked'
  <2>1. p \in pending /\ kind[p] = "register" /\ pending' = pending \ {p} /\ strayed' = strayed
    BY <1>9 DEF HandleRegister
  <2>2. CASE ~reg.open
    <3>1. reg' = reg
      BY <1>9, <2>2 DEF HandleRegister
    <3> QED
      BY <1>1, <1>2, <1>3, <2>1, <3>1
  <2>3. CASE reg.open
    <3>1. reg' = [reg EXCEPT !.hint = answer[p]]
      BY <1>9, <2>3 DEF HandleRegister
    <3>2. /\ reg'.hint = answer[p] /\ reg'.open = reg.open /\ reg'.asked = reg.asked
          /\ reg'.timer = reg.timer /\ reg'.edited = reg.edited
      BY <3>1 DEF ClientTyped
    <3>3. answer[p] = "registered" => Said(p)
      BY <2>1, TokenAnswer DEF Request, RegisterReplies, Said
    <3>4. p \in Posts \ pending'
      BY <2>1
    <3>5. reg'.hint = "registered" => \E q \in Posts \ pending' : Said(q)'
      BY <1>1, <3>2, <3>3, <3>4
    <3> QED
      BY <1>1, <1>2, <1>3, <2>1, <3>2, <3>5
  <2> QED
    BY <2>2, <2>3
<1>10. ASSUME NEW p \in Posts, HandleLogin(p) PROVE Asked'
  <2>1. pending' = pending \ {p} /\ strayed' = strayed /\ reg' = reg /\ kind[p] = "login"
    BY <1>10 DEF HandleLogin
  <2> QED
    BY <1>1, <1>2, <1>3, <2>1
<1>11. ASSUME NEW p \in Posts, NEW k \in {"register", "login"}, NEW u \in Users, NEW r \in BOOLEAN,
              PostStep(p), Post(p, k, u, r)
       PROVE  Asked'
  <2>1. kind[p] = None /\ kind'[p] = k
    BY <1>11, PostKeeps
  <2>2. pending' = pending \cup {p} /\ strayed' = strayed
    BY <1>11 DEF PostStep, ClickLogin, onRegister
  <2>3. \A q \in Posts \ pending : Said(q) => q \in Posts \ pending'
    BY <2>1, <2>2 DEF Said, None
  <2>4. CASE \E v \in Users, w \in BOOLEAN : ClickLogin(p, v, w)
    <3>1. reg' = reg /\ kind'[p] = "login"
      BY <2>1, <2>4 DEF ClickLogin, Post, GatewayTyped
    <3> QED
      BY <1>1, <1>2, <1>3, <2>2, <2>3, <3>1 DEF None
  <2>5. CASE \E v \in Users : onRegister(p, v)
    <3>1. /\ reg.open /\ reg'.open = reg.open /\ reg'.asked = TRUE /\ reg'.timer = FALSE
          /\ reg'.hint = "asking"
      BY <2>5 DEF ClientTyped, onRegister
    <3> QED
      BY <1>1, <1>2, <1>3, <2>1, <2>2, <3>1 DEF None
  <2> QED
    BY <1>11, <2>4, <2>5 DEF PostStep
<1>12. Connected \/ ConnectFails \/ Disconnected \/ LoginReply \/ ServerLogin \/ UNCHANGED clientVars
       => UNCHANGED <<pending, reg, strayed>>
  BY DEF Connected, ConnectFails, Disconnected, LoginReply, ServerLogin, clientVars
<1> QED
  BY <1>4, <1>5, <1>6, <1>7, <1>8, <1>9, <1>10, <1>11, <1>12 DEF ClientStep
LEMMA LoginInvInit == LoginInit => LoginInv
<1> SUFFICES ASSUME LoginInit PROVE LoginInv
  OBVIOUS
<1>1. GatewayInit /\ Init
  BY DEF LoginInit, GatewayInit
<1>2. Inv /\ CountsTyped /\ GatewayTyped /\ StubTaken
  BY <1>1, InvInit, CountsTypedInit, GatewayTypedInit
<1>3. ClientTyped
  <2>1. 1 \in Servers
    BY ConstantAssumption DEF ConstantAssumption, Servers
  <2>2. NoConn \in [login : Posts \cup {NoLogin}, at : Servers,
                    is : {None, "sent", "count", "accepted", "refused"}]
    BY <2>1 DEF NoConn
  <2>3. Closed \in [open : BOOLEAN, btn : BOOLEAN,
                    hint : Replies \cup {None, Failure, "asking"},
                    timer : BOOLEAN, edited : BOOLEAN, asked : BOOLEAN]
    BY DEF Closed
  <2> QED
    BY <2>2, <2>3 DEF LoginInit, ClientTyped
<1>4. Request
  BY <1>1 DEF GatewayInit, Init, Request, TokenReturned, Unposted, PastCheck, CallForAccount,
     ServedLast, TokenReplies, RegisterReplies, Taking, None
<1>5. ConnOfLogin /\ Asked
  BY DEF LoginInit, ConnOfLogin, Asked, RegisterHintHolds, NoConn, Closed, None
<1> QED
  BY <1>2, <1>3, <1>4, <1>5 DEF LoginInv, LoginTyped

LEMMA PostStepPosts ==
  ASSUME NEW p \in Posts, PostStep(p)
  PROVE  \E k \in {"register", "login"}, u \in Users, r \in BOOLEAN : Post(p, k, u, r)
  BY DEF PostStep, ClickLogin, onRegister

\* What a step does to the requests.
LEMMA RequestStep ==
  ASSUME LoginInv, [LoginNext]_loginVars
  PROVE  GatewayTyped' /\ StubTaken' /\ Request' /\ Kept
<1> USE DEF LoginInv, LoginTyped
<1>1. ASSUME UNCHANGED gatewayVars PROVE GatewayTyped' /\ StubTaken' /\ Kept
  <2>1. GatewayTyped' /\ StubTaken'
    BY <1>1 DEF gatewayVars, requestVars, sessionVars, stubVars, GatewayTyped, StubTaken
  <2>2. UNCHANGED <<accounts, kind, account, reply, answer>>
    BY <1>1 DEF gatewayVars, requestVars
  <2>3. Kept
    BY <2>2 DEF Kept
  <2> QED
    BY <2>1, <2>3
<1>2. ASSUME UNCHANGED gatewayVars, UNCHANGED statusVars PROVE Request'
  BY <1>2 DEF gatewayVars, requestVars, sessionVars, statusVars, Request, TokenReturned, Unposted,
     PastCheck, CallForAccount, ServedLast, TokenReplies, Authentic, RegisterReplies
<1>3. ASSUME NEW p \in Posts, PostStep(p), UNCHANGED statusVars
      PROVE  GatewayTyped' /\ StubTaken' /\ Request' /\ Kept
  BY <1>3, PostStepPosts, GatewayTypedPost, RequestPost, PostKeeps
<1>4. ASSUME ServerLogin, UNCHANGED gatewayVars PROVE Request'
  <2>1. conn.login \in Posts
    BY <1>4, ServerLoginIsStatusStep
  <2>2. PICK c \in Posts : c = conn.login
    BY <2>1
  <2>3. Login(c) \/ LoginFails(c) \/ \E s : CountLoginAt(c, s)
    BY <1>4, <2>2 DEF ServerLogin
  <2> QED
    BY <1>4, <2>3, RequestStatusStep
<1>5. ASSUME NEW p \in Posts, GatewayStep(p), UNCHANGED statusVars
      PROVE  GatewayTyped' /\ StubTaken' /\ Request' /\ Kept
  <2>1. GatewayTyped' /\ StubTaken' /\ Kept
    BY <1>5, GatewayTypedStep, GatewayKeeps
  <2>2. Request'
    BY <1>5, GatewayEffects, RequestMoves, RequestResponds, RequestEnds, RequestReadFails, RequestDied
  <2> QED
    BY <2>1, <2>2
<1>6. ASSUME NEW p \in Posts, CallBegins(p)
      PROVE  GatewayTyped' /\ StubTaken' /\ Request' /\ Kept
  <2>1. Request'
    BY <1>6, RequestCallBegins
  <2>2. /\ stage[p] = "call" /\ To(p, "rpc")
        /\ UNCHANGED <<up, accounts, kind, account, right, context, index_, socket_, writing,
                       waiting, reply, answer, stubs_, stub, overlapped>>
    BY <1>6 DEF CallBegins, requestVars, stubVars
  <2>3. GatewayTyped' /\ StubTaken'
    BY <2>2 DEF To, GatewayTyped, InHandler, StubTaken, Taking
  <2>4. Kept
    BY <2>2 DEF Kept
  <2> QED
    BY <2>1, <2>3, <2>4
<1>7. ASSUME NEW p \in Posts, ReadFirst(p) \/ Choose(p) \/ InsertToken(p), UNCHANGED gatewayVars
      PROVE  Request'
  BY <1>7, RequestStatusStep
<1>8. UNCHANGED loginVars => UNCHANGED gatewayVars /\ UNCHANGED statusVars
  BY DEF loginVars
<1> HIDE DEF LoginInv, LoginTyped
<1> QED
  BY <1>1, <1>2, <1>3, <1>4, <1>5, <1>6, <1>7, <1>8, StepKinds

LEMMA LoginInvNext == LoginInv /\ [LoginNext]_loginVars => LoginInv'
<1> SUFFICES ASSUME LoginInv, [LoginNext]_loginVars PROVE LoginInv'
  OBVIOUS
<1>1. Inv' /\ CountsTyped'
  BY StatusInv DEF LoginInv
<1>2. GatewayTyped' /\ StubTaken' /\ Request' /\ Kept
  BY RequestStep
<1>3. \/ ClientStep
      \/ (\E p \in Posts, k \in {"register", "login"}, u \in Users, r \in BOOLEAN :
            PostStep(p) /\ Post(p, k, u, r))
      \/ ServerLogin \/ UNCHANGED clientVars
  <2>1. UNCHANGED loginVars => UNCHANGED clientVars
    BY DEF loginVars
  <2> QED
    BY <2>1, StepKinds, PostStepPosts
<1>4. ClientTyped /\ CountsTyped /\ GatewayTyped /\ Request /\ ConnOfLogin /\ Asked
  BY DEF LoginInv, LoginTyped
<1>5. ClientTyped'
  BY <1>3, <1>4, ClientTypedStep
<1>6. ConnOfLogin'
  BY <1>2, <1>3, <1>4, ConnOfLoginStep
<1>7. Asked'
  BY <1>2, <1>3, <1>4, AskedStep
<1> QED
  BY <1>1, <1>2, <1>5, <1>6, <1>7 DEF LoginInv, LoginTyped

LEMMA LoginInvAlways == LoginSpec => []LoginInv
  BY LoginInvInit, LoginInvNext, PTL DEF LoginSpec

\* The state of client, gateway and StatusServer has its types: in particular the
\* index of the io_contexts wraps around, and the server connected to exists.
THEOREM LoginTypes == LoginSpec => []LoginTypeOK
<1>1. LoginInv => LoginTypeOK
  <2> SUFFICES ASSUME LoginInv PROVE LoginTypeOK
    OBVIOUS
  <2>1. TypeOK
    BY DEF LoginInv, LoginTyped, Inv, Typed, CountsTyped, TypeOK
  <2>2. GatewayTypeOK
    BY <2>1 DEF LoginInv, LoginTyped, GatewayTyped, GatewayTypeOK
  <2> QED
    BY <2>2 DEF LoginInv, LoginTyped, ClientTyped, LoginTypeOK
<1> QED
  BY <1>1, LoginInvAlways, PTL

\* However many requests are under way and answers overtake each other, a chat window
\* opens only for an account that exists, with its password and a token given out for
\* that user; and UserInfo names it unless a later answer changed it.
THEOREM ChatUsersAuthentic == LoginSpec => []ChatUserAuthentic
<1>1. LoginInv => ChatUserAuthentic
  <2> SUFFICES ASSUME LoginInv PROVE ChatUserAuthentic
    OBVIOUS
  <2>1. \A p \in chatWindows : p \in Posts /\ answer[p] = "token"
    BY DEF LoginInv, LoginTyped, ClientTyped, ConnOfLogin
  <2>2. \A p \in chatWindows : Authentic(p)
    BY <2>1, TokenAnswer DEF LoginInv
  <2>3. conn.is = "accepted" /\ ~overtaken => userInfo = conn.login
    BY DEF LoginInv, ConnOfLogin, None
  <2> QED
    BY <2>2, <2>3 DEF ChatUserAuthentic, Authentic
<1> QED
  BY <1>1, LoginInvAlways, PTL

\* The hint of the registration window is never wiped by the timer of an earlier one,
\* and says "registered" only for an account that is stored.
THEOREM RegisterHintsHold == LoginSpec => []RegisterHintHolds
<1>1. LoginInv => RegisterHintHolds
  BY DEF LoginInv, Asked
<1> QED
  BY <1>1, LoginInvAlways, PTL
-------------------------------------------------------------------------------
(* The stubs.  Two handlers are never on one context, so at most           *)
(* NCores - 1 hold a stub, and the queue has one for the handler that      *)
(* wants it.                                                               *)

\* Two handlers are never on one context.
Apart ==
  \A p, q \in Posts :
    p # q /\ stage[p] \in InHandler /\ stage[q] \in InHandler => context[p] # context[q]

Held == {p \in Posts : stub[p] # None}

\* The handlers between the two steps of GetStube, or of RetuenStube.
InQueue == {"pop", "push"}

\* No handler is between the two steps of GetStube: all stubs are in the queue or held.
QueueWhole ==
  /\ \A p \in Posts : stage[p] # "pop"
  /\ \A i \in 1 .. Len(stubs_) : stubs_[i] = "stub"
  /\ Len(stubs_) + Cardinality(Held) = NCores

\* The handler p is: the front of the queue is the place it has moved its stub from.
QueueMoved(p) ==
  /\ \A q \in Posts : stage[q] = "pop" <=> q = p
  /\ Len(stubs_) # 0 /\ stubs_[1] = "null"
  /\ \A i \in 2 .. Len(stubs_) : stubs_[i] = "stub"
  /\ Len(stubs_) + Cardinality(Held) = NCores + 1

StubQueue ==
  ~overlapped =>
    /\ up
    /\ \A p, q \in Posts : stage[p] \in InQueue /\ stage[q] \in InQueue => p = q
    /\ \A p \in Held : stub[p] = "stub" /\ stage[p] \in Taking
    /\ QueueWhole \/ \E p \in Posts : QueueMoved(p)

StubInv == Apart /\ StubQueue

Busy == {p \in Posts : stage[p] \in InHandler}

LEMMA BusyFew ==
  ASSUME GatewayTyped, Apart
  PROVE  IsFiniteSet(Busy) /\ Cardinality(Busy) <= NCores - 1
<1> DEFINE f == [p \in Busy |-> context[p]]
           T == 0 .. NContexts - 1
<1>1. NContexts - 1 \in Nat /\ NCores - 1 = (NContexts - 1) + 1
  BY CoresAssumption DEF NContexts
<1>2. IsFiniteSet(T) /\ Cardinality(T) = NCores - 1
  <2>1. PICK k \in Nat : k = NContexts - 1
    BY <1>1
  <2>2. 0 \in Int /\ k \in Int /\ ~(0 > k)
    OBVIOUS
  <2>3. IsFiniteSet(0 .. k) /\ Cardinality(0 .. k) = k - 0 + 1
    BY <2>2, FS_Interval
  <2> QED
    BY <1>1, <2>1, <2>3
<1>3. f \in Injection(Busy, T)
  <2>1. f \in [Busy -> T]
    BY DEF GatewayTyped, Busy
  <2>2. \A p, q \in Busy : f[p] = f[q] => p = q
    BY DEF Apart, Busy
  <2> QED
    BY <2>1, <2>2 DEF Injection, IsInjective
<1> HIDE DEF f, T
<1> QED
  BY <1>2, <1>3, FS_Injection

\* Those who hold a stub are busy, and there is room for one more.
LEMMA HeldFew ==
  ASSUME GatewayTyped, Apart, ~overlapped, StubQueue, NEW p \in Posts
  PROVE  /\ IsFiniteSet(Held) /\ Cardinality(Held) \in Nat
         /\ p \notin Held /\ stage[p] \in InHandler => Cardinality(Held) <= NCores - 2
<1>1. IsFiniteSet(Busy) /\ Cardinality(Busy) <= NCores - 1 /\ Cardinality(Busy) \in Nat
  BY BusyFew, FS_CardinalityType
<1>2. Held \subseteq Busy
  BY DEF StubQueue, Held, Busy, Taking, InHandler
<1>3. IsFiniteSet(Held) /\ Cardinality(Held) \in Nat
  BY <1>1, <1>2, FS_Subset, FS_CardinalityType
<1>4. ASSUME p \notin Held, stage[p] \in InHandler PROVE Cardinality(Held) <= NCores - 2
  <2>1. IsFiniteSet(Busy \ {p}) /\ Cardinality(Busy \ {p}) = Cardinality(Busy) - 1
    BY <1>1, <1>4, FS_RemoveElement DEF Busy
  <2>2. Held \subseteq Busy \ {p}
    BY <1>2, <1>4
  <2>3. Cardinality(Held) <= Cardinality(Busy \ {p})
    BY <2>1, <2>2, FS_Subset
  <2>4. NCores \in Nat
    BY CoresAssumption
  <2> QED
    BY <1>1, <1>3, <2>1, <2>3, <2>4
<1> QED
  BY <1>3, <1>4

LEMMA StubInit == GatewayInit => StubInv
<1> SUFFICES ASSUME GatewayInit PROVE StubInv
  OBVIOUS
<1>1. Held = {}
  BY DEF GatewayInit, Held
<1>2. NCores \in Nat /\ Cardinality({}) = 0
  BY CoresAssumption, FS_EmptySet
<1>3. Len(stubs_) = NCores /\ \A i \in 1 .. Len(stubs_) : stubs_[i] = "stub"
  BY <1>2 DEF GatewayInit
<1>4. QueueWhole
  BY <1>1, <1>2, <1>3 DEF QueueWhole, GatewayInit, None
<1> QED
  BY <1>1, <1>4 DEF StubInv, Apart, StubQueue, GatewayInit, InHandler, InQueue, None

\* A step that is none of GetStube, RetuenStube and the end of the gateway.
StubQuiet ==
  /\ UNCHANGED <<up, stubs_, stub, overlapped>>
  /\ \A q \in Posts : /\ stage'[q] \in Taking <=> stage[q] \in Taking
                      /\ stage'[q] = "pop" <=> stage[q] = "pop"
                      /\ stage'[q] = "push" <=> stage[q] = "push"

LEMMA StubQueueQuiet == ASSUME StubQueue, StubQuiet PROVE StubQueue'
<1>1. Held' = Held
  BY DEF Held, StubQuiet
<1>2. QueueWhole => QueueWhole'
  BY <1>1 DEF QueueWhole, StubQuiet
<1>3. \A p \in Posts : QueueMoved(p) => QueueMoved(p)'
  BY <1>1 DEF QueueMoved, StubQuiet
<1>4. Held \subseteq Posts
  BY DEF Held
<1> QED
  BY <1>1, <1>2, <1>3, <1>4 DEF StubQueue, StubQuiet, InQueue

\* No handler but a new one comes on a context.
LEMMA ApartKept ==
  ASSUME Apart,
         \A q \in Posts : stage'[q] \in InHandler => stage[q] \in InHandler /\ context'[q] = context[q]
  PROVE  Apart'
  BY DEF Apart

LEMMA StubPost ==
  ASSUME GatewayTyped, Request, StubInv, NEW p \in Posts, NEW k \in {"register", "login"},
         NEW u \in Users, NEW r \in BOOLEAN, Post(p, k, u, r)
  PROVE  StubInv'
<1>1. stage[p] = None /\ UNCHANGED <<up, stubs_, stub, overlapped>>
  BY DEF Post, Request, Unposted, stubVars
<1>2. \A q \in Posts : IF q = p THEN stage'[q] \in {"read", "served"}
                       ELSE stage'[q] = stage[q] /\ context'[q] = context[q]
  BY DEF GatewayTyped, Post, To
<1>3. StubQuiet
  BY <1>1, <1>2 DEF StubQuiet, Taking, None
<1>4. Apart'
  BY <1>2, ApartKept DEF StubInv, InHandler
<1> QED
  BY <1>3, <1>4, StubQueueQuiet DEF StubInv

LEMMA StubRead == ASSUME GatewayTyped, StubInv, NEW p \in Posts, Read(p) PROVE StubInv'
<1>1. /\ stage[p] = "read" /\ stage' = [stage EXCEPT ![p] = "handle"] /\ context' = context
      /\ \A q \in Posts : context[q] = context[p] => stage[q] \notin InHandler
      /\ UNCHANGED <<up, stubs_, stub, overlapped>>
  BY DEF Read, Free, To, stubVars
<1>2. Apart'
  BY <1>1 DEF GatewayTyped, StubInv, Apart
<1>3. StubQuiet
  BY <1>1 DEF GatewayTyped, StubQuiet, Taking
<1> QED
  BY <1>2, <1>3, StubQueueQuiet DEF StubInv

LEMMA StubOthers ==
  ASSUME GatewayTyped, StubInv, NEW p \in Posts,
         \/ ReadFails(p) \/ Register(p) \/ CheckPwd(p) \/ Transfer(p)
         \/ Written(p) \/ WriteFails(p) \/ Deadline(p) \/ CallBegins(p)
  PROVE  StubInv'
<1>1. UNCHANGED <<context, up, stubs_, stub, overlapped>>
  BY DEF ReadFails, Register, CheckPwd, Transfer, Written, WriteFails, Deadline,
     CallBegins, Respond, requestVars, sessionVars, stubVars
<1>2. \/ stage' = stage
      \/ stage[p] \in {"read", "handle"} /\ To(p, "served")
      \/ stage[p] = "handle" /\ To(p, "front")
      \/ stage[p] = "call" /\ To(p, "rpc")
  BY DEF ReadFails, Register, CheckPwd, Transfer, Written, WriteFails, Deadline,
     CallBegins, Respond, sessionVars
<1>3. StubQuiet
  BY <1>1, <1>2 DEF GatewayTyped, StubQuiet, Taking, To
<1>4. Apart'
  <2>1. \A q \in Posts : stage'[q] \in InHandler => stage[q] \in InHandler
    BY <1>2 DEF GatewayTyped, To, InHandler
  <2> QED
    BY <1>1, <2>1, ApartKept DEF StubInv
<1> QED
  BY <1>3, <1>4, StubQueueQuiet DEF StubInv

\* RetuenStube, first half: no other handler uses the queue.
LEMMA StubPush ==
  ASSUME GatewayTyped, StubInv, NEW p \in Posts, stage[p] \in {"call", "rpc"}, Push(p)
  PROVE  StubInv'
<1>1. /\ stage' = [stage EXCEPT ![p] = "push"]
      /\ overlapped' = (overlapped \/ \E q \in Posts \ {p} : stage[q] \in InQueue)
      /\ UNCHANGED <<context, up, stubs_, stub>>
  BY DEF Push, To, Overlap, Using, InQueue
<1>2. Apart'
  <2>1. \A q \in Posts : stage'[q] \in InHandler => stage[q] \in InHandler
    BY <1>1 DEF GatewayTyped, InHandler
  <2> QED
    BY <1>1, <2>1, ApartKept DEF StubInv
<1>3. ASSUME ~overlapped' PROVE StubQueue'
  <2>1. /\ ~overlapped /\ stage[p] \notin InQueue
        /\ \A q \in Posts \ {p} : stage[q] \notin InQueue /\ stage'[q] = stage[q]
    <3>1. ~overlapped /\ \A q \in Posts \ {p} : stage[q] \notin InQueue
      BY <1>1, <1>3
    <3>2. \A q \in Posts \ {p} : stage'[q] = stage[q]
      BY <1>1 DEF GatewayTyped
    <3> QED
      BY <3>1, <3>2 DEF InQueue
  <2>2. \A q \in Posts : stage'[q] # "pop"
    BY <1>1, <2>1 DEF GatewayTyped, InQueue
  <2>3. QueueWhole /\ up /\ \A q \in Held : stub[q] = "stub" /\ stage[q] \in Taking
    BY <2>1 DEF StubInv, StubQueue, QueueMoved, InQueue
  <2>4. Held' = Held /\ QueueWhole'
    BY <1>1, <2>2, <2>3 DEF Held, QueueWhole
  <2>5. \A q \in Held' : stub'[q] = "stub" /\ stage'[q] \in Taking
    <3>1. stage'[p] \in Taking
      BY <1>1 DEF GatewayTyped, Taking
    <3> QED
      BY <1>1, <2>1, <2>3, <2>4, <3>1 DEF Held
  <2> QED
    BY <1>1, <2>1, <2>3, <2>4, <2>5 DEF StubQueue
<1> QED
  BY <1>2, <1>3 DEF StubInv, StubQueue

\* GetStube, first half: the queue is not empty and its front is a stub.
LEMMA StubGetFront == ASSUME GatewayTyped, StubInv, NEW p \in Posts, GetFront(p) PROVE StubInv'
<1>1. stage[p] = "front"
  BY DEF GetFront
<1>2. CASE stubs_ = <<>>
  <2>1. Died
    BY <1>2 DEF GetFront
  <2>2. Apart'
    BY <2>1, ApartKept DEF Died, StubInv, InHandler, None
  <2>3. overlapped
    <3> SUFFICES ASSUME ~overlapped PROVE FALSE
      OBVIOUS
    <3>1. Len(stubs_) = 0
      BY <1>2
    <3>2. p \notin Held
      BY <1>1 DEF StubInv, StubQueue, Taking
    <3>3. Cardinality(Held) \in Nat /\ Cardinality(Held) <= NCores - 2 /\ NCores \in Nat
      BY <1>1, <3>2, HeldFew, CoresAssumption DEF StubInv, InHandler
    <3> QED
      BY <3>1, <3>3 DEF StubInv, StubQueue, QueueWhole, QueueMoved
  <2>4. overlapped'
    BY <2>1, <2>3 DEF Died, stubVars
  <2> QED
    BY <2>2, <2>4 DEF StubInv, StubQueue
<1>3. CASE stubs_ # <<>>
  <2>1. /\ stage' = [stage EXCEPT ![p] = "pop"] /\ context' = context /\ up' = up
        /\ ~Using(p) => stub' = [stub EXCEPT ![p] = Head(stubs_)]
        /\ stubs_' = [stubs_ EXCEPT ![1] = "null"]
        /\ overlapped' = (overlapped \/ Using(p))
    BY <1>3 DEF GetFront, To, Overlap
  <2>2. Apart'
    <3>1. \A q \in Posts : stage'[q] \in InHandler => stage[q] \in InHandler
      BY <1>1, <2>1 DEF GatewayTyped, InHandler
    <3> QED
      BY <2>1, <3>1, ApartKept DEF StubInv
  <2>3. ASSUME ~overlapped' PROVE StubQueue'
    <3>1. ~overlapped /\ ~Using(p) /\ \A q \in Posts : stage[q] \notin InQueue
      BY <1>1, <2>1, <2>3 DEF Using, InQueue
    <3>2. /\ up /\ \A q \in Held : stub[q] = "stub" /\ stage[q] \in Taking
          /\ QueueWhole
      BY <3>1 DEF StubInv, StubQueue, QueueMoved, InQueue
    <3>3. /\ Len(stubs_) \in Nat \ {0} /\ Head(stubs_) = stubs_[1]
          /\ Len(stubs_') = Len(stubs_) /\ stubs_'[1] = "null"
          /\ \A i \in 2 .. Len(stubs_) : stubs_'[i] = stubs_[i]
      BY <1>3, <2>1, FrontMoved DEF GatewayTyped
    <3>4. Head(stubs_) = "stub" /\ \A i \in 2 .. Len(stubs_) : stubs_[i] = "stub"
      BY <3>2, <3>3 DEF QueueWhole
    <3>5. p \notin Held /\ Held' = Held \cup {p}
      <4>1. p \notin Held
        BY <1>1, <3>2 DEF Taking
      <4>2. \A q \in Posts : stub'[q] = IF q = p THEN "stub" ELSE stub[q]
        BY <2>1, <3>1, <3>4 DEF GatewayTyped
      <4> QED
        BY <4>1, <4>2 DEF Held, None
    <3>6. Cardinality(Held') = Cardinality(Held) + 1 /\ Cardinality(Held) \in Nat
      BY <3>1, <3>5, HeldFew, FS_AddElement DEF StubInv
    <3>7. Len(stubs_') + Cardinality(Held') = NCores + 1
      <4>1. Len(stubs_) + Cardinality(Held) = NCores
        BY <3>2 DEF QueueWhole
      <4> QED
        BY <3>3, <3>6, <4>1
    <3>8. \A q \in Posts : (stage'[q] = "pop" <=> q = p) /\ (stage'[q] \in InQueue => q = p)
      BY <2>1, <3>1 DEF GatewayTyped, InQueue
    <3>9. QueueMoved(p)'
      BY <3>3, <3>4, <3>7, <3>8 DEF QueueMoved
    <3>10. \A q \in Held' : stub'[q] = "stub" /\ stage'[q] \in Taking
      BY <2>1, <3>1, <3>2, <3>4, <3>5 DEF GatewayTyped, Taking, Held
    <3> QED
      BY <2>1, <3>2, <3>8, <3>9, <3>10 DEF StubQueue
  <2> QED
    BY <2>2, <2>3 DEF StubInv, StubQueue
<1> QED
  BY <1>2, <1>3

\* GetStube, second half: the place at the front goes.
LEMMA StubPop == ASSUME GatewayTyped, StubInv, NEW p \in Posts, Pop(p) PROVE StubInv'
<1>1. /\ stage[p] = "pop" /\ stage' = [stage EXCEPT ![p] = "call"]
      /\ ~Using(p) => stubs_' = IF stubs_ = <<>> THEN <<>> ELSE Tail(stubs_)
      /\ UNCHANGED <<context, up, stub, overlapped>>
  BY DEF Pop, To
<1>2. Apart'
  <2>1. \A q \in Posts : stage'[q] \in InHandler => stage[q] \in InHandler
    BY <1>1 DEF GatewayTyped, InHandler
  <2> QED
    BY <1>1, <2>1, ApartKept DEF StubInv
<1>3. ASSUME ~overlapped PROVE StubQueue'
  <2>0. ~Using(p) /\ \A q \in Posts : stage[q] \in InQueue => q = p
    BY <1>1, <1>3 DEF StubInv, StubQueue, Using, InQueue
  <2>1. /\ up /\ \A q \in Held : stub[q] = "stub" /\ stage[q] \in Taking
        /\ QueueMoved(p)
    BY <1>1, <1>3 DEF StubInv, StubQueue, QueueWhole, QueueMoved
  <2>2. Held' = Held /\ Held \subseteq Posts
    BY <1>1 DEF Held
  <2>3. stubs_ \in Seq({"stub", "null"}) /\ Len(stubs_) \in Nat \ {0} /\ stubs_ # <<>>
    <3>1. stubs_ \in Seq({"stub", "null"}) /\ Len(stubs_) # 0
      BY <2>1 DEF QueueMoved, GatewayTyped
    <3> QED
      BY <3>1, EmptySeq, LenProperties
  <2>4. /\ stubs_' = Tail(stubs_) /\ Len(stubs_') = Len(stubs_) - 1
        /\ \A i \in 1 .. Len(stubs_') : stubs_'[i] = stubs_[i + 1]
    BY <1>1, <2>0, <2>3, HeadTailProperties
  <2>5. \A i \in 1 .. Len(stubs_') : stubs_'[i] = "stub"
    <3>1. \A i \in 1 .. Len(stubs_') : i + 1 \in 2 .. Len(stubs_)
      BY <2>3, <2>4
    <3> QED
      BY <2>1, <2>4, <3>1 DEF QueueMoved
  <2>6. \A q \in Posts : stage'[q] \notin InQueue /\ (stage[q] \in Taking => stage'[q] \in Taking)
    BY <1>1, <2>0 DEF GatewayTyped, Taking, InQueue
  <2>7. Len(stubs_') + Cardinality(Held') = NCores
    <3>1. Cardinality(Held) \in Nat /\ NCores \in Nat
      BY <1>3, HeldFew, CoresAssumption DEF StubInv
    <3> QED
      BY <2>1, <2>2, <2>3, <2>4, <3>1 DEF QueueMoved
  <2>8. QueueWhole'
    BY <2>5, <2>6, <2>7 DEF QueueWhole, InQueue
  <2> QED
    BY <1>1, <2>1, <2>2, <2>6, <2>8 DEF StubQueue
<1> QED
  BY <1>1, <1>2, <1>3 DEF StubInv, StubQueue

\* RetuenStube, second half.
LEMMA StubReturn ==
  ASSUME GatewayTyped, StubTaken, StubInv, NEW p \in Posts, ReturnStub(p)
  PROVE  StubInv'
<1>1. /\ stage[p] = "push" /\ stage' = [stage EXCEPT ![p] = "served"]
      /\ ~Using(p) => stubs_' = Append(stubs_, stub[p])
      /\ stub' = [stub EXCEPT ![p] = None]
      /\ UNCHANGED <<context, up, overlapped>>
  BY DEF ReturnStub, Pushed, Respond, To
<1>2. Apart'
  <2>1. \A q \in Posts : stage'[q] \in InHandler => stage[q] \in InHandler
    BY <1>1 DEF GatewayTyped, InHandler
  <2> QED
    BY <1>1, <2>1, ApartKept DEF StubInv
<1>3. ASSUME ~overlapped PROVE StubQueue'
  <2>0. ~Using(p) /\ \A q \in Posts : stage[q] \in InQueue => q = p
    BY <1>1, <1>3 DEF StubInv, StubQueue, Using, InQueue
  <2>1. /\ up /\ \A q \in Held : stub[q] = "stub" /\ stage[q] \in Taking
        /\ QueueWhole
    BY <1>1, <1>3, <2>0 DEF StubInv, StubQueue, QueueMoved, InQueue
  <2>2. p \in Held /\ stub[p] = "stub"
    BY <1>1, <2>1 DEF StubTaken, Taking, Held
  <2>3. Held' = Held \ {p}
    BY <1>1 DEF GatewayTyped, Held
  <2>4. IsFiniteSet(Held) /\ Cardinality(Held) \in Nat /\ Cardinality(Held') = Cardinality(Held) - 1
        /\ NCores \in Nat
    BY <1>3, <2>2, <2>3, HeldFew, FS_RemoveElement, CoresAssumption DEF StubInv
  <2>5. /\ stubs_ \in Seq({"stub", "null"}) /\ Len(stubs_) \in Nat
        /\ Len(stubs_') = Len(stubs_) + 1
        /\ \A i \in 1 .. Len(stubs_) : stubs_'[i] = stubs_[i]
        /\ stubs_'[Len(stubs_) + 1] = "stub"
    <3>1. stubs_ \in Seq({"stub", "null"}) /\ "stub" \in {"stub", "null"}
      BY DEF GatewayTyped
    <3> QED
      BY <1>1, <2>0, <2>2, <3>1, AppendProperties, LenProperties
  <2>6. \A q \in Posts : stage'[q] \notin InQueue
    BY <1>1, <2>0 DEF GatewayTyped, InQueue
  <2>7. \A q \in Held' : stub'[q] = "stub" /\ stage'[q] \in Taking
    <3>1. \A q \in Held' : q \in Posts /\ q \in Held /\ q # p
      BY <2>3 DEF Held
    <3> QED
      BY <1>1, <2>1, <3>1 DEF GatewayTyped
  <2>8. QueueWhole'
    <3>1. \A i \in 1 .. Len(stubs_') : i \in 1 .. Len(stubs_) \/ i = Len(stubs_) + 1
      BY <2>5
    <3>2. \A i \in 1 .. Len(stubs_') : stubs_'[i] = "stub"
      BY <2>1, <2>5, <3>1 DEF QueueWhole
    <3>3. Len(stubs_') + Cardinality(Held') = NCores
      BY <2>1, <2>4, <2>5 DEF QueueWhole
    <3> QED
      BY <2>6, <3>2, <3>3 DEF QueueWhole, InQueue
  <2> QED
    BY <1>1, <2>1, <2>6, <2>7, <2>8 DEF StubQueue
<1> QED
  BY <1>1, <1>2, <1>3 DEF StubInv, StubQueue

\* The gateway dies of a null stub only when two handlers overlapped.
LEMMA StubCallDies ==
  ASSUME StubInv, StubTaken, NEW p \in Posts, stage[p] = "call", Died, stub[p] = "null"
  PROVE  StubInv'
<1>1. overlapped
  BY DEF StubInv, StubQueue, Held, None
<1>2. overlapped' = overlapped
  BY DEF Died, stubVars
<1>3. Apart'
  BY ApartKept DEF Died, StubInv, InHandler, None
<1> QED
  BY <1>1, <1>2, <1>3 DEF StubInv, StubQueue
LEMMA StubStep ==
  ASSUME LoginInv, StubInv, [LoginNext]_loginVars
  PROVE  StubInv'
<1>1. GatewayTyped /\ Request /\ StubTaken
  BY DEF LoginInv, LoginTyped
<1>2. ASSUME UNCHANGED <<stage, context, up, stubs_, stub, overlapped>> PROVE StubInv'
  <2>1. Apart'
    BY <1>2, ApartKept DEF StubInv
  <2>2. StubQuiet
    BY <1>2 DEF StubQuiet
  <2> QED
    BY <2>1, <2>2, StubQueueQuiet DEF StubInv
<1>3. UNCHANGED gatewayVars => UNCHANGED <<stage, context, up, stubs_, stub, overlapped>>
  BY DEF gatewayVars, sessionVars, stubVars
<1>4. UNCHANGED loginVars => UNCHANGED gatewayVars
  BY DEF loginVars
<1>5. ASSUME NEW p \in Posts, PostStep(p) PROVE StubInv'
  BY <1>1, <1>5, PostStepPosts, StubPost
<1>6. ASSUME NEW p \in Posts, GatewayStep(p) PROVE StubInv'
  BY <1>1, <1>6, StubRead, StubOthers, StubPush, StubGetFront, StubPop, StubReturn, StubCallDies
     DEF GatewayStep, CallFails, CallReturns
<1>7. ASSUME NEW p \in Posts, CallBegins(p) PROVE StubInv'
  BY <1>1, <1>7, StubOthers
<1> QED
  BY <1>2, <1>3, <1>4, <1>5, <1>6, <1>7, StepKinds

\* The stubs in the queue, counted.
LEMMA StubsCounted ==
  ASSUME GatewayTyped, StubInv, ~overlapped
  PROVE  Cardinality({i \in DOMAIN stubs_ : stubs_[i] = "stub"}) + Cardinality(Held) = NCores
<1>1. stubs_ \in Seq({"stub", "null"}) /\ Len(stubs_) \in Nat /\ DOMAIN stubs_ = 1 .. Len(stubs_)
  BY LenProperties DEF GatewayTyped
<1>2. PICK n \in Nat : n = Len(stubs_)
  BY <1>1
<1>3. CASE QueueWhole
  <2>1. {i \in DOMAIN stubs_ : stubs_[i] = "stub"} = 1 .. n
    BY <1>1, <1>2, <1>3 DEF QueueWhole
  <2>2. Cardinality(1 .. n) = n
    BY FS_Interval
  <2> QED
    BY <1>2, <1>3, <2>1, <2>2 DEF QueueWhole
<1>4. ASSUME NEW p \in Posts, QueueMoved(p)
      PROVE  Cardinality({i \in DOMAIN stubs_ : stubs_[i] = "stub"}) + Cardinality(Held) = NCores
  <2>1. {i \in DOMAIN stubs_ : stubs_[i] = "stub"} = 2 .. n
    <3>1. \A i \in 1 .. n : stubs_[i] = "stub" <=> i # 1
      BY <1>2, <1>4 DEF QueueMoved
    <3> QED
      BY <1>1, <1>2, <3>1
  <2>2. n # 0 /\ Cardinality(2 .. n) = n - 1
    <3>1. n # 0
      BY <1>2, <1>4 DEF QueueMoved
    <3>2. Cardinality(2 .. n) = IF 2 > n THEN 0 ELSE n - 2 + 1
      BY FS_Interval
    <3> QED
      BY <3>1, <3>2
  <2>3. n + Cardinality(Held) = NCores + 1 /\ Cardinality(Held) \in Nat /\ NCores \in Nat
    BY <1>2, <1>4, HeldFew, CoresAssumption DEF QueueMoved, StubInv
  <2>4. Cardinality({i \in DOMAIN stubs_ : stubs_[i] = "stub"}) = n - 1
    BY <2>1, <2>2
  <2> QED
    BY <2>3, <2>4
<1> QED
  BY <1>3, <1>4 DEF StubInv, StubQueue

\* Unless two handlers use the queue at once, the gateway neither loses nor
\* duplicates a stub nor runs out of them nor dies, for any number of cores and of
\* requests: there are fewer contexts than stubs, and a handler keeps its context.
THEOREM StubsNeverLost == LoginSpec => []StubsKept
<1>1. LoginInit => StubInv
  BY StubInit DEF LoginInit
<1>2. LoginInv /\ StubInv /\ [LoginNext]_loginVars => StubInv'
  BY StubStep
<1>3. LoginInv /\ StubInv => StubsKept
  <2> SUFFICES ASSUME LoginInv, StubInv, ~overlapped
               PROVE  /\ up /\ \A p \in Held : stub[p] = "stub"
                      /\ Cardinality({i \in DOMAIN stubs_ : stubs_[i] = "stub"}) + Cardinality(Held)
                           = NCores
    BY DEF StubsKept, Held
  <2>1. GatewayTyped
    BY DEF LoginInv, LoginTyped
  <2> QED
    BY <2>1, StubsCounted DEF StubInv, StubQueue
<1> QED
  BY <1>1, <1>2, <1>3, LoginInvAlways, PTL DEF LoginSpec
===============================================================================
