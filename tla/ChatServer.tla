------------------------------ MODULE ChatServer ------------------------------
(***************************************************************************)
(* The chat servers of the cluster, the sessions they hold, the presence   *)
(* table in redis (key = user, fields host and uuid), the redis channel    *)
(* every server subscribes to, and the rows the requests leave in MySQL.   *)
(*                                                                         *)
(* A session (src/server/src/ChatServer/ChatSession.cpp) is driven by the  *)
(* thread of its io_context; two sessions may be on two threads, so every  *)
(* access to redis, MySQL, session_ or another session's write buffer is a *)
(* step of its own and the steps of different sessions interleave.         *)
(***************************************************************************)
EXTENDS Naturals, Sequences, FiniteSets

CONSTANTS
  Servers,    \* the chat server processes
  Users,      \* the user ids
  Sessions,   \* the ChatSession objects (a session is its uuid_)
  Writes,     \* the writing requests the clients use
  Reads,      \* the reading requests the clients use
  Nil,        \* nothing: an absent redis field, an empty string
  NoForward,  \* the value "-1" of forwardId_
  Page,       \* the length of a page of messages (20 in the code)
  MaxRequests, \* bound: number of writing requests
  MaxFrames,  \* bound: a client sends no request once it got so many frames
  MaxCrashes, \* bound: number of server crashes
  MaxEarly    \* bound: number of connections accepted before run() has subscribed

WriteKinds == {"SEND_MSG", "REQUEST_ADD_FRIEND", "WHETHER_ACCEPT_ADD_FRIEND"}
ListKinds  == {"GET_FRIEND_MSG", "GET_APPLY_FRIEND_LIST", "GET_FRIEND_LIST"}
LookupKinds == {"USER_SET_HEAD", "GET_USER_HEAD", "GET_USERINFO_BY_ACCOUNT",
                "GET_USERINFO_BY_ID"}

\* The tags of the frames; "LOOKUP" stands for the tag of any lookup and of a list
\* query that failed, which no property tells apart.
Tags == WriteKinds \cup ListKinds \cup {"USER_LOGIN_CHAT_SERVER", "LOOKUP"}

ASSUME ConstantAssumption ==
  /\ Writes \subseteq WriteKinds /\ Reads \subseteq ListKinds \cup LookupKinds
  /\ NoForward # Nil /\ Nil \notin Users \cup Sessions \cup Servers
  /\ NoForward \notin Users /\ Page \in Nat \ {0}
  /\ MaxRequests \in Nat /\ MaxFrames \in Nat /\ MaxCrashes \in Nat /\ MaxEarly \in Nat

\* What one writing request stores, and what a forwarded message carries; id is
\* its place in the order of the requests and via the session it came on.
Row == [id : 1..MaxRequests, kind : WriteKinds, via : Sessions, from : Users, to : Users]

\* A frame appended to a session's write_buffer_: the tag, what it is, the rows
\* it carries (a successful reply carries the row it acknowledges) and the user
\* it is about (the forwardId_ of a push, the fid of a history).
Frame == [tag : Tags, what : {"reply", "list", "push"}, rows : SUBSET Row,
          about : Users \cup {Nil}]

ASSUME NilAssumption == Nil \notin Row /\ Nil \notin Frame

\* A message on a server's redis channel (TcpServer.cpp 53-58).
Message == [reqid : Tags, uuid : Sessions, row : Row, about : Users]

\* The tag of the reply to a writing request; sendMsg answers under the tag of
\* getFriendList (LogicSystem.cpp 254, 380, 454).
ReplyTag(kind) == IF kind = "SEND_MSG" THEN "GET_FRIEND_LIST" ELSE kind

\* The tag a forwarded message has on its way through redis.
RemoteTag(kind) ==
  CASE kind = "SEND_MSG" -> "GET_FRIEND_MSG"
    [] kind = "REQUEST_ADD_FRIEND" -> "GET_APPLY_FRIEND_LIST"
    [] kind = "WHETHER_ACCEPT_ADD_FRIEND" -> "GET_FRIEND_LIST"

\* The tag of a message forwarded inside one server, whatever its kind.
LocalTag(kind) == "GET_FRIEND_MSG"

VARIABLES
  up, subscribed,  \* per server: the process runs / run() has subscribed
  session_,        \* per server: the map uuid -> session of TcpServer
  chan,            \* per server: published messages not yet read by run()
  crashes,         \* number of crashes so far
  early,           \* history: the sessions accepted before run() had subscribed
  pc, srv,         \* per session: where its handler is, the server it is on
  uid_, isLogin_, forwardId_,  \* per session: the members of that name
  cur,             \* per session: the writing request being handled
  dest,           \* per session: the reply being built, not yet sent
  rhost, ruuid,    \* per session: the locals host and uuid of forwardMsg
  out,             \* per session: every frame appended to write_buffer_
  host, uuid,      \* redis: the two fields of a user's key
  rows, answered,  \* MySQL: the rows, and the friend requests not pending any more
  issued           \* the number of writing requests so far

serverVars  == <<up, subscribed, session_, chan, crashes, early>>
sessionVars == <<srv, uid_, isLogin_, forwardId_>>
redisVars   == <<host, uuid>>
dbVars      == <<rows, answered, issued>>
vars == <<up, subscribed, session_, chan, crashes, early, pc, srv, uid_, isLogin_,
          forwardId_, cur, dest, rhost, ruuid, out, host, uuid, rows, answered, issued>>

PCs == {"free", "idle", "hset_host", "hset_uuid", "reply", "hget_host",
        "hget_uuid", "remark", "deliver", "close", "erase",
        "closed", "crashed"}

\* The user's session is connected and its `del` of the redis key is not done.
Open(s) == pc[s] \notin {"free", "erase", "closed", "crashed"}

TypeOK ==
  /\ up \in [Servers -> BOOLEAN] /\ subscribed \in [Servers -> BOOLEAN]
  /\ session_ \in [Servers -> SUBSET Sessions]
  /\ chan \in [Servers -> Seq(Message)]
  /\ crashes \in 0..MaxCrashes /\ early \in SUBSET Sessions
  /\ pc \in [Sessions -> PCs]
  /\ srv \in [Sessions -> Servers \cup {Nil}]
  /\ uid_ \in [Sessions -> Users \cup {Nil}]
  /\ isLogin_ \in [Sessions -> BOOLEAN]
  /\ forwardId_ \in [Sessions -> Users \cup {Nil, NoForward}]
  /\ cur \in [Sessions -> Row \cup {Nil}]
  /\ dest \in [Sessions -> Frame \cup {Nil}]
  /\ rhost \in [Sessions -> Servers \cup {Nil}]
  /\ ruuid \in [Sessions -> Sessions \cup {Nil}]
  /\ out \in [Sessions -> Seq(Frame)]
  /\ host \in [Users -> Servers \cup {Nil}]
  /\ uuid \in [Users -> Sessions \cup {Nil}]
  /\ rows \in SUBSET Row /\ answered \in SUBSET Row /\ issued \in 0..MaxRequests

Init ==
  /\ up = [h \in Servers |-> TRUE] /\ subscribed = [h \in Servers |-> FALSE]
  /\ session_ = [h \in Servers |-> {}] /\ chan = [h \in Servers |-> <<>>]
  /\ crashes = 0 /\ early = {}
  /\ pc = [s \in Sessions |-> "free"] /\ srv = [s \in Sessions |-> Nil]
  /\ uid_ = [s \in Sessions |-> Nil] /\ isLogin_ = [s \in Sessions |-> FALSE]
  /\ forwardId_ = [s \in Sessions |-> Nil]
  /\ cur = [s \in Sessions |-> Nil] /\ dest = [s \in Sessions |-> Nil]
  /\ rhost = [s \in Sessions |-> Nil] /\ ruuid = [s \in Sessions |-> Nil]
  /\ out = [s \in Sessions |-> <<>>]
  /\ host = [u \in Users |-> Nil] /\ uuid = [u \in Users |-> Nil]
  /\ rows = {} /\ answered = {} /\ issued = 0

Goto(s, label) == pc' = [pc EXCEPT ![s] = label]

\* ChatSession::sendData: one frame is appended under the session's mutex_.
SendData(s, frame) == out' = [out EXCEPT ![s] = Append(@, frame)]

ReplyFrame(tag, acked) == [tag |-> tag, what |-> "reply", rows |-> acked, about |-> Nil]
PushFrame(tag, row, to) == [tag |-> tag, what |-> "push", rows |-> {row}, about |-> to]

\* A client sends its next request on a connection whose handler is idle.
MaySend(s) == pc[s] = "idle" /\ uid_[s] # Nil /\ Len(out[s]) < MaxFrames

-------------------------------------------------------------------------------
(* The server process: TcpServer::start, main, TcpServer::run.             *)

\* A new connection: its session is in session_ and start() reads from it.  The
\* constructor of TcpServer accepts, so it may come before run() subscribes.
Accept(h, s) ==
  /\ up[h] /\ pc[s] = "free"
  /\ subscribed[h] \/ Cardinality(early) < MaxEarly
  /\ early' = IF subscribed[h] THEN early ELSE early \cup {s}
  /\ Goto(s, "idle")
  /\ srv' = [srv EXCEPT ![s] = h]
  /\ session_' = [session_ EXCEPT ![h] = @ \cup {s}]
  /\ UNCHANGED <<up, subscribed, chan, crashes, uid_, isLogin_, forwardId_, cur,
                 dest, rhost, ruuid, out, redisVars, dbVars>>

\* run() subscribes to the server's channel, after the acceptor has started.
Subscribe(h) ==
  /\ up[h] /\ ~subscribed[h]
  /\ subscribed' = [subscribed EXCEPT ![h] = TRUE]
  /\ UNCHANGED <<up, session_, chan, crashes, early, pc, sessionVars, cur, dest, rhost,
                 ruuid, out, redisVars, dbVars>>

\* Mutant: the message stays on the channel and is read again.
RunLoop_Rereads(h) ==
  /\ subscribed[h] /\ chan[h] # <<>>
  /\ LET m == Head(chan[h]) IN
       IF m.uuid \in session_[h]
       THEN SendData(m.uuid, PushFrame(m.reqid, m.row, m.about))
       ELSE UNCHANGED out
  /\ UNCHANGED <<serverVars, pc, sessionVars, cur, dest, rhost, ruuid, redisVars, dbVars>>

\* One round of run(): the next message goes to the session it names, if the
\* session is still in session_.
RunLoop(h) ==
  /\ subscribed[h] /\ chan[h] # <<>>
  /\ chan' = [chan EXCEPT ![h] = Tail(@)]
  /\ LET m == Head(chan[h]) IN
       IF m.uuid \in session_[h]
       THEN SendData(m.uuid, PushFrame(m.reqid, m.row, m.about))
       ELSE UNCHANGED out
  /\ UNCHANGED <<up, subscribed, session_, crashes, early, pc, sessionVars, cur, dest,
                 rhost, ruuid, redisVars, dbVars>>

\* The process dies: its sessions and undelivered messages go, redis stays.
Crash(h) ==
  /\ up[h] /\ crashes < MaxCrashes
  /\ crashes' = crashes + 1
  /\ up' = [up EXCEPT ![h] = FALSE]
  /\ subscribed' = [subscribed EXCEPT ![h] = FALSE]
  /\ session_' = [session_ EXCEPT ![h] = {}]
  /\ chan' = [chan EXCEPT ![h] = <<>>]
  /\ pc' = [s \in Sessions |->
              IF srv[s] = h /\ pc[s] # "closed" THEN "crashed" ELSE pc[s]]
  /\ UNCHANGED <<early, sessionVars, cur, dest, rhost, ruuid, out, redisVars, dbVars>>

\* main() again.
Restart(h) ==
  /\ ~up[h]
  /\ up' = [up EXCEPT ![h] = TRUE]
  /\ UNCHANGED <<subscribed, session_, chan, crashes, early, pc, sessionVars, cur, dest,
                 rhost, ruuid, out, redisVars, dbVars>>

-------------------------------------------------------------------------------
(* LogicSystem::hadingLogin.  The client logs in once per connection       *)
(* (src/client/widget.cpp 178-185).                                        *)

\* Mutant: the login reply is forgotten.
HadingLogin_NoReply(s, u) ==
  /\ pc[s] = "idle" /\ uid_[s] = Nil
  /\ uid_' = [uid_ EXCEPT ![s] = u]
  /\ Goto(s, "hset_host")
  /\ UNCHANGED <<serverVars, srv, isLogin_, forwardId_, cur, dest, rhost, ruuid,
                 out, redisVars, dbVars>>

\* Mutant: a connection that is logged in may log in as another user.
HadingLogin_Again(s, u) ==
  /\ pc[s] = "idle"
  /\ uid_' = [uid_ EXCEPT ![s] = u]
  /\ SendData(s, ReplyFrame("USER_LOGIN_CHAT_SERVER", {}))
  /\ Goto(s, "hset_host")
  /\ UNCHANGED <<serverVars, srv, isLogin_, forwardId_, cur, dest, rhost, ruuid,
                 redisVars, dbVars>>

\* The StatusServer accepts the token: uid_ is set and the reply is sent.
HadingLogin(s, u) ==
  /\ pc[s] = "idle" /\ uid_[s] = Nil
  /\ uid_' = [uid_ EXCEPT ![s] = u]
  /\ SendData(s, ReplyFrame("USER_LOGIN_CHAT_SERVER", {}))
  /\ Goto(s, "hset_host")
  /\ UNCHANGED <<serverVars, srv, isLogin_, forwardId_, cur, dest, rhost, ruuid,
                 redisVars, dbVars>>

\* hset uid host
HsetHost(s) ==
  /\ pc[s] = "hset_host"
  /\ host' = [host EXCEPT ![uid_[s]] = srv[s]]
  /\ Goto(s, "hset_uuid")
  /\ UNCHANGED <<serverVars, sessionVars, cur, dest, rhost, ruuid, out, uuid, dbVars>>

\* hset uid uuid, then isLogin_ = true
HsetUuid(s) ==
  /\ pc[s] = "hset_uuid"
  /\ uuid' = [uuid EXCEPT ![uid_[s]] = s]
  /\ isLogin_' = [isLogin_ EXCEPT ![s] = TRUE]
  /\ Goto(s, "idle")
  /\ UNCHANGED <<serverVars, srv, uid_, forwardId_, cur, dest, rhost, ruuid, out,
                 host, dbVars>>

-------------------------------------------------------------------------------
(* The writing requests: sendMsg, requestAddFriend, whetherAcceptAddFriend *)
(* of LogicSystem, up to the reply that is still to be sent.               *)

\* The writing requests the client of session s may send next.
RequestOf(s) ==
  {[id |-> issued + 1, kind |-> k, via |-> s, from |-> uid_[s], to |-> u] :
     k \in Writes, u \in Users \ {uid_[s]}}

\* The client sends request r; what MySQL does with it is up to the caller.
Request(s, r, acked, fid) ==
  /\ MaySend(s) /\ issued < MaxRequests /\ r \in RequestOf(s)
  /\ issued' = issued + 1
  /\ cur' = [cur EXCEPT ![s] = r]
  /\ dest' = [dest EXCEPT ![s] = ReplyFrame(ReplyTag(r.kind), acked)]
  /\ forwardId_' = [forwardId_ EXCEPT ![s] = fid]
  /\ Goto(s, "reply")
  /\ UNCHANGED <<serverVars, srv, uid_, isLogin_, rhost, ruuid, out, redisVars>>

\* The pending friend requests that r answers (procedure whetherAcceptAddFriend).
Answers(r) ==
  {q \in rows : /\ r.kind = "WHETHER_ACCEPT_ADD_FRIEND" /\ q.kind = "REQUEST_ADD_FRIEND"
                /\ q.from = r.to /\ q.to = r.from}

\* The procedure stores the row; an acceptance is stored for both friends.
Store(r) ==
  /\ rows' = rows \cup {r}
  /\ answered' = answered \cup Answers(r)

\* The procedure stored the row and said "ok": forward to the addressee.
Stored(s, r) == Request(s, r, {r}, r.to) /\ Store(r)

\* The row was stored, but reading the procedure's answer failed.
StoredUnacked(s, r) == Request(s, r, {}, NoForward) /\ Store(r)

\* A friend request is declined: it is not pending any more, nothing to forward.
Declined(s, r) ==
  /\ r.kind = "WHETHER_ACCEPT_ADD_FRIEND"
  /\ Request(s, r, {}, NoForward)
  /\ answered' = answered \cup Answers(r)
  /\ UNCHANGED rows

\* The procedure refused or failed: nothing to forward.
NotStored(s, r) ==
  /\ Request(s, r, {}, NoForward)
  /\ UNCHANGED <<rows, answered>>

\* Mutant: forwardId_ is set before the request is stored.
Skipped_SetsForward(s, r) ==
  /\ Request(s, r, {}, r.to)
  /\ UNCHANGED <<rows, answered>>

\* A field was missing or getConn threw: forwardId_ keeps its old value.
Skipped(s, r) ==
  /\ Request(s, r, {}, forwardId_[s])
  /\ UNCHANGED <<rows, answered>>

Write(s, kind) ==
  \E r \in RequestOf(s) :
    /\ r.kind = kind
    /\ \/ Stored(s, r) \/ StoredUnacked(s, r) \/ Declined(s, r)
       \/ NotStored(s, r) \/ Skipped(s, r)

sendMsg(s) == Write(s, "SEND_MSG")
requestAddFriend(s) == Write(s, "REQUEST_ADD_FRIEND")
whetherAcceptAddFriend(s) == Write(s, "WHETHER_ACCEPT_ADD_FRIEND")

-------------------------------------------------------------------------------
(* The reading requests.                                                   *)

\* The messages between u and fid.
FriendMsgs(u, fid) == {r \in rows : r.kind = "SEND_MSG" /\ {r.from, r.to} = {u, fid}}

\* Mutant: the requests that u sent.
Applies_Sent(u) == {r \in rows \ answered : r.kind = "REQUEST_ADD_FRIEND" /\ r.from = u}

\* MysqlDao::getApplyFriendList: the pending friend requests to u.
Applies(u) == {r \in rows \ answered : r.kind = "REQUEST_ADD_FRIEND" /\ r.to = u}

\* MysqlDao::getFriendList: the acceptances that made u a friend of somebody.
Friends(u) == {r \in rows : r.kind = "WHETHER_ACCEPT_ADD_FRIEND" /\ u \in {r.from, r.to}}

\* The rows that a list query of user u returns; fid is the peer of a history.
Visible(u, kind, fid) ==
  CASE kind = "GET_FRIEND_MSG" -> FriendMsgs(u, fid)
    [] kind = "GET_APPLY_FRIEND_LIST" -> Applies(u)
    [] kind = "GET_FRIEND_LIST" -> Friends(u)

\* MysqlDao::getFriendMsg with `limit 20 offset 0`: a long history is cut to a page,
\* which messages it keeps being up to the times the clients wrote into them.
Pages(all) ==
  IF Cardinality(all) <= Page THEN {all} ELSE {p \in SUBSET all : Cardinality(p) = Page}

\* The answers a list query of user u may get.
Lists(u, kind, fid) ==
  IF kind = "GET_FRIEND_MSG" THEN Pages(Visible(u, kind, fid)) ELSE {Visible(u, kind, fid)}

\* A list query that succeeds; its answer is built and still to be sent.  (An empty
\* one is answered with a text that says so; the clients ask for page 0 only.)
QueryList(s, kind, fid) ==
  /\ MaySend(s) /\ kind \in Reads \cap ListKinds
  /\ fid # uid_[s]
  /\ \E list \in Lists(uid_[s], kind, fid) :
       dest' = [dest EXCEPT ![s] =
         [tag |-> kind, what |-> "list", rows |-> list, about |-> fid]]
  /\ Goto(s, "reply")
  /\ UNCHANGED <<serverVars, sessionVars, cur, rhost, ruuid, out, redisVars, dbVars>>

\* Any other answer: a list query failed, or a lookup, which touches no state
\* modelled here.
Lookup(s, kind) ==
  /\ MaySend(s) /\ kind \in Reads
  /\ dest' = [dest EXCEPT ![s] = ReplyFrame("LOOKUP", {})]
  /\ Goto(s, "reply")
  /\ UNCHANGED <<serverVars, sessionVars, cur, rhost, ruuid, out, redisVars, dbVars>>

getFriendMsg(s) ==
  (\E fid \in Users : QueryList(s, "GET_FRIEND_MSG", fid)) \/ Lookup(s, "GET_FRIEND_MSG")
getApplyFriendList(s) ==
  QueryList(s, "GET_APPLY_FRIEND_LIST", Nil) \/ Lookup(s, "GET_APPLY_FRIEND_LIST")
getFriendList(s) ==
  QueryList(s, "GET_FRIEND_LIST", Nil) \/ Lookup(s, "GET_FRIEND_LIST")
saveHeadImage(s) == Lookup(s, "USER_SET_HEAD")
getUserHead(s) == Lookup(s, "GET_USER_HEAD")
getUserInfoByAccount(s) == Lookup(s, "GET_USERINFO_BY_ACCOUNT")
getUserInfoById(s) == Lookup(s, "GET_USERINFO_BY_ID")

\* sendJson, then the end of the round of handlingRaad's loop, or forwardMsg.
Reply(s) ==
  /\ pc[s] = "reply"
  /\ SendData(s, dest[s])
  /\ dest' = [dest EXCEPT ![s] = Nil]
  /\ IF cur[s] = Nil \/ forwardId_[s] = NoForward
     THEN Goto(s, "idle") /\ cur' = [cur EXCEPT ![s] = Nil]
     ELSE Goto(s, "hget_host") /\ UNCHANGED cur
  /\ UNCHANGED <<serverVars, sessionVars, rhost, ruuid, redisVars, dbVars>>

-------------------------------------------------------------------------------
(* ChatSession::forwardMsg.                                                *)

\* forwardMsg returns: the locals go and the loop reads the next request.
Return(s) ==
  /\ Goto(s, "idle")
  /\ cur' = [cur EXCEPT ![s] = Nil]
  /\ rhost' = [rhost EXCEPT ![s] = Nil]
  /\ ruuid' = [ruuid EXCEPT ![s] = Nil]

\* opposideInfo: hget forwardId_ host (forwardId_ may still be empty).
HgetHost(s) ==
  /\ pc[s] = "hget_host"
  /\ IF forwardId_[s] \in Users /\ host[forwardId_[s]] # Nil
     THEN /\ rhost' = [rhost EXCEPT ![s] = host[forwardId_[s]]]
          /\ Goto(s, "hget_uuid")
          /\ UNCHANGED <<cur, ruuid>>
     ELSE Return(s)
  /\ UNCHANGED <<serverVars, sessionVars, dest, out, redisVars, dbVars>>

\* Mutant: the second reply of redis is not checked.
HgetUuid_Unchecked(s) ==
  /\ pc[s] = "hget_uuid"
  /\ ruuid' = [ruuid EXCEPT ![s] = uuid[forwardId_[s]]]
  /\ Goto(s, "deliver")
  /\ UNCHANGED <<serverVars, sessionVars, cur, rhost, dest, out, redisVars, dbVars>>

\* opposideInfo: hget forwardId_ uuid, a second command.
HgetUuid(s) ==
  /\ pc[s] = "hget_uuid"
  /\ IF uuid[forwardId_[s]] # Nil
     THEN /\ ruuid' = [ruuid EXCEPT ![s] = uuid[forwardId_[s]]]
          /\ Goto(s, IF cur[s].kind = "WHETHER_ACCEPT_ADD_FRIEND"
                     THEN "remark" ELSE "deliver")
          /\ UNCHANGED <<cur, rhost>>
     ELSE Return(s)
  /\ UNCHANGED <<serverVars, sessionVars, dest, out, redisVars, dbVars>>

\* getFriendgRemark: the query finds that the two are friends.
Remark(s) ==
  /\ pc[s] = "remark"
  /\ Friends(uid_[s]) \cap Friends(forwardId_[s]) # {}
  /\ Goto(s, "deliver")
  /\ UNCHANGED <<serverVars, sessionVars, cur, dest, rhost, ruuid, out, redisVars, dbVars>>

\* They are not, or the query failed: nothing is forwarded.
RemarkFails(s) ==
  /\ pc[s] = "remark"
  /\ Return(s)
  /\ UNCHANGED <<serverVars, sessionVars, dest, out, redisVars, dbVars>>

\* The addressee is on this server: straight into its session, if it is there.
\* (getSession unlocks before sendData: a session erased in between gets a frame
\* that nobody reads.)
DeliverLocal(s) ==
  /\ pc[s] = "deliver" /\ rhost[s] = srv[s]
  /\ IF ruuid[s] \in session_[srv[s]]
     THEN SendData(ruuid[s], PushFrame(LocalTag(cur[s].kind), cur[s], forwardId_[s]))
     ELSE UNCHANGED out
  /\ Return(s)
  /\ UNCHANGED <<serverVars, sessionVars, dest, redisVars, dbVars>>

\* Mutant: the message goes to the sender's own channel.
Publish_OwnChannel(s) ==
  /\ pc[s] = "deliver" /\ rhost[s] # srv[s]
  /\ chan' = [chan EXCEPT ![srv[s]] = Append(@,
       [reqid |-> RemoteTag(cur[s].kind), uuid |-> ruuid[s],
        row |-> cur[s], about |-> forwardId_[s]])]
  /\ Return(s)
  /\ UNCHANGED <<up, subscribed, session_, crashes, early, sessionVars, dest, out, redisVars,
                 dbVars>>

\* It is on another server: publish; a channel without subscriber drops it.
Publish(s) ==
  /\ pc[s] = "deliver" /\ rhost[s] # srv[s]
  /\ IF subscribed[rhost[s]]
     THEN chan' = [chan EXCEPT ![rhost[s]] = Append(@,
            [reqid |-> RemoteTag(cur[s].kind), uuid |-> ruuid[s],
             row |-> cur[s], about |-> forwardId_[s]])]
     ELSE UNCHANGED chan
  /\ Return(s)
  /\ UNCHANGED <<up, subscribed, session_, crashes, early, sessionVars, dest, out, redisVars,
                 dbVars>>

-------------------------------------------------------------------------------
(* ChatSession::close.                                                     *)

\* The read failed, the login or the authentication failed, or the request is
\* unknown: close().
Drop(s) ==
  /\ pc[s] = "idle"
  /\ Goto(s, "close")
  /\ UNCHANGED <<serverVars, sessionVars, cur, dest, rhost, ruuid, out, redisVars, dbVars>>

\* Mutant: isLogin_ is reset before it is tested.
Close_ForgetsKey(s) ==
  /\ pc[s] = "close"
  /\ isLogin_' = [isLogin_ EXCEPT ![s] = FALSE]
  /\ Goto(s, "erase")
  /\ UNCHANGED <<serverVars, srv, uid_, forwardId_, cur, dest, rhost, ruuid, out,
                 redisVars, dbVars>>

\* Mutant: only a session that logged in is closed.
Close_OnlyLoggedIn(s) ==
  /\ pc[s] = "close" /\ isLogin_[s]
  /\ host' = [host EXCEPT ![uid_[s]] = Nil]
  /\ uuid' = [uuid EXCEPT ![uid_[s]] = Nil]
  /\ isLogin_' = [isLogin_ EXCEPT ![s] = FALSE]
  /\ Goto(s, "erase")
  /\ UNCHANGED <<serverVars, srv, uid_, forwardId_, cur, dest, rhost, ruuid, out, dbVars>>

\* close() deletes the user's key if the session logged in ...
Close(s) ==
  /\ pc[s] = "close"
  /\ IF isLogin_[s]
     THEN /\ host' = [host EXCEPT ![uid_[s]] = Nil]
          /\ uuid' = [uuid EXCEPT ![uid_[s]] = Nil]
     ELSE UNCHANGED redisVars
  /\ isLogin_' = [isLogin_ EXCEPT ![s] = FALSE]
  /\ Goto(s, "erase")
  /\ UNCHANGED <<serverVars, srv, uid_, forwardId_, cur, dest, rhost, ruuid, out, dbVars>>

\* ... and calls close_callBack_, which erases the session.
Erase(s) ==
  /\ pc[s] = "erase"
  /\ session_' = [session_ EXCEPT ![srv[s]] = @ \ {s}]
  /\ Goto(s, "closed")
  /\ UNCHANGED <<up, subscribed, chan, crashes, early, sessionVars, cur, dest, rhost, ruuid,
                 out, redisVars, dbVars>>

-------------------------------------------------------------------------------
Handler(s) ==
  \/ HsetHost(s) \/ HsetUuid(s) \/ Reply(s)
  \/ HgetHost(s) \/ HgetUuid(s) \/ Remark(s) \/ RemarkFails(s)
  \/ DeliverLocal(s) \/ Publish(s)
  \/ Close(s) \/ Erase(s)

Client(s) ==
  \/ \E h \in Servers : Accept(h, s)
  \/ \E u \in Users : HadingLogin(s, u)
  \/ sendMsg(s) \/ requestAddFriend(s) \/ whetherAcceptAddFriend(s)
  \/ getFriendMsg(s) \/ getApplyFriendList(s) \/ getFriendList(s)
  \/ saveHeadImage(s) \/ getUserHead(s)
  \/ getUserInfoByAccount(s) \/ getUserInfoById(s)
  \/ Drop(s)

Process(h) == Subscribe(h) \/ RunLoop(h) \/ Crash(h) \/ Restart(h)

Next == (\E s \in Sessions : Handler(s) \/ Client(s)) \/ (\E h \in Servers : Process(h))

Spec == Init /\ [][Next]_vars

\* The io_context threads run the handlers that are ready, and run() reads its
\* channel; clients, crashes and restarts owe nothing.
Fairness ==
  /\ \A s \in Sessions : WF_vars(Handler(s))
  /\ \A h \in Servers : WF_vars(Subscribe(h)) /\ WF_vars(RunLoop(h))

FairSpec == Spec /\ Fairness

-------------------------------------------------------------------------------
(* Safety.                                                                 *)

\* The rows of the frames of one kind that session s was sent.
Sent(s, what) == UNION {out[s][i].rows : i \in {j \in DOMAIN out[s] : out[s][j].what = what}}

\* Presence, as opposideInfo relies on it: what redis says of user u was written
\* by a session of u that logged in and has not deleted the key; only a crash
\* leaves an entry behind.  A user whose sessions all closed has no entry.
RouteOwner ==
  \A u \in Users :
    /\ uuid[u] # Nil =>
         uid_[uuid[u]] = u /\ (pc[uuid[u]] = "crashed" \/ (Open(uuid[u]) /\ isLogin_[uuid[u]]))
    /\ host[u] # Nil =>
         \E s \in Sessions : uid_[s] = u /\ srv[s] = host[u] /\ (pc[s] = "crashed" \/ Open(s))

\* A forwarded message never reaches a session of a user it was not forwarded to,
\* however the lookup of host and uuid interleaves with logins and closes.
PushToAddressee ==
  /\ \A s \in Sessions : \A i \in DOMAIN out[s] :
       out[s][i].what = "push" => out[s][i].about = uid_[s]
  /\ \A h \in Servers : \A i \in DOMAIN chan[h] :
       chan[h][i].about = uid_[chan[h][i].uuid]

\* A message is only forwarded to a user its sender has a stored request to, so a
\* stale forwardId_ (a request skipped before it was set) stays within the peers
\* the sender already reached.
PushBacked ==
  \A s \in Sessions : \A i \in DOMAIN out[s] :
    out[s][i].what = "push" =>
      \A r \in out[s][i].rows :
        \E q \in rows : q.via = r.via /\ q.from = r.from /\ q.to = uid_[s]

\* The first frame a client gets is the reply to its login: no forwarded message
\* and no other reply gets ahead of it.
LoginReplyFirst ==
  \A s \in Sessions : out[s] # <<>> => out[s][1].tag = "USER_LOGIN_CHAT_SERVER"

\* Two messages of one sending session arrive at a session in the order sent,
\* whether they go through redis or not.
PushesInOrder ==
  \A s \in Sessions : \A i, j \in DOMAIN out[s] :
    i < j /\ out[s][i].what = "push" /\ out[s][j].what = "push" =>
      \A r \in out[s][i].rows, q \in out[s][j].rows : r.via = q.via => r.id < q.id

\* Session s is the one redis names for its user, and its server listens.
Routed(s) ==
  /\ pc[s] \notin {"crashed", "closed"} /\ uid_[s] # Nil
  /\ host[uid_[s]] = srv[s] /\ uuid[uid_[s]] = s
  /\ subscribed[srv[s]]

\* Session s was sent the list in which the client finds the rows like r; of
\* messages, a history short enough not to be cut.
Fetched(s, r) ==
  \E i \in DOMAIN out[s] :
    /\ out[s][i].what = "list" /\ out[s][i].tag = RemoteTag(r.kind)
    /\ r.kind = "SEND_MSG" =>
         out[s][i].about = r.from /\ Cardinality(out[s][i].rows) < Page

\* No login of the user of s is between its two hset commands, or died there: one
\* that is may have moved host to another server, and a third login move it back,
\* while uuid names s all along.
LoginsWhole(s) ==
  \A x \in Sessions : uid_[x] = uid_[s] =>
    pc[x] # "hset_uuid" /\ (pc[x] = "crashed" => isLogin_[x])

\* The request r was answered with success and is not being handled any more.
Settled(r) ==
  /\ \E s \in Sessions : r \in Sent(s, "reply")
  /\ \A s \in Sessions : cur[s] # r

\* List and push leave no gap: once a client has fetched a list on the session
\* redis names for its user, every acknowledged message or friend request of that
\* list, if still pending, was in it, was pushed, or is on its way, whatever the
\* order of the sender's store and lookup and the receiver's login and fetch.  A
\* session accepted before run() subscribed is left out: what was published to it
\* until then is gone.
NoLostRow ==
  \A s \in Sessions \ early : Routed(s) /\ LoginsWhole(s) =>
    \A r \in rows \ answered :
      (r.to = uid_[s] /\ r.kind # "WHETHER_ACCEPT_ADD_FRIEND" /\ Fetched(s, r) /\ Settled(r)) =>
        \/ r \in Sent(s, "list") \cup Sent(s, "push")
        \/ \E i \in DOMAIN chan[srv[s]] : chan[srv[s]][i].uuid = s /\ chan[srv[s]][i].row = r

-------------------------------------------------------------------------------
(* What the comments of the code say and the code does not do.             *)

\* sendMsg "sends a message" (LogicSystem.h 28) to the toid of the request, not to
\* the addressee of an earlier one.
PushGoesToToid ==
  \A s \in Sessions : \A i \in DOMAIN out[s] :
    out[s][i].what = "push" => \A r \in out[s][i].rows : r.to = uid_[s]

-------------------------------------------------------------------------------
(* Liveness, under FairSpec.                                               *)

\* The server that handles an acknowledged message to a routed session finishes
\* the forwarding: the message arrives unless one of the two goes away.
PushArrives ==
  \A s, x \in Sessions : \A n \in 1..MaxRequests :
    (/\ Routed(s) /\ cur[x] # Nil /\ cur[x].id = n /\ pc[x] = "hget_host"
     /\ cur[x].kind # "WHETHER_ACCEPT_ADD_FRIEND" /\ forwardId_[x] = uid_[s])
      ~> (\/ \E r \in Sent(s, "push") : r.id = n
          \/ ~Routed(s) \/ pc[x] = "crashed")

\* A session that starts to close leaves session_, or its server dies.
ClosingEnds ==
  \A s \in Sessions : pc[s] = "close" ~> pc[s] \in {"closed", "crashed"}
===============================================================================
