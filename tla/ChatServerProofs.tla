--------------------------- MODULE ChatServerProofs ---------------------------
(***************************************************************************)
(* Proofs about ChatServer, for any number of servers, users and sessions: *)
(* first the types, whose presence redis shows and to whom a push goes;    *)
(* then, from those, in which order frames reach a session, why a message  *)
(* may be forwarded to it, and that no row is lost between list and push.  *)
(***************************************************************************)
EXTENDS ChatServer, TLAPS

\* Where a handler is tells which of its variables are set.
Handling ==
  \A s \in Sessions :
    /\ pc[s] # "free" => srv[s] \in Servers
    /\ pc[s] \in {"hset_host", "hset_uuid"} \/ isLogin_[s] => uid_[s] \in Users
    /\ pc[s] = "reply" => dest[s] \in Frame
    /\ pc[s] \in {"hget_host", "hget_uuid", "remark", "deliver"} => cur[s] \in Row
    /\ pc[s] \in {"hget_uuid", "remark", "deliver"} =>
         forwardId_[s] \in Users /\ rhost[s] \in Servers
    /\ pc[s] \in {"remark", "deliver"} => ruuid[s] \in Sessions

Typed == TypeOK /\ Handling

\* A request of a session has the type of a row.
LEMMA RequestIsRow ==
  ASSUME TypeOK, NEW s \in Sessions, MaySend(s), issued < MaxRequests,
         NEW r \in RequestOf(s)
  PROVE  r \in Row /\ r.to \in Users
<1>1. issued + 1 \in 1..MaxRequests
  BY ConstantAssumption DEF TypeOK
<1>2. uid_[s] \in Users
  BY DEF TypeOK, MaySend
<1> QED
  BY <1>1, <1>2, ConstantAssumption DEF RequestOf, Row

LEMMA TypedInit == Init => Typed
BY ConstantAssumption DEF Init, Typed, TypeOK, Handling, PCs

\* The frames the code builds have the type of a frame.
LEMMA FramesTyped ==
  /\ \A tag \in Tags, acked \in SUBSET Row : ReplyFrame(tag, acked) \in Frame
  /\ \A tag \in Tags, r \in Row, to \in Users : PushFrame(tag, r, to) \in Frame
  /\ \A kind \in WriteKinds : ReplyTag(kind) \in Tags /\ RemoteTag(kind) \in Tags
                               /\ LocalTag(kind) \in Tags
BY DEF ReplyFrame, PushFrame, Frame, ReplyTag, RemoteTag, LocalTag, Tags, WriteKinds, ListKinds

\* What a client's request may do, whichever handler it runs.
LEMMA ClientSteps ==
  ASSUME NEW s \in Sessions, Client(s)
  PROVE  \/ \E h \in Servers : Accept(h, s)
         \/ \E u \in Users : HadingLogin(s, u)
         \/ \E r \in RequestOf(s) : Stored(s, r) \/ StoredUnacked(s, r) \/ Declined(s, r) \/ NotStored(s, r) \/ Skipped(s, r)
         \/ \E kind \in ListKinds, fid \in Users \cup {Nil} : QueryList(s, kind, fid)
         \/ \E kind \in ListKinds \cup LookupKinds : Lookup(s, kind)
         \/ Drop(s)
<1>1. CASE sendMsg(s) \/ requestAddFriend(s) \/ whetherAcceptAddFriend(s)
  BY <1>1 DEF sendMsg, requestAddFriend, whetherAcceptAddFriend, Write
<1>2. CASE getFriendMsg(s) \/ getApplyFriendList(s) \/ getFriendList(s)
  BY <1>2 DEF getFriendMsg, getApplyFriendList, getFriendList, ListKinds
<1>3. CASE saveHeadImage(s) \/ getUserHead(s) \/ getUserInfoByAccount(s) \/ getUserInfoById(s)
  BY <1>3 DEF saveHeadImage, getUserHead, getUserInfoByAccount, getUserInfoById, LookupKinds
<1> QED
  BY <1>1, <1>2, <1>3 DEF Client

\* A list query returns rows.
LEMMA ListsRows ==
  ASSUME TypeOK, NEW u, NEW kind \in ListKinds, NEW fid, NEW list \in Lists(u, kind, fid)
  PROVE  list \subseteq Row
<1>1. Visible(u, kind, fid) \subseteq Row
  BY DEF TypeOK, Visible, FriendMsgs, Applies, Friends, ListKinds
<1>2. list \subseteq Visible(u, kind, fid)
  BY DEF Lists, Pages
<1> QED
  BY <1>1, <1>2

\* A page shorter than it may be is the whole history.
LEMMA UncutPage ==
  ASSUME NEW all, NEW list \in Pages(all), Cardinality(list) < Page
  PROVE  list = all
BY ConstantAssumption DEF Pages

LEMMA TypedNext == Typed /\ [Next]_vars => Typed'
<1> SUFFICES ASSUME Typed, [Next]_vars PROVE Typed'
  OBVIOUS
<1> USE ConstantAssumption DEF Typed, TypeOK, Handling, PCs, Goto, serverVars,
        sessionVars, redisVars, dbVars
<1>1. ASSUME NEW h \in Servers, NEW s \in Sessions, Accept(h, s) PROVE Typed'
  BY <1>1 DEF Accept
<1>2. ASSUME NEW h \in Servers, Subscribe(h) PROVE Typed'
  BY <1>2 DEF Subscribe
<1>3. ASSUME NEW h \in Servers, RunLoop(h) PROVE Typed'
  <2> DEFINE m == Head(chan[h])
  <2>1. m \in Message /\ Tail(chan[h]) \in Seq(Message)
    BY <1>3 DEF RunLoop
  <2>2. PushFrame(m.reqid, m.row, m.about) \in Frame
    BY <2>1, FramesTyped DEF Message
  <2>3. chan' \in [Servers -> Seq(Message)]
    BY <1>3, <2>1 DEF RunLoop
  <2>4. out' \in [Sessions -> Seq(Frame)]
    <3>1. CASE m.uuid \in session_[h]
      <4>1. out' = [out EXCEPT ![m.uuid] = Append(@, PushFrame(m.reqid, m.row, m.about))]
        BY <1>3, <3>1 DEF RunLoop, SendData
      <4>2. Append(out[m.uuid], PushFrame(m.reqid, m.row, m.about)) \in Seq(Frame)
        BY <2>1, <2>2 DEF Message
      <4> QED
        BY <4>1, <4>2
    <3>2. CASE m.uuid \notin session_[h]
      BY <1>3, <3>2 DEF RunLoop
    <3> QED
      BY <3>1, <3>2
  <2> QED
    BY <1>3, <2>3, <2>4 DEF RunLoop
<1>4. ASSUME NEW h \in Servers, Crash(h) PROVE Typed'
  BY <1>4 DEF Crash
<1>5. ASSUME NEW h \in Servers, Restart(h) PROVE Typed'
  BY <1>5 DEF Restart
<1>6. ASSUME NEW s \in Sessions, NEW u \in Users, HadingLogin(s, u) PROVE Typed'
  <2>1. ReplyFrame("USER_LOGIN_CHAT_SERVER", {}) \in Frame
    BY FramesTyped DEF Tags
  <2> QED
    BY <1>6, <2>1 DEF HadingLogin, SendData
<1>7. ASSUME NEW s \in Sessions, HsetHost(s) PROVE Typed'
  BY <1>7 DEF HsetHost
<1>8. ASSUME NEW s \in Sessions, HsetUuid(s) PROVE Typed'
  BY <1>8 DEF HsetUuid
<1>9. ASSUME NEW s \in Sessions, NEW r \in RequestOf(s),
             Stored(s, r) \/ StoredUnacked(s, r) \/ Declined(s, r) \/ NotStored(s, r) \/ Skipped(s, r)
      PROVE  Typed'
  <2>1. MaySend(s) /\ issued < MaxRequests
    BY <1>9 DEF Stored, StoredUnacked, Declined, NotStored, Skipped, Request
  <2>2. r \in Row /\ r.to \in Users /\ r.kind \in WriteKinds
    BY <2>1, RequestIsRow DEF Row
  <2>4. issued + 1 \in 0..MaxRequests
    BY <2>1
  <2>5. PICK acked \in SUBSET {r}, fid \in Users \cup {Nil, NoForward} : Request(s, r, acked, fid)
    BY <1>9, <2>2 DEF Stored, StoredUnacked, Declined, NotStored, Skipped
  <2>6. rows' \in SUBSET Row /\ answered' \in SUBSET Row
    <3>1. rows \in SUBSET Row /\ answered \in SUBSET Row /\ Answers(r) \in SUBSET Row
      BY DEF TypeOK, Answers
    <3> QED
      BY <1>9, <2>2, <3>1 DEF Stored, StoredUnacked, Store, Declined, NotStored, Skipped
  <2>7. ReplyFrame(ReplyTag(r.kind), acked) \in Frame
    BY <2>2, FramesTyped
  <2> QED
    BY <2>2, <2>4, <2>5, <2>6, <2>7, <2>1 DEF Request, MaySend
<1>10. ASSUME NEW s \in Sessions, NEW kind \in ListKinds, NEW fid \in Users \cup {Nil},
              QueryList(s, kind, fid)
       PROVE  Typed'
  <2>1. PICK list \in Lists(uid_[s], kind, fid) : dest' = [dest EXCEPT ![s] =
          [tag |-> kind, what |-> "list", rows |-> list, about |-> fid]]
    BY <1>10 DEF QueryList
  <2>2. [tag |-> kind, what |-> "list", rows |-> list, about |-> fid] \in Frame
    BY ListsRows DEF Frame, Tags
  <2> QED
    BY <1>10, <2>1, <2>2 DEF QueryList, MaySend
<1>11. ASSUME NEW s \in Sessions, NEW kind \in ListKinds \cup LookupKinds, Lookup(s, kind)
       PROVE  Typed'
  <2>1. ReplyFrame("LOOKUP", {}) \in Frame
    BY FramesTyped DEF Tags
  <2> QED
    BY <1>11, <2>1 DEF Lookup, MaySend
<1>12. ASSUME NEW s \in Sessions, Reply(s) PROVE Typed'
  <2>1. dest[s] \in Frame
    BY <1>12 DEF Reply
  <2>2. CASE cur[s] = Nil \/ forwardId_[s] = NoForward
    <3>1. Goto(s, "idle") /\ cur' = [cur EXCEPT ![s] = Nil]
      BY <1>12, <2>2 DEF Reply
    <3> QED
      BY <1>12, <2>1, <3>1 DEF Reply, SendData
  <2>3. CASE ~(cur[s] = Nil \/ forwardId_[s] = NoForward)
    <3>1. Goto(s, "hget_host") /\ UNCHANGED cur /\ cur[s] \in Row
      BY <1>12, <2>3 DEF Reply
    <3> QED
      BY <1>12, <2>1, <3>1 DEF Reply, SendData
  <2> QED
    BY <2>2, <2>3
<1>13. ASSUME NEW s \in Sessions, HgetHost(s) PROVE Typed'
  <2>1. CASE forwardId_[s] \in Users /\ host[forwardId_[s]] # Nil
    <3>1. /\ rhost' = [rhost EXCEPT ![s] = host[forwardId_[s]]]
          /\ Goto(s, "hget_uuid") /\ UNCHANGED <<cur, ruuid>>
      BY <1>13, <2>1 DEF HgetHost
    <3>2. host[forwardId_[s]] \in Servers /\ cur[s] \in Row
      BY <1>13, <2>1 DEF HgetHost
    <3> QED
      BY <1>13, <2>1, <3>1, <3>2 DEF HgetHost
  <2>2. CASE ~(forwardId_[s] \in Users /\ host[forwardId_[s]] # Nil)
    <3>1. Return(s)
      BY <1>13, <2>2 DEF HgetHost
    <3> QED
      BY <1>13, <3>1 DEF HgetHost, Return
  <2> QED
    BY <2>1, <2>2
<1>14. ASSUME NEW s \in Sessions, HgetUuid(s) PROVE Typed'
  <2>1. CASE uuid[forwardId_[s]] # Nil
    <3>1. /\ ruuid' = [ruuid EXCEPT ![s] = uuid[forwardId_[s]]]
          /\ Goto(s, "remark") \/ Goto(s, "deliver")
          /\ UNCHANGED <<cur, rhost>>
      BY <1>14, <2>1 DEF HgetUuid
    <3>2. /\ uuid[forwardId_[s]] \in Sessions /\ cur[s] \in Row
          /\ forwardId_[s] \in Users /\ rhost[s] \in Servers
      BY <1>14, <2>1 DEF HgetUuid
    <3>3. ruuid' \in [Sessions -> Sessions \cup {Nil}] /\ ruuid'[s] \in Sessions
      BY <3>1, <3>2
    <3>4. /\ pc' \in [Sessions -> PCs] /\ pc'[s] \in {"remark", "deliver"}
          /\ \A x \in Sessions \ {s} : pc'[x] = pc[x] /\ ruuid'[x] = ruuid[x]
      <4>1. \A x \in Sessions \ {s} : ruuid'[x] = ruuid[x]
        BY <3>1
      <4>2. CASE pc' = [pc EXCEPT ![s] = "remark"]
        BY <4>1, <4>2
      <4>3. CASE pc' = [pc EXCEPT ![s] = "deliver"]
        BY <4>1, <4>3
      <4> QED
        BY <3>1, <4>2, <4>3
    <3>5. TypeOK'
      BY <1>14, <3>1, <3>3, <3>4 DEF HgetUuid
    <3>6. Handling'
      BY <1>14, <3>1, <3>2, <3>3, <3>4 DEF HgetUuid
    <3> QED
      BY <3>5, <3>6
  <2>2. CASE uuid[forwardId_[s]] = Nil
    <3>1. Return(s)
      BY <1>14, <2>2 DEF HgetUuid
    <3>2. Typed' 
      <4>1. TypeOK'
        BY <1>14, <3>1 DEF HgetUuid, Return
      <4>2. Handling'
        BY <1>14, <3>1 DEF HgetUuid, Return
      <4> QED
        BY <4>1, <4>2
    <3> QED
      BY <3>2
  <2> QED
    BY <2>1, <2>2
<1>15. ASSUME NEW s \in Sessions, Remark(s) PROVE Typed'
  BY <1>15 DEF Remark
<1>16. ASSUME NEW s \in Sessions, RemarkFails(s) PROVE Typed'
  BY <1>16 DEF RemarkFails, Return
<1>17. ASSUME NEW s \in Sessions, DeliverLocal(s) PROVE Typed'
  <2>1. PushFrame(LocalTag(cur[s].kind), cur[s], forwardId_[s]) \in Frame
    BY <1>17, FramesTyped DEF DeliverLocal, Row
  <2> QED
    <3>1. out' \in [Sessions -> Seq(Frame)]
      <4>1. ruuid[s] \in Sessions
        BY <1>17 DEF DeliverLocal
      <4>2. Append(out[ruuid[s]], PushFrame(LocalTag(cur[s].kind), cur[s], forwardId_[s])) \in Seq(Frame)
        BY <2>1, <4>1
      <4> QED
        BY <1>17, <4>1, <4>2 DEF DeliverLocal, SendData
    <3> QED
      BY <1>17, <3>1 DEF DeliverLocal, Return
<1>18. ASSUME NEW s \in Sessions, Publish(s) PROVE Typed'
  <2>1. [reqid |-> RemoteTag(cur[s].kind), uuid |-> ruuid[s], row |-> cur[s],
         about |-> forwardId_[s]] \in Message
    BY <1>18, FramesTyped DEF Publish, Row, Message
  <2> QED
    <3>1. chan' \in [Servers -> Seq(Message)]
      <4>1. rhost[s] \in Servers
        BY <1>18 DEF Publish
      <4>2. Append(chan[rhost[s]], [reqid |-> RemoteTag(cur[s].kind), uuid |-> ruuid[s],
              row |-> cur[s], about |-> forwardId_[s]]) \in Seq(Message)
        BY <2>1, <4>1
      <4>3. CASE subscribed[rhost[s]]
        <5>1. chan' = [chan EXCEPT ![rhost[s]] = Append(chan[rhost[s]],
                [reqid |-> RemoteTag(cur[s].kind), uuid |-> ruuid[s],
                 row |-> cur[s], about |-> forwardId_[s]])]
          BY <1>18, <4>3 DEF Publish
        <5> HIDE DEF Typed
        <5>2. chan \in [Servers -> Seq(Message)]
          BY DEF Typed
        <5> QED
          BY <4>1, <4>2, <5>1, <5>2
      <4>4. CASE ~subscribed[rhost[s]]
        BY <1>18, <4>4 DEF Publish
      <4> QED
        BY <4>3, <4>4
    <3> QED
      BY <1>18, <3>1 DEF Publish, Return
<1>19. ASSUME NEW s \in Sessions, Drop(s) PROVE Typed'
  BY <1>19 DEF Drop
<1>20. ASSUME NEW s \in Sessions, Close(s) PROVE Typed'
  <2>1. host' \in [Users -> Servers \cup {Nil}] /\ uuid' \in [Users -> Sessions \cup {Nil}]
    <3>1. CASE isLogin_[s]
      <4>1. /\ host' = [host EXCEPT ![uid_[s]] = Nil] /\ uuid' = [uuid EXCEPT ![uid_[s]] = Nil]
            /\ uid_[s] \in Users
        BY <1>20, <3>1 DEF Close
      <4> QED
        BY <4>1
    <3>2. CASE ~isLogin_[s]
      BY <1>20, <3>2 DEF Close
    <3> QED
      BY <3>1, <3>2
  <2>2. /\ isLogin_' = [isLogin_ EXCEPT ![s] = FALSE] /\ pc' = [pc EXCEPT ![s] = "erase"]
        /\ UNCHANGED <<serverVars, srv, uid_, forwardId_, cur, dest, rhost, ruuid, out, dbVars>>
    BY <1>20 DEF Close
  <2>3. /\ isLogin_' \in [Sessions -> BOOLEAN] /\ pc' \in [Sessions -> PCs]
        /\ \A x \in Sessions : isLogin_'[x] => isLogin_[x]
        /\ pc'[s] = "erase" /\ \A x \in Sessions \ {s} : pc'[x] = pc[x]
    BY <2>2
  <2> QED
    BY <1>20, <2>1, <2>2, <2>3 DEF Close
<1>21. ASSUME NEW s \in Sessions, Erase(s) PROVE Typed'
  BY <1>21 DEF Erase
<1>22. CASE UNCHANGED vars
  BY <1>22 DEF vars
<1> QED
  BY <1>1, <1>2, <1>3, <1>4, <1>5, <1>6, <1>7, <1>8, <1>9, <1>10, <1>11, <1>12, <1>13,
     <1>14, <1>15, <1>16, <1>17, <1>18, <1>19, <1>20, <1>21, <1>22,
  ClientSteps DEF Next, Handler, Process

\* Every variable of the chat servers keeps its type, and no handler runs with a
\* variable it needs unset: no user, addressee, host or session is ever missing.
THEOREM TypeCorrect == Spec => []TypeOK
<1>1. Typed => TypeOK
  BY DEF Typed
<1> QED
  BY <1>1, TypedInit, TypedNext, PTL DEF Spec

-------------------------------------------------------------------------------
(* Presence: what redis says of a user.                                    *)

\* The session may still be named by a host field, by a uuid field.
MayOwnHost(s) == pc[s] \in {"crashed", "hset_uuid"} \/ (Open(s) /\ isLogin_[s])
MayOwnUuid(s) == pc[s] = "crashed" \/ (Open(s) /\ isLogin_[s])

\* RouteOwner says only that the owner of a host field is open; it must have got
\* past its hset, or a close of a session that never logged in would break it.
Route ==
  \A u \in Users :
    /\ uuid[u] # Nil => uid_[uuid[u]] = u /\ MayOwnUuid(uuid[u])
    /\ host[u] # Nil =>
         \E s \in Sessions : uid_[s] = u /\ srv[s] = host[u] /\ MayOwnHost(s)

LEMMA RouteImplies == Typed /\ Route => RouteOwner
BY DEF Typed, TypeOK, Route, RouteOwner, MayOwnHost, MayOwnUuid, Open

LEMMA RouteInit == Init => Route
BY DEF Init, Route

\* A step that leaves redis alone keeps the route if the sessions that may own a
\* field still may and are still those of the same user on the same server.
LEMMA RouteKept ==
  ASSUME Typed, Route, UNCHANGED redisVars,
         \A s \in Sessions : MayOwnHost(s) => MayOwnHost(s)' /\ uid_'[s] = uid_[s] /\ srv'[s] = srv[s],
         \A s \in Sessions : MayOwnUuid(s) => MayOwnUuid(s)' /\ uid_'[s] = uid_[s]
  PROVE  Route'
<1> SUFFICES ASSUME NEW u \in Users
             PROVE  /\ uuid'[u] # Nil => uid_'[uuid'[u]] = u /\ MayOwnUuid(uuid[u])'
                    /\ host'[u] # Nil =>
                         \E s \in Sessions : uid_'[s] = u /\ srv'[s] = host'[u] /\ MayOwnHost(s)'
  BY DEF Route
<1>1. ASSUME uuid'[u] # Nil PROVE uid_'[uuid'[u]] = u /\ MayOwnUuid(uuid[u])'
  <2>1. uuid'[u] = uuid[u] /\ uuid[u] \in Sessions
    BY <1>1 DEF redisVars, Typed, TypeOK
  <2> QED
    BY <1>1, <2>1 DEF Route, redisVars, MayOwnUuid, Open
<1>2. ASSUME host'[u] # Nil
      PROVE \E s \in Sessions : uid_'[s] = u /\ srv'[s] = host'[u] /\ MayOwnHost(s)'
  BY <1>2 DEF Route, redisVars
<1> QED
  BY <1>1, <1>2

LEMMA RouteNext == Typed /\ Route /\ [Next]_vars => Route'
<1> SUFFICES ASSUME Typed, Route, [Next]_vars PROVE Route'
  OBVIOUS
<1> USE ConstantAssumption DEF Typed, TypeOK, Goto, serverVars, sessionVars, redisVars, dbVars
<1>1. ASSUME NEW h \in Servers, NEW s \in Sessions, Accept(h, s) PROVE Route'
  BY <1>1, RouteKept DEF Accept, MayOwnHost, MayOwnUuid, Open
<1>2. ASSUME NEW h \in Servers, Subscribe(h) \/ RunLoop(h) \/ Restart(h) PROVE Route'
  BY <1>2, RouteKept DEF Subscribe, RunLoop, Restart, MayOwnHost, MayOwnUuid, Open
<1>3. ASSUME NEW h \in Servers, Crash(h) PROVE Route'
  BY <1>3, RouteKept DEF Crash, MayOwnHost, MayOwnUuid, Open
<1>4. ASSUME NEW s \in Sessions, NEW u \in Users, HadingLogin(s, u) PROVE Route'
  <2>1. ~MayOwnHost(s) /\ ~MayOwnUuid(s)
    BY <1>4 DEF HadingLogin, MayOwnHost, MayOwnUuid, Handling
  <2> QED
    BY <1>4, <2>1, RouteKept DEF HadingLogin, MayOwnHost, MayOwnUuid, Open
<1>5. ASSUME NEW s \in Sessions, HsetHost(s) PROVE Route'
  <2>1. /\ host' = [host EXCEPT ![uid_[s]] = srv[s]] /\ uid_[s] \in Users
        /\ pc' = [pc EXCEPT ![s] = "hset_uuid"]
        /\ UNCHANGED <<uuid, uid_, srv, isLogin_>>
    BY <1>5 DEF HsetHost, Handling
  <2>2. \A x \in Sessions : /\ MayOwnHost(x) => MayOwnHost(x)'
                            /\ MayOwnUuid(x) => MayOwnUuid(x)'
    BY <1>5, <2>1 DEF HsetHost, MayOwnHost, MayOwnUuid, Open
  <2>3. MayOwnHost(s)'
    BY <2>1 DEF MayOwnHost
  <2> QED
    BY <2>1, <2>2, <2>3 DEF Route
<1>6. ASSUME NEW s \in Sessions, HsetUuid(s) PROVE Route'
  <2>1. /\ uuid' = [uuid EXCEPT ![uid_[s]] = s] /\ uid_[s] \in Users
        /\ pc' = [pc EXCEPT ![s] = "idle"] /\ isLogin_' = [isLogin_ EXCEPT ![s] = TRUE]
        /\ UNCHANGED <<host, uid_, srv>>
    BY <1>6 DEF HsetUuid, Handling
  <2>2. \A x \in Sessions : /\ MayOwnHost(x) => MayOwnHost(x)'
                            /\ MayOwnUuid(x) => MayOwnUuid(x)'
    BY <1>6, <2>1 DEF HsetUuid, MayOwnHost, MayOwnUuid, Open
  <2>3. MayOwnUuid(s)'
    BY <2>1 DEF MayOwnUuid, Open
  <2> QED
    BY <2>1, <2>2, <2>3 DEF Route
<1>7. ASSUME NEW s \in Sessions, Close(s) PROVE Route'
  <2>1. /\ UNCHANGED <<uid_, srv>> /\ pc[s] = "close"
        /\ \A x \in Sessions \ {s} : pc'[x] = pc[x] /\ isLogin_'[x] = isLogin_[x]
    BY <1>7 DEF Close
  <2>2. \A x \in Sessions \ {s} : MayOwnHost(x)' = MayOwnHost(x) /\ MayOwnUuid(x)' = MayOwnUuid(x)
    BY <2>1 DEF MayOwnHost, MayOwnUuid, Open
  <2>3. CASE isLogin_[s]
    <3>1. /\ host' = [host EXCEPT ![uid_[s]] = Nil] /\ uuid' = [uuid EXCEPT ![uid_[s]] = Nil]
          /\ uid_[s] \in Users
      BY <1>7, <2>3 DEF Close, Handling
    <3> SUFFICES ASSUME NEW u \in Users
                 PROVE  /\ uuid'[u] # Nil => uid_'[uuid'[u]] = u /\ MayOwnUuid(uuid[u])'
                        /\ host'[u] # Nil =>
                             \E x \in Sessions : uid_'[x] = u /\ srv'[x] = host'[u] /\ MayOwnHost(x)'
      BY DEF Route
    <3>2. CASE u = uid_[s]
      BY <3>1, <3>2
    <3>3. CASE u # uid_[s]
      <4>1. uuid'[u] = uuid[u] /\ host'[u] = host[u]
        BY <3>1, <3>3
      <4>2. ASSUME uuid[u] # Nil PROVE uid_'[uuid[u]] = u /\ MayOwnUuid(uuid[u])'
        <5>1. uuid[u] \in Sessions \ {s} /\ uid_[uuid[u]] = u /\ MayOwnUuid(uuid[u])
          BY <3>3, <4>2 DEF Route
        <5> QED
          BY <2>1, <4>1, <5>1 DEF MayOwnUuid, Open
      <4>3. ASSUME host[u] # Nil
            PROVE  \E x \in Sessions : uid_'[x] = u /\ srv'[x] = host[u] /\ MayOwnHost(x)'
        <5>1. PICK x \in Sessions : uid_[x] = u /\ srv[x] = host[u] /\ MayOwnHost(x)
          BY <4>3 DEF Route
        <5>2. x # s
          BY <3>3, <5>1
        <5> QED
          BY <2>1, <2>2, <5>1, <5>2
      <4> QED
        BY <4>1, <4>2, <4>3
    <3> QED
      BY <3>2, <3>3
  <2>4. CASE ~isLogin_[s]
    <3>1. UNCHANGED <<host, uuid>> /\ ~MayOwnHost(s) /\ ~MayOwnUuid(s)
      <4>1. UNCHANGED <<host, uuid>>
        BY <1>7, <2>4 DEF Close
      <4> QED
        BY <2>1, <2>4, <4>1 DEF MayOwnHost, MayOwnUuid
    <3>2. /\ \A x \in Sessions : MayOwnHost(x) => MayOwnHost(x)' /\ uid_'[x] = uid_[x] /\ srv'[x] = srv[x]
          /\ \A x \in Sessions : MayOwnUuid(x) => MayOwnUuid(x)' /\ uid_'[x] = uid_[x]
      <4> SUFFICES ASSUME NEW x \in Sessions
                   PROVE  /\ MayOwnHost(x) => MayOwnHost(x)'
                          /\ MayOwnUuid(x) => MayOwnUuid(x)'
        BY <2>1
      <4>1. CASE x = s
        BY <3>1, <4>1
      <4>2. CASE x # s
        BY <2>2, <4>2
      <4> QED
        BY <4>1, <4>2
    <3> QED
      BY <3>1, <3>2, RouteKept
  <2> QED
    BY <2>3, <2>4
<1>8. ASSUME NEW s \in Sessions, Erase(s) \/ Drop(s) PROVE Route'
  BY <1>8, RouteKept DEF Erase, Drop, MayOwnHost, MayOwnUuid, Open
<1>9. ASSUME NEW s \in Sessions,
             \/ \E r \in RequestOf(s) : Stored(s, r) \/ StoredUnacked(s, r) \/ Declined(s, r) \/ NotStored(s, r) \/ Skipped(s, r)
             \/ \E kind \in ListKinds, fid \in Users \cup {Nil} : QueryList(s, kind, fid)
             \/ \E kind \in ListKinds \cup LookupKinds : Lookup(s, kind)
      PROVE  Route'
  <2>1. /\ UNCHANGED <<redisVars, uid_, srv, isLogin_>>
        /\ pc[s] = "idle" /\ pc' = [pc EXCEPT ![s] = "reply"]
    BY <1>9 DEF Stored, StoredUnacked, Declined, NotStored, Skipped, Request, QueryList, Lookup, MaySend
  <2> QED
    BY <2>1, RouteKept DEF MayOwnHost, MayOwnUuid, Open
<1>10. ASSUME NEW s \in Sessions,
              \/ Reply(s) \/ HgetHost(s) \/ HgetUuid(s) \/ Remark(s) \/ RemarkFails(s)
              \/ DeliverLocal(s) \/ Publish(s)
       PROVE  Route'
  <2>1. /\ UNCHANGED <<redisVars, uid_, srv, isLogin_>>
        /\ pc[s] \in {"reply", "hget_host", "hget_uuid", "remark", "deliver"}
        /\ \E l \in {"idle", "hget_host", "hget_uuid", "remark", "deliver"} :
             pc' = [pc EXCEPT ![s] = l]
    BY <1>10 DEF Reply, HgetHost, HgetUuid, Remark, RemarkFails, DeliverLocal, Publish, Return
  <2> QED
    BY <2>1, RouteKept DEF MayOwnHost, MayOwnUuid, Open
<1>11. CASE UNCHANGED vars
  BY <1>11, RouteKept DEF vars, MayOwnHost, MayOwnUuid, Open
<1> QED
  BY <1>1, <1>2, <1>3, <1>4, <1>5, <1>6, <1>7, <1>8, <1>9, <1>10, <1>11,
  ClientSteps DEF Next, Handler, Process

\* For any number of servers, sessions and crashes: what redis says of a user was
\* written by a session of that user that has not deleted it, unless its server
\* crashed.  opposideInfo never reads the trace of a closed connection.
THEOREM PresenceCorrect == Spec => []RouteOwner
BY TypedInit, TypedNext, RouteInit, RouteNext, RouteImplies, PTL DEF Spec

-------------------------------------------------------------------------------
(* Forwarding: who gets a message.                                         *)

\* What the lookup found, what is on a channel and what was pushed belongs to a
\* session of the user the message is for.
Addressed ==
  /\ \A s \in Sessions :
       pc[s] \in {"remark", "deliver"} => uid_[ruuid[s]] = forwardId_[s]
  /\ \A s \in Sessions : pc[s] = "reply" => dest[s].what # "push"
  /\ \A s \in Sessions : \A i \in DOMAIN out[s] :
       out[s][i].what = "push" => out[s][i].about \in Users /\ out[s][i].about = uid_[s]
  /\ \A h \in Servers : \A i \in DOMAIN chan[h] :
       chan[h][i].about = uid_[chan[h][i].uuid]

LEMMA AddressedInit == Init => Addressed
BY DEF Init, Addressed

\* A frame appended to a session's buffer is about the session's user if it is a
\* push, so the frames of the session are.
LEMMA PushAppended ==
  ASSUME Typed, Addressed, NEW x \in Sessions, NEW f \in Frame,
         f.what = "push" => f.about \in Users /\ f.about = uid_[x],
         SendData(x, f), UNCHANGED uid_
  PROVE  \A s \in Sessions : \A i \in DOMAIN out'[s] :
           out'[s][i].what = "push" => out'[s][i].about \in Users /\ out'[s][i].about = uid_'[s]
<1> SUFFICES ASSUME NEW s \in Sessions, NEW i \in DOMAIN out'[s], out'[s][i].what = "push"
             PROVE  out'[s][i].about \in Users /\ out'[s][i].about = uid_'[s]
  OBVIOUS
<1>1. CASE s # x
  BY <1>1 DEF SendData, Typed, TypeOK, Addressed
<1>2. CASE s = x
  <2>1. out'[x] = Append(out[x], f) /\ out[x] \in Seq(Frame)
    BY DEF SendData, Typed, TypeOK
  <2>2. CASE i = Len(out[x]) + 1
    BY <1>2, <2>1, <2>2
  <2>3. CASE i \in DOMAIN out[x]
    BY <1>2, <2>1, <2>3 DEF Addressed
  <2> QED
    BY <1>2, <2>1, <2>2, <2>3
<1> QED
  BY <1>1, <1>2

LEMMA AddressedNext == Typed /\ Route /\ Addressed /\ [Next]_vars => Addressed'
<1> SUFFICES ASSUME Typed, Route, Addressed, [Next]_vars PROVE Addressed'
  OBVIOUS
<1> USE ConstantAssumption DEF Goto, serverVars, sessionVars, redisVars, dbVars
<1> DEFINE Looked == \A s \in Sessions :
             pc[s] \in {"remark", "deliver"} => uid_[ruuid[s]] = forwardId_[s]
           Built == \A s \in Sessions : pc[s] = "reply" => dest[s].what # "push"
           Pushed == \A s \in Sessions : \A i \in DOMAIN out[s] :
             out[s][i].what = "push" => out[s][i].about \in Users /\ out[s][i].about = uid_[s]
           Queued == \A h \in Servers : \A i \in DOMAIN chan[h] :
             chan[h][i].about = uid_[chan[h][i].uuid]
\* Steps that append nothing to a buffer or a channel, and start no delivery.
<1>1. ASSUME UNCHANGED <<uid_, out, chan, ruuid, forwardId_, dest>>,
             \A s \in Sessions : /\ pc'[s] \in {"remark", "deliver"} => pc[s] \in {"remark", "deliver"}
                                 /\ pc'[s] = "reply" => pc[s] = "reply"
      PROVE  Addressed'
  <2>1. uid_' = uid_ /\ out' = out /\ chan' = chan /\ ruuid' = ruuid
        /\ forwardId_' = forwardId_ /\ dest' = dest
    BY <1>1
  <2>2. Looked' /\ Built'
    BY <1>1, <2>1 DEF Addressed
  <2>3. Pushed' /\ Queued'
    BY <2>1 DEF Addressed
  <2> QED
    BY <2>2, <2>3 DEF Addressed
<1>2. ASSUME NEW s \in Sessions, NEW h \in Servers,
             Accept(h, s) \/ Subscribe(h) \/ Restart(h)
      PROVE  Addressed'
  BY <1>1, <1>2 DEF Accept, Subscribe, Restart, Typed, TypeOK
<1>3. ASSUME NEW s \in Sessions, HsetHost(s) \/ HsetUuid(s) \/ Remark(s) \/ Drop(s) \/ Close(s) \/ Erase(s)
      PROVE  Addressed'
  <2>1. UNCHANGED <<uid_, out, chan, ruuid, forwardId_, dest>>
    BY <1>3 DEF HsetHost, HsetUuid, Remark, Drop, Close, Erase
  <2>2. \E label \in {"hset_uuid", "idle", "deliver", "close", "erase", "closed"} :
          /\ pc' = [pc EXCEPT ![s] = label]
          /\ label = "deliver" => pc[s] = "remark"
    BY <1>3 DEF HsetHost, HsetUuid, Remark, Drop, Close, Erase
  <2>3. PICK label \in {"hset_uuid", "idle", "deliver", "close", "erase", "closed"} :
          /\ pc' = [pc EXCEPT ![s] = label]
          /\ label = "deliver" => pc[s] = "remark"
    BY <2>2
  <2>4. \A x \in Sessions : /\ pc'[x] \in {"remark", "deliver"} => pc[x] \in {"remark", "deliver"}
                            /\ pc'[x] = "reply" => pc[x] = "reply"
    <3> TAKE x \in Sessions
    <3>1. CASE x = s
      BY <2>3, <3>1 DEF Typed, TypeOK
    <3>2. CASE x # s
      BY <2>3, <3>2 DEF Typed, TypeOK
    <3> QED
      BY <3>1, <3>2
  <2> QED
    BY <1>1, <2>1, <2>4
<1>4. ASSUME NEW h \in Servers, RunLoop(h) PROVE Addressed'
  <2> DEFINE m == Head(chan[h])
  <2>1. /\ m \in Message /\ m.about = uid_[m.uuid]
        /\ chan[h] \in Seq(Message) /\ chan[h] # <<>>
        /\ UNCHANGED <<uid_, pc, ruuid, forwardId_, dest>>
        /\ chan' = [chan EXCEPT ![h] = Tail(@)]
    BY <1>4 DEF RunLoop, Typed, TypeOK, Addressed
  <2>2. Looked' /\ Built'
    BY <2>1 DEF Addressed
  <2>3. Queued'
    BY <2>1 DEF Addressed, Typed, TypeOK
  <2>4. Pushed'
    <3>1. CASE m.uuid \in session_[h]
      <4>1. SendData(m.uuid, PushFrame(m.reqid, m.row, m.about))
        BY <1>4, <3>1 DEF RunLoop
      <4>2. PushFrame(m.reqid, m.row, m.about) \in Frame /\ m.uuid \in Sessions /\ m.about \in Users
        BY <2>1, FramesTyped DEF Message
      <4>3. PushFrame(m.reqid, m.row, m.about).about = uid_[m.uuid]
        BY <2>1 DEF PushFrame
      <4> QED
        BY <2>1, <4>1, <4>2, <4>3, PushAppended
    <3>2. CASE m.uuid \notin session_[h]
      BY <1>4, <2>1, <3>2 DEF RunLoop, Addressed
    <3> QED
      BY <3>1, <3>2
  <2> QED
    BY <2>2, <2>3, <2>4 DEF Addressed
<1>5. ASSUME NEW h \in Servers, Crash(h) PROVE Addressed'
  BY <1>5 DEF Crash, Addressed, Typed, TypeOK
<1>6. ASSUME NEW s \in Sessions, NEW u \in Users, HadingLogin(s, u) PROVE Addressed'
  <2> DEFINE f == ReplyFrame("USER_LOGIN_CHAT_SERVER", {})
  <2>1. /\ uid_[s] = Nil /\ uid_' = [uid_ EXCEPT ![s] = u] /\ SendData(s, f)
        /\ pc' = [pc EXCEPT ![s] = "hset_host"] /\ UNCHANGED <<chan, ruuid, forwardId_, dest>>
    BY <1>6 DEF HadingLogin
  <2>5. Built'
    BY <2>1 DEF Addressed, Typed, TypeOK
  <2>2. Looked'
    <3> SUFFICES ASSUME NEW x \in Sessions, pc'[x] \in {"remark", "deliver"}
                 PROVE  uid_'[ruuid[x]] = forwardId_[x]
      BY <2>1
    <3>1. pc[x] \in {"remark", "deliver"}
      BY <2>1 DEF Typed, TypeOK
    <3>2. uid_[ruuid[x]] = forwardId_[x] /\ forwardId_[x] \in Users /\ ruuid[x] \in Sessions
      BY <3>1 DEF Addressed, Typed, Handling
    <3>3. ruuid[x] # s
      BY <2>1, <3>2
    <3> QED
      BY <2>1, <3>2, <3>3 DEF Typed, TypeOK
  <2>3. Queued'
    <3> SUFFICES ASSUME NEW h \in Servers, NEW i \in DOMAIN chan[h]
                 PROVE  chan[h][i].about = uid_'[chan[h][i].uuid]
      BY <2>1
    <3>1. chan[h][i] \in Message
      BY DEF Typed, TypeOK
    <3>2. chan[h][i].about = uid_[chan[h][i].uuid]
      BY DEF Addressed
    <3> QED
      BY <2>1, <3>1, <3>2 DEF Message, Typed, TypeOK
  <2>4. Pushed'
    <3> SUFFICES ASSUME NEW x \in Sessions, NEW i \in DOMAIN out'[x], out'[x][i].what = "push"
                 PROVE  out'[x][i].about \in Users /\ out'[x][i].about = uid_'[x]
      OBVIOUS
    <3>1. CASE x # s
      BY <2>1, <3>1 DEF SendData, Typed, TypeOK, Addressed
    <3>2. CASE x = s
      <4>1. out'[s] = Append(out[s], f) /\ out[s] \in Seq(Frame) /\ f.what = "reply"
        BY <2>1 DEF SendData, Typed, TypeOK, ReplyFrame
      <4>2. i \in DOMAIN out[s] /\ out[s][i].what = "push"
        BY <3>2, <4>1
      <4> QED
        BY <2>1, <4>2 DEF Addressed
    <3> QED
      BY <3>1, <3>2
  <2> QED
    BY <2>2, <2>3, <2>4, <2>5 DEF Addressed
<1>7. ASSUME NEW s \in Sessions,
             \/ \E r \in RequestOf(s) : Stored(s, r) \/ StoredUnacked(s, r) \/ Declined(s, r) \/ NotStored(s, r) \/ Skipped(s, r)
             \/ \E kind \in ListKinds, fid \in Users \cup {Nil} : QueryList(s, kind, fid)
             \/ \E kind \in ListKinds \cup LookupKinds : Lookup(s, kind)
      PROVE  Addressed'
  <2>1. /\ UNCHANGED <<uid_, out, chan, ruuid>> /\ pc' = [pc EXCEPT ![s] = "reply"]
    BY <1>7 DEF Stored, StoredUnacked, Declined, NotStored, Skipped, Request, QueryList, Lookup
  <2>2. PICK fid, d : /\ forwardId_' = [forwardId_ EXCEPT ![s] = fid]
                      /\ dest' = [dest EXCEPT ![s] = d] /\ d.what # "push"
    <3>1. CASE \E r \in RequestOf(s) : Stored(s, r) \/ StoredUnacked(s, r) \/ Declined(s, r) \/ NotStored(s, r) \/ Skipped(s, r)
      <4>1. PICK r, acked, fid : Request(s, r, acked, fid)
        BY <3>1 DEF Stored, StoredUnacked, Declined, NotStored, Skipped
      <4>2. ReplyFrame(ReplyTag(r.kind), acked).what # "push"
        BY DEF ReplyFrame
      <4> QED
        BY <4>1, <4>2 DEF Request
    <3>2. CASE \E kind \in ListKinds, fid \in Users \cup {Nil} : QueryList(s, kind, fid)
      <4>1. PICK kind, fid : QueryList(s, kind, fid)
        BY <3>2
      <4>2. forwardId_' = [forwardId_ EXCEPT ![s] = forwardId_[s]]
        BY <4>1 DEF QueryList, Typed, TypeOK
      <4>5. PICK list \in Lists(uid_[s], kind, fid) : dest' = [dest EXCEPT ![s] =
              [tag |-> kind, what |-> "list", rows |-> list, about |-> fid]]
        BY <4>1 DEF QueryList
      <4> DEFINE d == [tag |-> kind, what |-> "list", rows |-> list, about |-> fid]
      <4>3. dest' = [dest EXCEPT ![s] = d]
        BY <4>5
      <4>4. d.what # "push"
        OBVIOUS
      <4> HIDE DEF d
      <4> QED
        BY <4>2, <4>3, <4>4
    <3>3. CASE \E kind \in ListKinds \cup LookupKinds : Lookup(s, kind)
      <4>1. PICK kind : Lookup(s, kind)
        BY <3>3
      <4>2. forwardId_' = [forwardId_ EXCEPT ![s] = forwardId_[s]]
        BY <4>1 DEF Lookup, Typed, TypeOK
      <4>3. dest' = [dest EXCEPT ![s] = ReplyFrame("LOOKUP", {})]
        BY <4>1 DEF Lookup
      <4>4. ReplyFrame("LOOKUP", {}).what # "push"
        BY DEF ReplyFrame
      <4> QED
        BY <4>2, <4>3, <4>4
    <3> QED
      BY <1>7, <3>1, <3>2, <3>3
  <2>3. Looked' /\ Built'
    BY <2>1, <2>2 DEF Addressed, Typed, TypeOK
  <2>4. Pushed' /\ Queued'
    BY <2>1 DEF Addressed
  <2> QED
    BY <2>3, <2>4 DEF Addressed
<1>8. ASSUME NEW s \in Sessions, Reply(s) PROVE Addressed'
  <2>1. /\ UNCHANGED <<uid_, chan, ruuid, forwardId_>> /\ SendData(s, dest[s])
        /\ pc' \in {[pc EXCEPT ![s] = "idle"], [pc EXCEPT ![s] = "hget_host"]}
        /\ dest[s] \in Frame
    BY <1>8 DEF Reply, Typed, Handling
  <2>2. Looked' /\ Queued' /\ Built'
    <3>1. \A x \in Sessions : pc'[x] \in {"remark", "deliver", "reply"} => x # s /\ pc'[x] = pc[x]
      BY <2>1 DEF Typed, TypeOK
    <3>2. \A x \in Sessions \ {s} : dest'[x] = dest[x]
      BY <1>8 DEF Reply, Typed, TypeOK
    <3> QED
      BY <2>1, <3>1, <3>2 DEF Addressed
  <2>3. dest[s].what # "push"
    BY <1>8 DEF Reply, Addressed
  <2>4. Pushed'
    BY <2>1, <2>3, PushAppended
  <2> QED
    BY <2>2, <2>4 DEF Addressed
<1>9. ASSUME NEW s \in Sessions, HgetHost(s) PROVE Addressed'
  <2>1. /\ UNCHANGED <<uid_, out, chan, dest, forwardId_>>
        /\ pc' \in {[pc EXCEPT ![s] = "idle"], [pc EXCEPT ![s] = "hget_uuid"]}
        /\ \A x \in Sessions \ {s} : ruuid'[x] = ruuid[x]
    BY <1>9 DEF HgetHost, Return, Typed, TypeOK
  <2>2. \A x \in Sessions : pc'[x] \in {"remark", "deliver", "reply"} => x # s /\ pc'[x] = pc[x]
    BY <2>1 DEF Typed, TypeOK
  <2> QED
    BY <2>1, <2>2 DEF Addressed
<1>10. ASSUME NEW s \in Sessions, HgetUuid(s) PROVE Addressed'
  <2>1. /\ UNCHANGED <<uid_, out, chan, dest, forwardId_>>
        /\ \A x \in Sessions \ {s} : ruuid'[x] = ruuid[x] /\ pc'[x] = pc[x]
        /\ pc'[s] # "reply"
    BY <1>10 DEF HgetUuid, Return, Typed, TypeOK
  <2>2. pc'[s] \in {"remark", "deliver"} => uid_[ruuid'[s]] = forwardId_[s]
    <3>1. CASE uuid[forwardId_[s]] = Nil
      BY <1>10, <3>1 DEF HgetUuid, Return, Typed, TypeOK
    <3>2. CASE uuid[forwardId_[s]] # Nil
      <4>1. ruuid'[s] = uuid[forwardId_[s]] /\ forwardId_[s] \in Users
        BY <1>10, <3>2 DEF HgetUuid, Typed, TypeOK, Handling
      <4> QED
        BY <3>2, <4>1 DEF Route
    <3> QED
      BY <3>1, <3>2
  <2> QED
    BY <2>1, <2>2 DEF Addressed
<1>11. ASSUME NEW s \in Sessions, RemarkFails(s) PROVE Addressed'
  <2>1. /\ UNCHANGED <<uid_, out, chan, dest, forwardId_>>
        /\ pc' = [pc EXCEPT ![s] = "idle"]
        /\ \A x \in Sessions \ {s} : ruuid'[x] = ruuid[x]
    BY <1>11 DEF RemarkFails, Return, Typed, TypeOK
  <2> QED
    BY <2>1 DEF Addressed, Typed, TypeOK
\* The two ways to deliver: the lookup was right, and uid_ never changes again.
<1>12. ASSUME NEW s \in Sessions, DeliverLocal(s) \/ Publish(s)
       PROVE  /\ uid_[ruuid[s]] = forwardId_[s] /\ forwardId_[s] \in Users
              /\ ruuid[s] \in Sessions /\ rhost[s] \in Servers /\ cur[s] \in Row
              /\ UNCHANGED <<uid_, dest>> /\ Looked' /\ Built'
  <2>1. pc[s] = "deliver"
    BY <1>12 DEF DeliverLocal, Publish
  <2>2. /\ UNCHANGED <<uid_, dest, forwardId_>> /\ pc' = [pc EXCEPT ![s] = "idle"]
        /\ \A x \in Sessions \ {s} : ruuid'[x] = ruuid[x]
    BY <1>12 DEF DeliverLocal, Publish, Return, Typed, TypeOK
  <2>3. Looked' /\ Built'
    BY <2>2 DEF Addressed, Typed, TypeOK
  <2> QED
    BY <2>1, <2>2, <2>3 DEF Addressed, Typed, Handling
<1>13. ASSUME NEW s \in Sessions, DeliverLocal(s) PROVE Addressed'
  <2> DEFINE f == PushFrame(LocalTag(cur[s].kind), cur[s], forwardId_[s])
  <2>1. f \in Frame /\ f.about = forwardId_[s]
    BY <1>12, <1>13, FramesTyped DEF Row, PushFrame
  <2>2. Pushed'
    <3>1. CASE ruuid[s] \in session_[srv[s]]
      <4>1. SendData(ruuid[s], f)
        BY <1>13, <3>1 DEF DeliverLocal
      <4> QED
        BY <1>12, <1>13, <2>1, <4>1, PushAppended
    <3>2. CASE ruuid[s] \notin session_[srv[s]]
      BY <1>12, <1>13, <3>2 DEF DeliverLocal, Addressed
    <3> QED
      BY <3>1, <3>2
  <2>3. Queued'
    BY <1>12, <1>13 DEF DeliverLocal, Addressed
  <2> QED
    BY <1>12, <1>13, <2>2, <2>3 DEF Addressed
<1>14. ASSUME NEW s \in Sessions, Publish(s) PROVE Addressed'
  <2> DEFINE m == [reqid |-> RemoteTag(cur[s].kind), uuid |-> ruuid[s],
                   row |-> cur[s], about |-> forwardId_[s]]
  <2>1. m \in Message /\ m.about = uid_[m.uuid]
    BY <1>12, <1>14, FramesTyped DEF Message, Row
  <2>2. Queued'
    <3> SUFFICES ASSUME NEW h \in Servers, NEW i \in DOMAIN chan'[h]
                 PROVE  chan'[h][i].about = uid_[chan'[h][i].uuid]
      BY <1>12, <1>14
    <3>1. CASE chan'[h] = chan[h]
      BY <3>1 DEF Addressed
    <3>2. CASE chan'[h] # chan[h]
      <4>1. chan'[h] = Append(chan[h], m) /\ chan[h] \in Seq(Message)
        BY <1>12, <1>14, <3>2 DEF Publish, Typed, TypeOK
      <4>2. CASE i = Len(chan[h]) + 1
        BY <2>1, <4>1, <4>2
      <4>3. CASE i \in DOMAIN chan[h]
        BY <4>1, <4>3 DEF Addressed
      <4> QED
        BY <4>1, <4>2, <4>3
    <3> QED
      BY <3>1, <3>2
  <2>3. Pushed'
    BY <1>12, <1>14 DEF Publish, Addressed
  <2> QED
    BY <1>12, <1>14, <2>2, <2>3 DEF Addressed
<1>15. CASE UNCHANGED vars
  BY <1>15 DEF vars, Addressed
<1>16. CASE Next
  <2>1. ASSUME NEW s \in Sessions, Handler(s) PROVE Addressed'
    BY <2>1, <1>3, <1>8, <1>9, <1>10, <1>11, <1>13, <1>14 DEF Handler
  <2>2. ASSUME NEW s \in Sessions, Client(s) PROVE Addressed'
    BY <2>2, <1>2, <1>3, <1>6, <1>7, ClientSteps
  <2>3. ASSUME NEW h \in Servers, Process(h) PROVE Addressed'
    <3>1. CASE Subscribe(h) \/ Restart(h)
      BY <3>1 DEF Subscribe, Restart, Addressed
    <3> QED
      BY <2>3, <3>1, <1>4, <1>5 DEF Process
  <2> QED
    BY <1>16, <2>1, <2>2, <2>3 DEF Next
<1> QED
  BY <1>15, <1>16

\* For any number of servers, users and sessions, with any interleaving of lookups,
\* logins, closes and crashes: a forwarded message is only ever pushed to a session
\* of the user it was forwarded to.
THEOREM PushesAddressed == Spec => []PushToAddressee
<1>1. Addressed => PushToAddressee
  BY DEF Addressed, PushToAddressee
<1> QED
  BY <1>1, TypedInit, TypedNext, RouteInit, RouteNext, AddressedInit, AddressedNext, PTL DEF Spec

-------------------------------------------------------------------------------
(* In which order frames reach a session, and why a message may be forwarded  *)
(* to it.                                                                     *)

Base == Typed /\ Route /\ Addressed

LEMMA BaseInit == Init => Base
  BY TypedInit, RouteInit, AddressedInit DEF Base

LEMMA BaseNext == Base /\ [Next]_vars => Base'
  BY TypedNext, RouteNext, AddressedNext DEF Base

\* The steps that append nothing to a write buffer or a channel, make no request,
\* log nobody in and leave the cause of what is forwarded alone.
Quiet ==
  /\ UNCHANGED <<uid_, forwardId_, out, issued, rows>>
  /\ \A s \in Sessions : cur'[s] \in {cur[s], Nil}
  /\ \A s \in Sessions : /\ pc'[s] = "free" => pc[s] = "free"
                         /\ pc'[s] = "reply" => pc[s] = "reply" \/ uid_[s] \in Users
  /\ \A s \in Sessions : pc[s] # "free" => srv'[s] = srv[s] /\ pc'[s] # "free"

LEMMA Steps ==
  ASSUME Base, [Next]_vars
  PROVE  \/ Quiet /\ (\/ UNCHANGED <<session_, chan>>
                      \/ \E h \in Servers, s \in Sessions : Accept(h, s)
                      \/ \E h \in Servers : Crash(h)
                      \/ \E s \in Sessions : Erase(s)
                      \/ \E s \in Sessions : Publish(s))
         \/ \E s \in Sessions, u \in Users : HadingLogin(s, u)
         \/ \E s \in Sessions : \E r \in RequestOf(s) :
              \/ Stored(s, r) \/ StoredUnacked(s, r) \/ Declined(s, r)
              \/ NotStored(s, r) \/ Skipped(s, r)
         \/ \E s \in Sessions : Reply(s)
         \/ \E h \in Servers : RunLoop(h)
         \/ \E s \in Sessions : DeliverLocal(s)
<1> USE ConstantAssumption DEF Base, Typed, TypeOK, Goto, serverVars, sessionVars, redisVars, dbVars
<1>1. ASSUME NEW s \in Sessions, NEW h \in Servers, Accept(h, s) PROVE Quiet
  BY <1>1 DEF Accept, Quiet
<1>2. ASSUME NEW h \in Servers, Subscribe(h) \/ Restart(h)
      PROVE  Quiet /\ UNCHANGED <<session_, chan>>
  BY <1>2 DEF Subscribe, Restart, Quiet
<1>3. ASSUME NEW h \in Servers, Crash(h) PROVE Quiet
  BY <1>3 DEF Crash, Quiet
<1>4. ASSUME NEW s \in Sessions, HsetHost(s) \/ HsetUuid(s) \/ Remark(s) \/ Drop(s) \/ Close(s)
      PROVE  Quiet /\ UNCHANGED <<session_, chan>>
  BY <1>4 DEF HsetHost, HsetUuid, Remark, Drop, Close, Quiet
<1>5. ASSUME NEW s \in Sessions, HgetHost(s) \/ HgetUuid(s) \/ RemarkFails(s)
      PROVE  Quiet /\ UNCHANGED <<session_, chan>>
  BY <1>5 DEF HgetHost, HgetUuid, RemarkFails, Return, Quiet
<1>6. ASSUME NEW s \in Sessions, Erase(s) PROVE Quiet
  BY <1>6 DEF Erase, Quiet
<1>7. ASSUME NEW s \in Sessions, Publish(s) PROVE Quiet
  BY <1>7 DEF Publish, Return, Quiet
<1>8. ASSUME NEW s \in Sessions,
             \/ \E kind \in ListKinds, fid \in Users \cup {Nil} : QueryList(s, kind, fid)
             \/ \E kind \in ListKinds \cup LookupKinds : Lookup(s, kind)
      PROVE  Quiet /\ UNCHANGED <<session_, chan>>
  BY <1>8 DEF QueryList, Lookup, MaySend, Quiet
<1>9. CASE UNCHANGED vars
  BY <1>9 DEF vars, Quiet
<1>10. ASSUME NEW s \in Sessions, Client(s)
       PROVE \/ Quiet /\ (UNCHANGED <<session_, chan>> \/ \E h \in Servers : Accept(h, s))
             \/ \E u \in Users : HadingLogin(s, u)
             \/ \E r \in RequestOf(s) :
                  \/ Stored(s, r) \/ StoredUnacked(s, r) \/ Declined(s, r)
                  \/ NotStored(s, r) \/ Skipped(s, r)
  BY <1>1, <1>4, <1>8, <1>10, ClientSteps
<1>11. ASSUME NEW s \in Sessions, Handler(s)
       PROVE \/ Quiet /\ (UNCHANGED <<session_, chan>> \/ Erase(s) \/ Publish(s))
             \/ Reply(s) \/ DeliverLocal(s)
  BY <1>4, <1>5, <1>6, <1>7, <1>11 DEF Handler
<1>12. ASSUME NEW h \in Servers, Process(h)
       PROVE (Quiet /\ (UNCHANGED <<session_, chan>> \/ Crash(h))) \/ RunLoop(h)
  BY <1>2, <1>3, <1>12 DEF Process
<1> QED
  BY <1>9, <1>10, <1>11, <1>12 DEF Next

\* The frames of the buffers after a frame is appended to one of them.
LEMMA FrameAppended ==
  ASSUME Base, NEW x \in Sessions, NEW f \in Frame, SendData(x, f)
  PROVE  \A s \in Sessions : \A i \in DOMAIN out'[s] :
           \/ i \in DOMAIN out[s] /\ out'[s][i] = out[s][i]
           \/ s = x /\ i = Len(out[x]) + 1 /\ out'[s][i] = f
<1> SUFFICES ASSUME NEW s \in Sessions, NEW i \in DOMAIN out'[s]
             PROVE  \/ i \in DOMAIN out[s] /\ out'[s][i] = out[s][i]
                    \/ s = x /\ i = Len(out[x]) + 1 /\ out'[s][i] = f
  OBVIOUS
<1>1. out \in [Sessions -> Seq(Frame)] /\ out' = [out EXCEPT ![x] = Append(out[x], f)]
  BY DEF Base, Typed, TypeOK, SendData
<1>2. CASE s # x
  BY <1>1, <1>2
<1>3. CASE s = x
  BY <1>1, <1>3
<1> QED
  BY <1>2, <1>3

\* What RunLoop reads: a message, and where it goes.
LEMMA NextMessage ==
  ASSUME Base, NEW h \in Servers, RunLoop(h)
  PROVE  /\ 1 \in DOMAIN chan[h] /\ chan[h][1] \in Message /\ chan[h][1] = Head(chan[h])
         /\ \A k \in Servers : \A i \in DOMAIN chan'[k] :
              chan'[k][i] = (IF k = h THEN chan[h][i + 1] ELSE chan[k][i])
              /\ (IF k = h THEN i + 1 ELSE i) \in DOMAIN chan[k]
<1>1. /\ chan \in [Servers -> Seq(Message)] /\ chan[h] # <<>>
      /\ chan' = [chan EXCEPT ![h] = Tail(chan[h])]
  BY DEF RunLoop, Base, Typed, TypeOK
<1>2. /\ 1 \in DOMAIN chan[h] /\ chan[h][1] \in Message /\ chan[h][1] = Head(chan[h])
      /\ \A i \in DOMAIN Tail(chan[h]) :
           Tail(chan[h])[i] = chan[h][i + 1] /\ i + 1 \in DOMAIN chan[h]
  BY <1>1
<1> QED
  BY <1>1, <1>2

\* The messages of the channels after one is published.
LEMMA Published ==
  ASSUME Base, NEW s \in Sessions, Publish(s)
  PROVE  /\ cur[s] \in Row /\ forwardId_[s] \in Users /\ cur' = [cur EXCEPT ![s] = Nil]
         /\ rhost[s] # srv[s] /\ srv' = srv
         /\ \A h \in Servers : \A i \in DOMAIN chan'[h] :
              \/ i \in DOMAIN chan[h] /\ chan'[h][i] = chan[h][i]
              \/ /\ h = rhost[s] /\ i = Len(chan[h]) + 1
                 /\ chan'[h][i].row = cur[s] /\ chan'[h][i].about = forwardId_[s]
<1> DEFINE m == [reqid |-> RemoteTag(cur[s].kind), uuid |-> ruuid[s],
                 row |-> cur[s], about |-> forwardId_[s]]
<1>1. /\ cur[s] \in Row /\ forwardId_[s] \in Users /\ cur' = [cur EXCEPT ![s] = Nil]
      /\ rhost[s] # srv[s] /\ srv' = srv
      /\ rhost[s] \in Servers /\ ruuid[s] \in Sessions
  BY DEF Publish, Return, Base, Typed, Handling, sessionVars
<1>2. m \in Message /\ m.row = cur[s] /\ m.about = forwardId_[s]
  BY <1>1, FramesTyped DEF Message, Row
<1>3. /\ chan \in [Servers -> Seq(Message)]
      /\ chan' = chan \/ chan' = [chan EXCEPT ![rhost[s]] = Append(chan[rhost[s]], m)]
  BY DEF Publish, Base, Typed, TypeOK
<1> HIDE DEF m
<1>4. ASSUME NEW h \in Servers, NEW i \in DOMAIN chan'[h]
      PROVE  \/ i \in DOMAIN chan[h] /\ chan'[h][i] = chan[h][i]
             \/ h = rhost[s] /\ i = Len(chan[h]) + 1 /\ chan'[h][i] = m
  <2>1. CASE chan'[h] = chan[h]
    BY <1>4, <2>1
  <2>2. CASE h = rhost[s] /\ chan'[h] = Append(chan[h], m)
    BY <1>2, <1>3, <1>4, <2>2
  <2> QED
    BY <1>1, <1>3, <2>1, <2>2
<1> QED
  BY <1>1, <1>2, <1>4

-------------------------------------------------------------------------------
(* The login reply.                                                        *)

\* LoginReplyFirst, and that a session without a user was sent nothing: a lookup
\* finds only sessions with a user, and a request is handled only for one.
Greeted ==
  \A s \in Sessions :
    /\ pc[s] = "free" => uid_[s] = Nil
    /\ pc[s] = "reply" => uid_[s] \in Users
    /\ uid_[s] = Nil => out[s] = <<>>
    /\ uid_[s] # Nil => out[s] # <<>> /\ out[s][1].tag = "USER_LOGIN_CHAT_SERVER"

LEMMA GreetedInit == Init => Greeted
  BY ConstantAssumption DEF Init, Greeted

\* A frame appended to the buffer of a session with a user changes nothing.
LEMMA GreetedAppend ==
  ASSUME Base, Greeted, NEW x \in Sessions, NEW f, uid_[x] # Nil, SendData(x, f),
         UNCHANGED uid_,
         \A s \in Sessions : /\ pc'[s] = "free" => pc[s] = "free"
                             /\ pc'[s] = "reply" => pc[s] = "reply"
  PROVE  Greeted'
<1>1. /\ out[x] \in Seq(Frame) /\ out[x] # <<>> /\ out[x][1].tag = "USER_LOGIN_CHAT_SERVER"
      /\ out' = [out EXCEPT ![x] = Append(out[x], f)] /\ out \in [Sessions -> Seq(Frame)]
  BY DEF Base, Typed, TypeOK, Greeted, SendData
<1>2. Append(out[x], f) # <<>> /\ Append(out[x], f)[1] = out[x][1]
  BY <1>1
<1>3. \A s \in Sessions : out'[s] = IF s = x THEN Append(out[x], f) ELSE out[s]
  BY <1>1
<1> QED
  BY <1>1, <1>2, <1>3 DEF Greeted

LEMMA GreetedNext == Base /\ Greeted /\ [Next]_vars => Greeted'
<1> SUFFICES ASSUME Base, Greeted, [Next]_vars PROVE Greeted'
  OBVIOUS
<1> USE ConstantAssumption DEF Goto, serverVars, sessionVars, redisVars, dbVars
<1>1. CASE Quiet
  BY <1>1 DEF Quiet, Greeted
<1>2. ASSUME NEW s \in Sessions, NEW u \in Users, HadingLogin(s, u) PROVE Greeted'
  <2> DEFINE f == ReplyFrame("USER_LOGIN_CHAT_SERVER", {})
  <2>1. /\ out[s] = <<>> /\ out' = [out EXCEPT ![s] = Append(out[s], f)]
        /\ uid_' = [uid_ EXCEPT ![s] = u] /\ pc' = [pc EXCEPT ![s] = "hset_host"]
    BY <1>2 DEF HadingLogin, SendData, Greeted
  <2>2. Append(out[s], f) = <<f>> /\ f.tag = "USER_LOGIN_CHAT_SERVER"
    BY <2>1 DEF ReplyFrame
  <2> HIDE DEF f
  <2> QED
    BY <2>1, <2>2 DEF Greeted, Base, Typed, TypeOK
<1>3. ASSUME NEW s \in Sessions, NEW r \in RequestOf(s),
             \/ Stored(s, r) \/ StoredUnacked(s, r) \/ Declined(s, r)
             \/ NotStored(s, r) \/ Skipped(s, r)
      PROVE  Greeted'
  <2>1. PICK acked, fid : Request(s, r, acked, fid)
    BY <1>3 DEF Stored, StoredUnacked, Declined, NotStored, Skipped
  <2> QED
    BY <2>1 DEF Request, MaySend, Greeted, Base, Typed, TypeOK
<1>4. ASSUME NEW s \in Sessions, Reply(s) PROVE Greeted'
  <2>1. /\ uid_[s] # Nil /\ SendData(s, dest[s]) /\ UNCHANGED uid_
        /\ pc' \in {[pc EXCEPT ![s] = "idle"], [pc EXCEPT ![s] = "hget_host"]}
    BY <1>4 DEF Reply, Greeted
  <2> QED
    BY ZenonT(30), <2>1, GreetedAppend DEF Base, Typed, TypeOK
<1>5. ASSUME NEW h \in Servers, RunLoop(h) PROVE Greeted'
  <2> DEFINE m == Head(chan[h])
  <2>1. /\ m.uuid \in Sessions /\ m.about \in Users /\ m.about = uid_[m.uuid]
        /\ UNCHANGED <<uid_, pc>>
    <3>1. chan[h] \in Seq(Message) /\ chan[h] # <<>>
      BY <1>5 DEF RunLoop, Base, Typed, TypeOK
    <3>2. 1 \in DOMAIN chan[h] /\ m = chan[h][1] /\ m \in Message
      BY <3>1
    <3> QED
      BY <1>5, <3>2 DEF RunLoop, Base, Addressed, Message
  <2>2. CASE m.uuid \in session_[h]
    <3>1. SendData(m.uuid, PushFrame(m.reqid, m.row, m.about))
      BY <1>5, <2>2 DEF RunLoop
    <3> QED
      BY <2>1, <3>1, GreetedAppend
  <2>3. CASE m.uuid \notin session_[h]
    BY <1>5, <2>1, <2>3 DEF RunLoop, Greeted
  <2> QED
    BY <2>2, <2>3
<1>6. ASSUME NEW s \in Sessions, DeliverLocal(s) PROVE Greeted'
  <2>1. /\ ruuid[s] \in Sessions /\ uid_[ruuid[s]] \in Users
        /\ UNCHANGED uid_ /\ pc' = [pc EXCEPT ![s] = "idle"]
    BY <1>6 DEF DeliverLocal, Return, Base, Typed, Handling, Addressed
  <2>2. CASE ruuid[s] \in session_[srv[s]]
    <3>1. SendData(ruuid[s], PushFrame(LocalTag(cur[s].kind), cur[s], forwardId_[s]))
      BY <1>6, <2>2 DEF DeliverLocal
    <3> QED
      BY <2>1, <3>1, GreetedAppend DEF Base, Typed, TypeOK
  <2>3. CASE ruuid[s] \notin session_[srv[s]]
    BY <1>6, <2>1, <2>3 DEF DeliverLocal, Greeted, Base, Typed, TypeOK
  <2> QED
    BY <2>2, <2>3
<1> QED
  BY Steps, <1>1, <1>2, <1>3, <1>4, <1>5, <1>6

\* Whatever is forwarded to a session and whenever, the first frame its client gets
\* is the reply to the login.
THEOREM LoginReplyComesFirst == Spec => []LoginReplyFirst
<1>1. Greeted => LoginReplyFirst
  BY DEF Greeted, LoginReplyFirst
<1> QED
  BY <1>1, BaseInit, BaseNext, GreetedInit, GreetedNext, PTL DEF Spec

-------------------------------------------------------------------------------
(* Why a message may be forwarded.                                         *)

\* Session r.via has stored a request of the user who sends r to this addressee.
Backing(r, to) == \E q \in rows : q.via = r.via /\ q.from = r.from /\ q.to = to

BackedFrame(f) == f.what = "push" => \A r \in f.rows : Backing(r, f.about)

\* forwardId_ is backed from the moment it is set, and so is what follows from it:
\* the message on a channel and the frame.
Backed ==
  /\ \A s \in Sessions :
       forwardId_[s] \in Users =>
         \E q \in rows : q.via = s /\ q.from = uid_[s] /\ q.to = forwardId_[s]
  /\ \A s \in Sessions : cur[s] # Nil => cur[s].via = s /\ cur[s].from = uid_[s]
  /\ \A h \in Servers : \A i \in DOMAIN chan[h] : Backing(chan[h][i].row, chan[h][i].about)
  /\ \A s \in Sessions : \A i \in DOMAIN out[s] : BackedFrame(out[s][i])

LEMMA BackedInit == Init => Backed
  BY ConstantAssumption DEF Init, Backed

LEMMA BackedImplies == Base /\ Backed => PushBacked
  BY DEF Base, Addressed, Backed, BackedFrame, Backing, PushBacked

\* What a step that takes no row away and adds no frame keeps.
LEMMA BackedAppend ==
  ASSUME Base, Backed, NEW x \in Sessions, NEW f \in Frame, SendData(x, f), BackedFrame(f),
         UNCHANGED rows
  PROVE  \A s \in Sessions : \A i \in DOMAIN out'[s] : BackedFrame(out[s][i])'
<1> SUFFICES ASSUME NEW s \in Sessions, NEW i \in DOMAIN out'[s]
             PROVE  BackedFrame(out[s][i])'
  OBVIOUS
<1>1. out'[s][i] = f \/ (i \in DOMAIN out[s] /\ out'[s][i] = out[s][i])
  BY FrameAppended
<1> QED
  BY <1>1 DEF Backed, BackedFrame, Backing

LEMMA BackedNext == Base /\ Backed /\ [Next]_vars => Backed'
<1> SUFFICES ASSUME Base, Backed, [Next]_vars PROVE Backed'
  OBVIOUS
<1> USE ConstantAssumption DEF Goto, serverVars, sessionVars, redisVars, dbVars
<1> DEFINE Causes == \A s \in Sessions :
             forwardId_[s] \in Users =>
               \E q \in rows : q.via = s /\ q.from = uid_[s] /\ q.to = forwardId_[s]
           Owns == \A s \in Sessions : cur[s] # Nil => cur[s].via = s /\ cur[s].from = uid_[s]
           Queued == \A h \in Servers : \A i \in DOMAIN chan[h] :
             Backing(chan[h][i].row, chan[h][i].about)
           Framed == \A s \in Sessions : \A i \in DOMAIN out[s] : BackedFrame(out[s][i])
<1>1. ASSUME UNCHANGED <<uid_, forwardId_, rows>>, \A s \in Sessions : cur'[s] \in {cur[s], Nil}
      PROVE  Causes' /\ Owns'
  BY <1>1 DEF Backed
<1>2. ASSUME UNCHANGED <<chan, rows>> PROVE Queued'
  BY <1>2 DEF Backed, Backing
<1>3. CASE Quiet /\ (\/ UNCHANGED chan
                     \/ \E h \in Servers, s \in Sessions : Accept(h, s)
                     \/ \E h \in Servers : Crash(h)
                     \/ \E s \in Sessions : Erase(s)
                     \/ \E s \in Sessions : Publish(s))
  <2>1. Causes' /\ Owns' /\ Framed'
    BY <1>1, <1>3 DEF Quiet, Backed, BackedFrame, Backing
  <2>2. ASSUME \/ UNCHANGED chan
               \/ \E h \in Servers, s \in Sessions : Accept(h, s)
               \/ \E s \in Sessions : Erase(s)
        PROVE  Queued'
    <3>1. chan' = chan
      BY <2>2 DEF Accept, Erase
    <3>2. rows' = rows
      BY <1>3 DEF Quiet
    <3> QED
      BY <1>2, <3>1, <3>2
  <2>3. ASSUME NEW h \in Servers, Crash(h) PROVE Queued'
    BY <1>3, <2>3 DEF Crash, Quiet, Backed, Backing, Base, Typed, TypeOK
  <2>4. ASSUME NEW s \in Sessions, Publish(s) PROVE Queued'
    <3>1. rows' = rows
      BY <1>3 DEF Quiet
    <3>2. Backing(cur[s], forwardId_[s])
      BY <2>4, Published, NilAssumption DEF Backed, Backing
    <3> QED
      BY <2>4, <3>1, <3>2, Published DEF Backed, Backing
  <2> QED
    BY <1>3, <2>1, <2>2, <2>3, <2>4 DEF Backed
<1>4. ASSUME NEW s \in Sessions, NEW u \in Users, HadingLogin(s, u) PROVE Backed'
  <2> DEFINE f == ReplyFrame("USER_LOGIN_CHAT_SERVER", {})
  <2>1. /\ uid_[s] = Nil /\ uid_' = [uid_ EXCEPT ![s] = u] /\ SendData(s, f)
        /\ UNCHANGED <<chan, forwardId_, cur, rows>>
    BY <1>4 DEF HadingLogin
  <2>2. f \in Frame /\ BackedFrame(f)
    BY FramesTyped DEF Tags, ReplyFrame, BackedFrame
  <2>3. forwardId_[s] \notin Users /\ cur[s] = Nil
    BY <2>1 DEF Backed, Base, Typed, TypeOK, Row
  <2>4. Causes' /\ Owns'
    BY ZenonT(30), <2>1, <2>3 DEF Backed, Base, Typed, TypeOK
  <2> QED
    BY <1>2, <2>1, <2>2, <2>4, BackedAppend DEF Backed
<1>5. ASSUME NEW s \in Sessions, NEW r \in RequestOf(s),
             \/ Stored(s, r) \/ StoredUnacked(s, r) \/ Declined(s, r)
             \/ NotStored(s, r) \/ Skipped(s, r)
      PROVE  Backed'
  <2>1. PICK acked, fid :
          /\ Request(s, r, acked, fid)
          /\ rows \subseteq rows'
          /\ fid \in Users => fid = forwardId_[s] \/ (fid = r.to /\ r \in rows')
    BY <1>5 DEF Stored, StoredUnacked, Declined, NotStored, Skipped, Store
  <2>2. /\ UNCHANGED <<out, chan, uid_>> /\ r.via = s /\ r.from = uid_[s]
        /\ cur' = [cur EXCEPT ![s] = r] /\ forwardId_' = [forwardId_ EXCEPT ![s] = fid]
    BY <2>1 DEF Request, RequestOf
  <2>3. Causes'
    <3> SUFFICES ASSUME NEW x \in Sessions, forwardId_'[x] \in Users
                 PROVE  \E q \in rows' : q.via = x /\ q.from = uid_[x] /\ q.to = forwardId_'[x]
      BY <2>2
    <3>1. CASE forwardId_'[x] = forwardId_[x]
      BY <2>1, <3>1 DEF Backed
    <3>2. CASE forwardId_'[x] # forwardId_[x]
      <4>1. x = s /\ forwardId_'[x] = fid
        BY <2>2, <3>2 DEF Base, Typed, TypeOK
      <4> QED
        BY <2>1, <2>2, <3>2, <4>1
    <3> QED
      BY <3>1, <3>2
  <2>4. Owns'
    BY <2>2 DEF Backed, Base, Typed, TypeOK
  <2>5. Queued' /\ Framed'
    BY <2>1, <2>2 DEF Backed, BackedFrame, Backing
  <2> QED
    BY <2>3, <2>4, <2>5 DEF Backed
<1>6. ASSUME NEW s \in Sessions, Reply(s) PROVE Backed'
  <2>1. /\ UNCHANGED <<uid_, forwardId_, rows, chan>> /\ SendData(s, dest[s])
        /\ \A x \in Sessions : cur'[x] \in {cur[x], Nil}
        /\ dest[s] \in Frame /\ dest[s].what # "push"
    BY <1>6 DEF Reply, Base, Typed, TypeOK, Handling, Addressed
  <2> QED
    BY <1>1, <1>2, <2>1, BackedAppend DEF Backed, BackedFrame
<1>7. ASSUME NEW h \in Servers, RunLoop(h) PROVE Backed'
  <2> DEFINE m == chan[h][1]
             f == PushFrame(m.reqid, m.row, m.about)
  <2>1. /\ UNCHANGED <<uid_, forwardId_, rows, cur>> /\ m \in Message /\ m = Head(chan[h])
        /\ 1 \in DOMAIN chan[h]
    BY <1>7, NextMessage DEF RunLoop
  <2>2. f \in Frame /\ BackedFrame(f)
    BY <2>1, FramesTyped DEF Message, Backed, BackedFrame, PushFrame
  <2>3. Queued'
    BY <1>7, <2>1, NextMessage DEF Backed, Backing
  <2>4. Framed'
    <3>1. CASE m.uuid \in session_[h]
      <4>1. SendData(m.uuid, f) /\ m.uuid \in Sessions
        BY <1>7, <2>1, <3>1 DEF RunLoop, Message
      <4> QED
        BY <2>1, <2>2, <4>1, BackedAppend
    <3>2. CASE m.uuid \notin session_[h]
      BY <1>7, <2>1, <3>2 DEF RunLoop, Backed, BackedFrame, Backing
    <3> QED
      BY <3>1, <3>2
  <2> QED
    BY <1>1, <2>1, <2>3, <2>4 DEF Backed
<1>8. ASSUME NEW s \in Sessions, DeliverLocal(s) PROVE Backed'
  <2> DEFINE f == PushFrame(LocalTag(cur[s].kind), cur[s], forwardId_[s])
  <2>1. /\ UNCHANGED <<uid_, forwardId_, rows, chan>>
        /\ \A x \in Sessions : cur'[x] \in {cur[x], Nil}
        /\ cur[s] \in Row /\ forwardId_[s] \in Users /\ ruuid[s] \in Sessions
    BY <1>8 DEF DeliverLocal, Return, Base, Typed, TypeOK, Handling
  <2>2. f \in Frame /\ f.rows = {cur[s]} /\ f.about = forwardId_[s]
    BY <2>1, FramesTyped DEF Row, PushFrame
  <2>3. BackedFrame(f)
    BY <2>1, <2>2, NilAssumption DEF Backed, BackedFrame, Backing
  <2>4. Framed'
    <3>1. CASE ruuid[s] \in session_[srv[s]]
      <4>1. SendData(ruuid[s], f)
        BY <1>8, <3>1 DEF DeliverLocal
      <4> QED
        BY <2>1, <2>2, <2>3, <4>1, BackedAppend
    <3>2. CASE ruuid[s] \notin session_[srv[s]]
      BY <1>8, <2>1, <3>2 DEF DeliverLocal, Backed, BackedFrame, Backing
    <3> QED
      BY <3>1, <3>2
  <2> QED
    BY <1>1, <1>2, <2>1, <2>4 DEF Backed
<1> QED
  BY Steps, <1>3, <1>4, <1>5, <1>6, <1>7, <1>8

\* A message is forwarded only to a user whom this session has stored a request to,
\* even when forwardId_ is the one of an earlier request.
THEOREM PushesBacked == Spec => []PushBacked
  BY BaseInit, BaseNext, BackedInit, BackedNext, BackedImplies, PTL DEF Spec

-------------------------------------------------------------------------------
(* The order of the messages of one sender.                                *)

\* The request r was handled before the one its session handles now.
Past(r) == r.id <= issued /\ pc[r.via] # "free" /\ (cur[r.via] # Nil => r.id < cur[r.via].id)

\* A session is in the map of its own server only.
Placed == \A h \in Servers : \A s \in session_[h] : srv[s] = h /\ pc[s] # "free"

Handled == \A s \in Sessions : cur[s] # Nil => pc[s] # "free" /\ cur[s].id <= issued

\* Redis carries only messages between two servers, older ones first.
ChanPast ==
  \A h \in Servers : \A i \in DOMAIN chan[h] :
    Past(chan[h][i].row) /\ srv[chan[h][i].row.via] # h

ChanOrder ==
  \A h \in Servers : \A i, j \in DOMAIN chan[h] :
    i < j /\ chan[h][i].row.via = chan[h][j].row.via => chan[h][i].row.id < chan[h][j].row.id

OutPast ==
  \A s \in Sessions : \A i \in DOMAIN out[s] :
    out[s][i].what = "push" => \A r \in out[s][i].rows : Past(r)

\* What has arrived is older than what is still on the channel.
OutBeforeChan ==
  \A s \in Sessions : \A i \in DOMAIN out[s] : \A h \in Servers : \A j \in DOMAIN chan[h] :
    out[s][i].what = "push" /\ srv[s] = h =>
      \A r \in out[s][i].rows : chan[h][j].row.via = r.via => r.id < chan[h][j].row.id

Ordered == Placed /\ Handled /\ ChanPast /\ ChanOrder /\ OutPast /\ OutBeforeChan /\ PushesInOrder

Known == Base /\ Greeted /\ Backed

LEMMA OrderedInit == Init => Ordered
  BY ConstantAssumption DEF Init, Ordered, Placed, Handled, ChanPast, ChanOrder, OutPast,
     OutBeforeChan, PushesInOrder

\* What every step keeps: a request that is past stays past, on the server it was.
LEMMA PastKept ==
  ASSUME Known, Handled, [Next]_vars, NEW r \in Row, Past(r)
  PROVE  Past(r)' /\ srv'[r.via] = srv[r.via]
<1> USE ConstantAssumption DEF Goto, serverVars, sessionVars, redisVars, dbVars
<1>1. r.via \in Sessions /\ r.id \in Nat /\ issued \in Nat
  BY DEF Row, Known, Base, Typed, TypeOK
<1>2. CASE Quiet
  BY <1>1, <1>2 DEF Quiet, Past
<1>3. ASSUME NEW s \in Sessions, NEW u \in Users, HadingLogin(s, u)
      PROVE  Past(r)' /\ srv'[r.via] = srv[r.via]
  BY <1>1, <1>3 DEF HadingLogin, Past, Known, Base, Typed, TypeOK
<1>4. ASSUME NEW s \in Sessions, NEW q \in RequestOf(s),
             \/ Stored(s, q) \/ StoredUnacked(s, q) \/ Declined(s, q)
             \/ NotStored(s, q) \/ Skipped(s, q)
      PROVE  Past(r)' /\ srv'[r.via] = srv[r.via]
  <2>1. PICK acked, fid : Request(s, q, acked, fid)
    BY <1>4 DEF Stored, StoredUnacked, Declined, NotStored, Skipped
  <2>2. /\ issued' = issued + 1 /\ q.id = issued + 1 /\ srv' = srv
        /\ cur' = [cur EXCEPT ![s] = q] /\ pc' = [pc EXCEPT ![s] = "reply"]
    BY <2>1 DEF Request, RequestOf
  <2>3. r.id <= issued + 1 /\ r.id < q.id
    BY <1>1, <2>2 DEF Past
  <2>4. pc'[r.via] # "free" /\ (cur'[r.via] # Nil => r.id < cur'[r.via].id)
    BY <1>1, <2>2, <2>3 DEF Past, Known, Base, Typed, TypeOK
  <2> QED
    BY <2>2, <2>3, <2>4 DEF Past
<1>5. ASSUME NEW s \in Sessions, Reply(s) \/ DeliverLocal(s)
      PROVE  Past(r)' /\ srv'[r.via] = srv[r.via]
  <2>1. /\ srv' = srv /\ issued' = issued
        /\ pc' \in {[pc EXCEPT ![s] = "idle"], [pc EXCEPT ![s] = "hget_host"]}
        /\ cur' = cur \/ cur' = [cur EXCEPT ![s] = Nil]
    BY <1>5 DEF Reply, DeliverLocal, Return
  <2>2. pc'[r.via] # "free" /\ (cur'[r.via] # Nil => r.id < cur'[r.via].id)
    BY <1>1, <2>1 DEF Past, Known, Base, Typed, TypeOK
  <2> QED
    BY <2>1, <2>2 DEF Past
<1>6. ASSUME NEW h \in Servers, RunLoop(h)
      PROVE  Past(r)' /\ srv'[r.via] = srv[r.via]
  BY <1>6 DEF RunLoop, Past
<1> QED
  BY Steps, <1>2, <1>3, <1>4, <1>5, <1>6 DEF Known

LEMMA ServersKept ==
  ASSUME Known, [Next]_vars
  PROVE  \A s \in Sessions : IF pc[s] = "free" THEN out[s] = <<>>
                             ELSE srv'[s] = srv[s] /\ pc'[s] # "free"
<1> USE DEF Goto, serverVars, sessionVars, redisVars, dbVars
<1> DEFINE Kept == \A s \in Sessions : pc[s] # "free" => srv'[s] = srv[s] /\ pc'[s] # "free"
<1>1. CASE Quiet
  BY <1>1 DEF Quiet, Known, Greeted
<1>2. CASE srv' = srv /\ \A s \in Sessions : pc[s] # "free" => pc'[s] # "free"
  BY <1>2 DEF Known, Greeted
<1>3. ASSUME NEW s \in Sessions, NEW label \in PCs, label # "free",
             pc' = [pc EXCEPT ![s] = label], srv' = srv
      PROVE  \A x \in Sessions : IF pc[x] = "free" THEN out[x] = <<>>
                                 ELSE srv'[x] = srv[x] /\ pc'[x] # "free"
  BY <1>3 DEF Known, Greeted, Base, Typed, TypeOK
<1>4. ASSUME NEW s \in Sessions, NEW u \in Users, HadingLogin(s, u)
      PROVE  pc' = [pc EXCEPT ![s] = "hset_host"] /\ srv' = srv
  BY <1>4 DEF HadingLogin
<1>5. ASSUME NEW s \in Sessions, NEW r \in RequestOf(s),
             \/ Stored(s, r) \/ StoredUnacked(s, r) \/ Declined(s, r)
             \/ NotStored(s, r) \/ Skipped(s, r)
      PROVE  pc' = [pc EXCEPT ![s] = "reply"] /\ srv' = srv
  BY <1>5 DEF Stored, StoredUnacked, Declined, NotStored, Skipped, Request
<1>6. ASSUME NEW s \in Sessions, Reply(s) \/ DeliverLocal(s)
      PROVE  \E label \in {"idle", "hget_host"} : pc' = [pc EXCEPT ![s] = label] /\ srv' = srv
  BY <1>6 DEF Reply, DeliverLocal, Return
<1>7. ASSUME NEW h \in Servers, RunLoop(h) PROVE pc' = pc /\ srv' = srv
  BY <1>7 DEF RunLoop
<1> QED
  BY Steps, <1>1, <1>2, <1>3, <1>4, <1>5, <1>6, <1>7 DEF Known, PCs

LEMMA PlacedNext == Known /\ Placed /\ [Next]_vars => Placed'
<1> SUFFICES ASSUME Known, Placed, [Next]_vars PROVE Placed'
  OBVIOUS
<1> USE DEF Goto, serverVars, sessionVars, redisVars, dbVars
<1>1. CASE UNCHANGED session_
  <2>1. ASSUME NEW h \in Servers, NEW s \in session_[h] PROVE srv'[s] = h /\ pc'[s] # "free"
    <3>1. s \in Sessions /\ srv[s] = h /\ pc[s] # "free"
      BY DEF Placed, Known, Base, Typed, TypeOK
    <3> QED
      BY <3>1, ServersKept
  <2> QED
    BY <1>1, <2>1 DEF Placed
<1>2. ASSUME NEW h \in Servers, NEW s \in Sessions, Accept(h, s) PROVE Placed'
  BY <1>2 DEF Accept, Placed, Known, Base, Typed, TypeOK
<1>3. ASSUME NEW h \in Servers, Crash(h) PROVE Placed'
  BY <1>3 DEF Crash, Placed, Known, Base, Typed, TypeOK
<1>4. ASSUME NEW s \in Sessions, Erase(s) PROVE Placed'
  BY <1>4 DEF Erase, Placed, Known, Base, Typed, TypeOK
<1>5. ASSUME NEW s \in Sessions, Publish(s) \/ Reply(s) \/ DeliverLocal(s) PROVE UNCHANGED session_
  BY <1>5 DEF Publish, Reply, DeliverLocal
<1>6. ASSUME NEW s \in Sessions, NEW r \in RequestOf(s),
             \/ Stored(s, r) \/ StoredUnacked(s, r) \/ Declined(s, r)
             \/ NotStored(s, r) \/ Skipped(s, r)
      PROVE  UNCHANGED session_
  BY <1>6 DEF Stored, StoredUnacked, Declined, NotStored, Skipped, Request
<1>7. ASSUME NEW s \in Sessions, NEW u \in Users, HadingLogin(s, u) PROVE UNCHANGED session_
  BY <1>7 DEF HadingLogin
<1>8. ASSUME NEW h \in Servers, RunLoop(h) PROVE UNCHANGED session_
  BY <1>8 DEF RunLoop
<1> QED
  BY Steps, <1>1, <1>2, <1>3, <1>4, <1>5, <1>6, <1>7, <1>8 DEF Known

LEMMA HandledNext == Known /\ Handled /\ [Next]_vars => Handled'
<1> SUFFICES ASSUME Known, Handled, [Next]_vars PROVE Handled'
  OBVIOUS
<1> USE DEF Goto, serverVars, sessionVars, redisVars, dbVars
<1>1. ASSUME UNCHANGED issued, \A s \in Sessions : cur'[s] \in {cur[s], Nil} PROVE Handled'
  BY <1>1, ServersKept DEF Handled
<1>2. CASE Quiet
  BY <1>1, <1>2 DEF Quiet
<1>3. ASSUME NEW s \in Sessions, NEW u \in Users, HadingLogin(s, u) PROVE Handled'
  BY <1>1, <1>3 DEF HadingLogin
<1>4. ASSUME NEW s \in Sessions, NEW r \in RequestOf(s),
             \/ Stored(s, r) \/ StoredUnacked(s, r) \/ Declined(s, r)
             \/ NotStored(s, r) \/ Skipped(s, r)
      PROVE  Handled'
  <2>1. PICK acked, fid : Request(s, r, acked, fid)
    BY <1>4 DEF Stored, StoredUnacked, Declined, NotStored, Skipped
  <2>2. /\ issued' = issued + 1 /\ r.id = issued + 1
        /\ cur' = [cur EXCEPT ![s] = r] /\ pc' = [pc EXCEPT ![s] = "reply"]
    BY <2>1 DEF Request, RequestOf
  <2>3. ASSUME NEW x \in Sessions, cur'[x] # Nil PROVE cur'[x].id <= issued + 1 /\ pc'[x] # "free"
    <3>1. CASE x = s
      BY <2>2, <3>1 DEF Known, Base, Typed, TypeOK
    <3>2. CASE x # s
      <4>1. /\ cur'[x] = cur[x] /\ pc'[x] = pc[x] /\ cur[x] \in Row /\ issued \in Nat
            /\ cur[x].id <= issued /\ pc[x] # "free"
        BY <2>2, <2>3, <3>2 DEF Handled, Known, Base, Typed, TypeOK
      <4> QED
        BY <4>1 DEF Row
    <3> QED
      BY <3>1, <3>2
  <2> QED
    BY <2>2, <2>3 DEF Handled
<1>5. ASSUME NEW s \in Sessions, Reply(s) \/ DeliverLocal(s) PROVE Handled'
  BY <1>1, <1>5 DEF Reply, DeliverLocal, Return, Known, Base, Typed, TypeOK
<1>6. ASSUME NEW h \in Servers, RunLoop(h) PROVE Handled'
  BY <1>1, <1>6 DEF RunLoop
<1> QED
  BY Steps, <1>2, <1>3, <1>4, <1>5, <1>6 DEF Known

Queues == ChanPast /\ ChanOrder /\ OutPast /\ OutBeforeChan /\ PushesInOrder

\* The rows that frames and messages carry.
LEMMA RowsTyped ==
  ASSUME Base
  PROVE  /\ \A h \in Servers : \A i \in DOMAIN chan[h] :
              chan[h][i] \in Message /\ chan[h][i].row \in Row
         /\ \A s \in Sessions : \A i \in DOMAIN out[s] : out[s][i].rows \subseteq Row
<1>1. chan \in [Servers -> Seq(Message)] /\ out \in [Sessions -> Seq(Frame)]
  BY DEF Base, Typed, TypeOK
<1>2. \A h \in Servers : \A i \in DOMAIN chan[h] : chan[h][i] \in Message
  BY <1>1
<1>3. \A s \in Sessions : \A i \in DOMAIN out[s] : out[s][i] \in Frame
  BY <1>1
<1>4. (\A m \in Message : m.row \in Row) /\ (\A f \in Frame : f.rows \subseteq Row)
  BY DEF Message, Frame
<1> QED
  BY <1>2, <1>3, <1>4

\* A step that pushes and publishes nothing.
LEMMA NothingForwarded ==
  ASSUME Known, Ordered, [Next]_vars,
         \A h \in Servers : chan'[h] = chan[h] \/ chan'[h] = <<>>,
         \A s \in Sessions : \A i \in DOMAIN out'[s] :
           out'[s][i].what = "push" => i \in DOMAIN out[s] /\ out'[s][i] = out[s][i]
  PROVE  Queues'
<1> USE DEF Ordered
<1>1. ChanPast'
  <2> SUFFICES ASSUME NEW h \in Servers, NEW i \in DOMAIN chan'[h]
               PROVE  Past(chan[h][i].row)' /\ srv'[chan'[h][i].row.via] # h
    BY DEF ChanPast
  <2>1. i \in DOMAIN chan[h] /\ chan'[h] = chan[h] /\ chan[h][i].row \in Row
    BY RowsTyped DEF Known
  <2>2. Past(chan[h][i].row) /\ srv[chan[h][i].row.via] # h
    BY <2>1 DEF ChanPast
  <2>3. PICK r \in Row : r = chan[h][i].row
    BY <2>1
  <2>4. Past(r)' /\ srv'[r.via] = srv[r.via]
    BY <2>2, <2>3, PastKept
  <2> QED
    BY <2>1, <2>2, <2>3, <2>4 DEF Past
<1>2. ChanOrder'
  <2> SUFFICES ASSUME NEW h \in Servers, NEW i \in DOMAIN chan'[h], NEW j \in DOMAIN chan'[h],
                      i < j, chan'[h][i].row.via = chan'[h][j].row.via
               PROVE  chan'[h][i].row.id < chan'[h][j].row.id
    BY DEF ChanOrder
  <2> QED
    BY DEF ChanOrder
<1>3. OutPast'
  <2> SUFFICES ASSUME NEW s \in Sessions, NEW i \in DOMAIN out'[s], out'[s][i].what = "push",
                      NEW r \in out'[s][i].rows
               PROVE  Past(r)'
    BY DEF OutPast, Past
  <2>1. i \in DOMAIN out[s] /\ out[s][i].what = "push" /\ r \in out[s][i].rows /\ r \in Row
    BY RowsTyped DEF Known
  <2> QED
    BY <2>1, PastKept DEF OutPast
<1>4. OutBeforeChan'
  <2> SUFFICES ASSUME NEW s \in Sessions, NEW i \in DOMAIN out'[s], NEW h \in Servers,
                      NEW j \in DOMAIN chan'[h], out'[s][i].what = "push", srv'[s] = h,
                      NEW r \in out'[s][i].rows, chan'[h][j].row.via = r.via
               PROVE  r.id < chan'[h][j].row.id
    BY DEF OutBeforeChan
  <2>1. /\ i \in DOMAIN out[s] /\ out[s][i].what = "push" /\ r \in out[s][i].rows
        /\ j \in DOMAIN chan[h] /\ chan'[h] = chan[h]
    OBVIOUS
  <2>2. srv[s] = h
    BY <2>1, ServersKept
  <2> QED
    BY <2>1, <2>2 DEF OutBeforeChan
<1>5. PushesInOrder'
  BY DEF PushesInOrder
<1> QED
  BY <1>1, <1>2, <1>3, <1>4, <1>5 DEF Queues

\* A step that pushes the row of request r to session x, on whose server x is: r is
\* newer than all of its session that have arrived, older than those on the channel.
LEMMA OnePushed ==
  ASSUME Known, Ordered, [Next]_vars, NEW x \in Sessions, NEW r \in Row, Past(r)',
         NEW f \in Frame, f.rows = {r}, SendData(x, f), pc[x] # "free",
         ChanPast', ChanOrder',
         \A h \in Servers : \A j \in DOMAIN chan'[h] :
           \E i \in DOMAIN chan[h] : chan'[h][j] = chan[h][i],
         \A i \in DOMAIN out[x] : out[x][i].what = "push" =>
           \A q \in out[x][i].rows : q.via = r.via => q.id < r.id,
         \A j \in DOMAIN chan'[srv[x]] : chan'[srv[x]][j].row.via = r.via =>
           r.id < chan'[srv[x]][j].row.id
  PROVE  Queues'
<1> USE DEF Ordered
<1>1. \A s \in Sessions : \A i \in DOMAIN out'[s] :
        \/ i \in DOMAIN out[s] /\ out'[s][i] = out[s][i]
        \/ s = x /\ i = Len(out[x]) + 1 /\ out'[s][i] = f
  BY FrameAppended DEF Known
<1>2. OutPast'
  <2> SUFFICES ASSUME NEW s \in Sessions, NEW i \in DOMAIN out'[s], out'[s][i].what = "push",
                      NEW q \in out'[s][i].rows
               PROVE  Past(q)'
    BY DEF OutPast, Past
  <2>1. CASE i \in DOMAIN out[s] /\ out'[s][i] = out[s][i]
    <3>1. q \in Row /\ Past(q)
      BY <2>1, RowsTyped DEF Known, OutPast
    <3> QED
      BY <3>1, PastKept
  <2>2. CASE out'[s][i] = f
    <3>1. q = r
      BY <2>2
    <3> QED
      BY <3>1
  <2> QED
    BY <1>1, <2>1, <2>2
<1>3. OutBeforeChan'
  <2> SUFFICES ASSUME NEW s \in Sessions, NEW i \in DOMAIN out'[s], NEW h \in Servers,
                      NEW j \in DOMAIN chan'[h], out'[s][i].what = "push", srv'[s] = h,
                      NEW q \in out'[s][i].rows, chan'[h][j].row.via = q.via
               PROVE  q.id < chan'[h][j].row.id
    BY DEF OutBeforeChan
  <2>1. CASE i \in DOMAIN out[s] /\ out'[s][i] = out[s][i]
    <3>1. srv[s] = h
      BY <2>1, ServersKept
    <3>2. PICK k \in DOMAIN chan[h] : chan'[h][j] = chan[h][k]
      OBVIOUS
    <3> QED
      BY <2>1, <3>1, <3>2 DEF OutBeforeChan
  <2>2. CASE s = x /\ out'[s][i] = f
    <3>1. srv[x] = h /\ q = r
      BY <2>2, ServersKept
    <3> QED
      BY <3>1
  <2> QED
    BY <1>1, <2>1, <2>2
<1>4. PushesInOrder'
  <2> SUFFICES ASSUME NEW s \in Sessions, NEW i \in DOMAIN out'[s], NEW j \in DOMAIN out'[s],
                      i < j, out'[s][i].what = "push", out'[s][j].what = "push",
                      NEW p \in out'[s][i].rows, NEW q \in out'[s][j].rows, p.via = q.via
               PROVE  p.id < q.id
    BY DEF PushesInOrder
  <2>1. out[x] \in Seq(Frame) /\ DOMAIN out[x] = 1 .. Len(out[x]) /\ Len(out[x]) \in Nat
    BY DEF Known, Base, Typed, TypeOK
  <2>2. CASE j \in DOMAIN out[s] /\ out'[s][j] = out[s][j]
    <3>1. i \in DOMAIN out[s] /\ out'[s][i] = out[s][i]
      BY <1>1, <2>1, <2>2
    <3> QED
      BY <2>2, <3>1 DEF PushesInOrder
  <2>3. CASE s = x /\ j = Len(out[x]) + 1 /\ out'[s][j] = f
    <3>1. i \in DOMAIN out[x] /\ out'[x][i] = out[x][i] /\ q = r
      BY <1>1, <2>1, <2>3
    <3> QED
      BY <2>3, <3>1
  <2> QED
    BY <1>1, <2>2, <2>3
<1> QED
  BY <1>2, <1>3, <1>4 DEF Queues

\* The channels are in order still when nothing is published.
LEMMA QueuesStay ==
  ASSUME Known, Ordered, [Next]_vars, UNCHANGED chan
  PROVE  ChanPast' /\ ChanOrder'
<1>1. ChanPast'
  <2> SUFFICES ASSUME NEW h \in Servers, NEW i \in DOMAIN chan[h]
               PROVE  Past(chan[h][i].row)' /\ srv'[chan'[h][i].row.via] # h
    BY DEF ChanPast
  <2>1. PICK r \in Row : r = chan[h][i].row
    BY RowsTyped DEF Known
  <2>2. Past(r) /\ srv[r.via] # h
    BY <2>1 DEF ChanPast, Ordered
  <2>3. Past(r)' /\ srv'[r.via] = srv[r.via]
    BY <2>2, PastKept DEF Ordered
  <2> QED
    BY <2>1, <2>2, <2>3 DEF Past
<1>2. ChanOrder'
  BY DEF ChanOrder, Ordered
<1> QED
  BY <1>1, <1>2

LEMMA QueuesNext == Known /\ Ordered /\ [Next]_vars => Queues'
<1> SUFFICES ASSUME Known, Ordered, [Next]_vars PROVE Queues'
  OBVIOUS
<1> USE ConstantAssumption DEF Ordered, Goto, serverVars, sessionVars, redisVars, dbVars
<1>1. ASSUME UNCHANGED out,
             \A h \in Servers : chan'[h] = chan[h] \/ chan'[h] = <<>>
      PROVE  Queues'
  BY <1>1, NothingForwarded
<1>2. ASSUME NEW s \in Sessions, NEW f \in Frame, f.what # "push", SendData(s, f), UNCHANGED chan
      PROVE  Queues'
  <2>1. \A x \in Sessions : \A i \in DOMAIN out'[x] :
          out'[x][i].what = "push" => i \in DOMAIN out[x] /\ out'[x][i] = out[x][i]
    BY <1>2, FrameAppended DEF Known
  <2> QED
    BY <1>2, <2>1, NothingForwarded
<1>3. CASE Quiet /\ UNCHANGED chan
  BY <1>1, <1>3 DEF Quiet
<1>4. ASSUME NEW s \in Sessions, Erase(s) \/ \E h \in Servers : Accept(h, s) PROVE Queues'
  BY <1>1, <1>4 DEF Accept, Erase
<1>5. ASSUME NEW h \in Servers, Crash(h) PROVE Queues'
  BY <1>1, <1>5 DEF Crash, Known, Base, Typed, TypeOK
<1>6. ASSUME NEW s \in Sessions, NEW u \in Users, HadingLogin(s, u) PROVE Queues'
  <2>1. ReplyFrame("USER_LOGIN_CHAT_SERVER", {}) \in Frame
        /\ ReplyFrame("USER_LOGIN_CHAT_SERVER", {}).what # "push"
    BY FramesTyped DEF Tags, ReplyFrame
  <2> QED
    BY <1>2, <1>6, <2>1 DEF HadingLogin
<1>7. ASSUME NEW s \in Sessions, NEW r \in RequestOf(s),
             \/ Stored(s, r) \/ StoredUnacked(s, r) \/ Declined(s, r)
             \/ NotStored(s, r) \/ Skipped(s, r)
      PROVE  Queues'
  <2>1. UNCHANGED <<out, chan>>
    BY <1>7 DEF Stored, StoredUnacked, Declined, NotStored, Skipped, Request
  <2> QED
    BY <1>1, <2>1
<1>8. ASSUME NEW s \in Sessions, Reply(s) PROVE Queues'
  <2>1. /\ dest[s] \in Frame /\ dest[s].what # "push" /\ SendData(s, dest[s]) /\ UNCHANGED chan
    BY <1>8 DEF Reply, Known, Base, Typed, Handling, Addressed
  <2> QED
    BY <1>2, <2>1
\* The message leaves the channel; it is older than those behind it.
<1>9. ASSUME NEW h \in Servers, RunLoop(h) PROVE Queues'
  <2>0. PICK m \in Message : m = chan[h][1] /\ m = Head(chan[h]) /\ 1 \in DOMAIN chan[h]
    BY <1>9, NextMessage DEF Known
  <2>1. PICK f \in Frame, r \in Row :
          f = PushFrame(m.reqid, m.row, m.about) /\ r = m.row /\ f.rows = {r}
    <3>1. m.reqid \in Tags /\ m.row \in Row /\ m.about \in Users
      BY DEF Message
    <3>2. PushFrame(m.reqid, m.row, m.about) \in Frame
      BY <3>1, FramesTyped
    <3>3. PushFrame(m.reqid, m.row, m.about).rows = {m.row}
      BY DEF PushFrame
    <3> QED
      BY <3>1, <3>2, <3>3
  <2>8. m.uuid \in Sessions
    BY DEF Message
  <2>2. \A k \in Servers : \A i \in DOMAIN chan'[k] :
          chan'[k][i] = (IF k = h THEN chan[h][i + 1] ELSE chan[k][i])
          /\ (IF k = h THEN i + 1 ELSE i) \in DOMAIN chan[k] /\ i \in Nat \ {0}
    <3>1. chan' = [chan EXCEPT ![h] = Tail(chan[h])] /\ chan \in [Servers -> Seq(Message)]
          /\ chan[h] # <<>>
      BY <1>9 DEF RunLoop, Known, Base, Typed, TypeOK
    <3>2. \A k \in Servers : chan'[k] \in Seq(Message)
      BY <3>1
    <3> QED
      BY <1>9, <3>2, NextMessage DEF Known
  <2>3. \A k \in Servers : \A j \in DOMAIN chan'[k] :
          \E i \in DOMAIN chan[k] : chan'[k][j] = chan[k][i]
    BY <2>2
  <2>4. ChanPast'
    <3> SUFFICES ASSUME NEW k \in Servers, NEW j \in DOMAIN chan'[k]
                 PROVE  Past(chan[k][j].row)' /\ srv'[chan'[k][j].row.via] # k
      BY DEF ChanPast
    <3>1. PICK i \in DOMAIN chan[k] : chan'[k][j] = chan[k][i]
      BY <2>3
    <3>2. PICK q \in Row : q = chan[k][i].row
      BY RowsTyped DEF Known
    <3>3. Past(q) /\ srv[q.via] # k
      BY <3>2 DEF ChanPast
    <3>4. Past(q)' /\ srv'[q.via] = srv[q.via]
      BY <3>3, PastKept
    <3> QED
      BY <3>1, <3>2, <3>3, <3>4 DEF Past
  <2>5. ChanOrder'
    <3> SUFFICES ASSUME NEW k \in Servers, NEW i \in DOMAIN chan'[k], NEW j \in DOMAIN chan'[k],
                        i < j, chan'[k][i].row.via = chan'[k][j].row.via
                 PROVE  chan'[k][i].row.id < chan'[k][j].row.id
      BY DEF ChanOrder
    <3>1. CASE k = h
      BY <2>2, <3>1 DEF ChanOrder
    <3>2. CASE k # h
      BY <2>2, <3>2 DEF ChanOrder
    <3> QED
      BY <3>1, <3>2
  <2>6. CASE m.uuid \in session_[h]
    <3>1. SendData(m.uuid, f) /\ srv[m.uuid] = h /\ pc[m.uuid] # "free"
      BY <1>9, <2>0, <2>1, <2>6 DEF RunLoop, Placed
    <3>2. Past(r)'
      <4>1. Past(r)
        BY <2>0, <2>1 DEF ChanPast
      <4> QED
        BY <4>1, PastKept
    <3>3. \A i \in DOMAIN out[m.uuid] : out[m.uuid][i].what = "push" =>
            \A q \in out[m.uuid][i].rows : q.via = r.via => q.id < r.id
      BY <2>0, <2>1, <2>8, <3>1 DEF OutBeforeChan
    <3>4. \A j \in DOMAIN chan'[h] : chan'[h][j].row.via = r.via =>
            r.id < chan'[h][j].row.id
      BY <2>0, <2>1, <2>2 DEF ChanOrder
    <3> QED
      BY <2>1, <2>8, <2>3, <2>4, <2>5, <3>1, <3>2, <3>3, <3>4, OnePushed
  <2>7. CASE m.uuid \notin session_[h]
    <3>1. UNCHANGED <<out, srv>>
      BY <1>9, <2>0, <2>7 DEF RunLoop
    <3>2. OutPast'
      <4> SUFFICES ASSUME NEW s \in Sessions, NEW i \in DOMAIN out[s], out[s][i].what = "push",
                          NEW q \in out[s][i].rows
                   PROVE  Past(q)'
        BY <3>1 DEF OutPast, Past
      <4> QED
        BY PastKept, RowsTyped DEF OutPast, Known
    <3>3. OutBeforeChan'
      BY <2>3, <3>1 DEF OutBeforeChan
    <3>4. PushesInOrder'
      BY <3>1 DEF PushesInOrder
    <3> QED
      BY <2>4, <2>5, <3>2, <3>3, <3>4 DEF Queues
  <2> QED
    BY <2>6, <2>7
\* Straight into a session of the same server: no message of this sender's is on the
\* channel of that server.
<1>10. ASSUME NEW s \in Sessions, DeliverLocal(s) PROVE Queues'
  <2>1. /\ cur[s] \in Row /\ ruuid[s] \in Sessions /\ forwardId_[s] \in Users
        /\ srv[s] \in Servers /\ pc[s] # "free"
        /\ pc' = [pc EXCEPT ![s] = "idle"] /\ cur' = [cur EXCEPT ![s] = Nil]
        /\ UNCHANGED <<chan, issued, srv>>
    BY <1>10 DEF DeliverLocal, Return, Known, Base, Typed, Handling
  <2>2. PICK r \in Row, x \in Sessions, f \in Frame :
          /\ r = cur[s] /\ x = ruuid[s] /\ f.rows = {r}
          /\ f = PushFrame(LocalTag(cur[s].kind), cur[s], forwardId_[s])
    <3>1. cur[s].kind \in WriteKinds
      BY <2>1 DEF Row
    <3> QED
      BY <2>1, <3>1, FramesTyped DEF PushFrame
  <2>3. r.via = s /\ r.id <= issued
    BY <2>2, NilAssumption DEF Handled, Known, Backed
  <2>4. Past(r)'
    <3>1. pc'[s] = "idle" /\ cur'[s] = Nil /\ issued' = issued
      BY <2>1 DEF Known, Base, Typed, TypeOK
    <3> QED
      BY <2>3, <3>1 DEF Past
  <2>5. CASE x \in session_[srv[s]]
    <3>1. SendData(x, f) /\ srv[x] = srv[s] /\ pc[x] # "free"
      BY <1>10, <2>1, <2>2, <2>5 DEF DeliverLocal, Placed
    <3>2. ChanPast' /\ ChanOrder'
      BY <2>1, QueuesStay
    <3>3. \A i \in DOMAIN out[x] : out[x][i].what = "push" =>
            \A q \in out[x][i].rows : q.via = r.via => q.id < r.id
      BY <2>2, <2>3, NilAssumption DEF OutPast, Past
    <3>4. \A j \in DOMAIN chan'[srv[x]] : chan'[srv[x]][j].row.via # r.via
      BY <2>1, <2>3, <3>1 DEF ChanPast
    <3>5. \A h \in Servers : \A j \in DOMAIN chan'[h] :
            \E i \in DOMAIN chan[h] : chan'[h][j] = chan[h][i]
      BY <2>1
    <3> QED
      BY <2>2, <2>4, <3>1, <3>2, <3>3, <3>4, <3>5, OnePushed
  <2>6. CASE x \notin session_[srv[s]]
    BY <1>1, <1>10, <2>1, <2>2, <2>6 DEF DeliverLocal
  <2> QED
    BY <2>5, <2>6
\* A message is published behind those its sender published before, and is newer than
\* what has arrived of them.
<1>11. ASSUME NEW s \in Sessions, Publish(s) PROVE Queues'
  <2> DEFINE Old(h, i) == i \in DOMAIN chan[h] /\ chan'[h][i] = chan[h][i]
             New(h, i) == /\ h = rhost[s] /\ i = Len(chan[h]) + 1 /\ chan'[h][i].row = cur[s]
  <2>1. /\ cur[s] \in Row /\ rhost[s] # srv[s] /\ srv' = srv
        /\ cur' = [cur EXCEPT ![s] = Nil] /\ UNCHANGED <<out, issued>>
        /\ pc' = [pc EXCEPT ![s] = "idle"]
        /\ \A h \in Servers : \A i \in DOMAIN chan'[h] : Old(h, i) \/ New(h, i)
    BY <1>11, Published DEF Known, Publish, Return
  <2>10. PICK r \in Row : r = cur[s]
    BY <2>1
  <2>2. r.via = s /\ r.id <= issued
    BY <2>10, NilAssumption DEF Handled, Known, Backed
  <2>3. Past(r)'
    <3>1. pc'[s] = "idle" /\ cur'[s] = Nil /\ issued' = issued
      BY <2>1 DEF Known, Base, Typed, TypeOK
    <3> QED
      BY <2>2, <3>1 DEF Past
  <2>4. \A q \in Row : Past(q) /\ q.via = s => q.id < r.id
    BY <2>10, NilAssumption DEF Past
  <2>5. ChanPast'
    <3> SUFFICES ASSUME NEW h \in Servers, NEW i \in DOMAIN chan'[h]
                 PROVE  Past(chan[h][i].row)' /\ srv'[chan'[h][i].row.via] # h
      BY DEF ChanPast
    <3>1. CASE Old(h, i)
      <4>1. PICK q \in Row : q = chan[h][i].row
        BY <3>1, RowsTyped DEF Known
      <4>2. Past(q) /\ srv[q.via] # h
        BY <3>1, <4>1 DEF ChanPast
      <4>3. Past(q)' /\ srv'[q.via] = srv[q.via]
        BY <4>2, PastKept
      <4> QED
        BY <3>1, <4>1, <4>2, <4>3 DEF Past
    <3>2. CASE New(h, i)
      BY <2>1, <2>10, <2>2, <2>3, <3>2 DEF Past
    <3> QED
      BY <2>1, <3>1, <3>2
  <2>6. ChanOrder'
    <3> SUFFICES ASSUME NEW h \in Servers, NEW i \in DOMAIN chan'[h], NEW j \in DOMAIN chan'[h],
                        i < j, chan'[h][i].row.via = chan'[h][j].row.via
                 PROVE  chan'[h][i].row.id < chan'[h][j].row.id
      BY DEF ChanOrder
    <3>1. chan[h] \in Seq(Message) /\ DOMAIN chan[h] = 1 .. Len(chan[h]) /\ Len(chan[h]) \in Nat
      BY DEF Known, Base, Typed, TypeOK
    <3>2. CASE Old(h, i) /\ Old(h, j)
      BY <3>2 DEF ChanOrder
    <3>3. CASE Old(h, i) /\ New(h, j)
      <4>1. /\ chan[h][i].row \in Row /\ Past(chan[h][i].row) /\ chan[h][i].row.via = s
        BY <2>10, <2>2, <3>3, RowsTyped DEF Known, ChanPast
      <4> QED
        BY <2>10, <2>4, <3>3, <4>1
    <3>4. CASE New(h, i)
      BY <2>1, <3>1, <3>4
    <3> QED
      BY <2>1, <3>2, <3>3, <3>4
  <2>7. OutPast'
    <3> SUFFICES ASSUME NEW x \in Sessions, NEW i \in DOMAIN out[x], out[x][i].what = "push",
                        NEW q \in out[x][i].rows
                 PROVE  Past(q)'
      BY <2>1 DEF OutPast, Past
    <3> QED
      BY PastKept, RowsTyped DEF OutPast, Known
  <2>8. OutBeforeChan'
    <3> SUFFICES ASSUME NEW x \in Sessions, NEW i \in DOMAIN out[x], NEW h \in Servers,
                        NEW j \in DOMAIN chan'[h], out[x][i].what = "push", srv[x] = h,
                        NEW q \in out[x][i].rows, chan'[h][j].row.via = q.via
                 PROVE  q.id < chan'[h][j].row.id
      BY <2>1 DEF OutBeforeChan
    <3>1. CASE Old(h, j)
      BY <3>1 DEF OutBeforeChan
    <3>2. CASE New(h, j)
      <4>1. q \in Row /\ Past(q) /\ q.via = s
        BY <2>10, <2>2, <3>2, RowsTyped DEF Known, OutPast
      <4> QED
        BY <2>10, <2>4, <3>2, <4>1
    <3> QED
      BY <2>1, <3>1, <3>2
  <2>9. PushesInOrder'
    BY <2>1 DEF PushesInOrder
  <2> QED
    BY <2>5, <2>6, <2>7, <2>8, <2>9 DEF Queues
<1> QED
  BY Steps, <1>3, <1>4, <1>5, <1>6, <1>7, <1>8, <1>9, <1>10, <1>11 DEF Known

LEMMA OrderedNext == Known /\ Ordered /\ [Next]_vars => Ordered'
  BY PlacedNext, HandledNext, QueuesNext DEF Ordered, Queues

\* What one sender forwarded to a session arrives there in the order of the requests,
\* whatever other sessions, crashes and closes do in between.
THEOREM PushesOrdered == Spec => []PushesInOrder
<1>1. Init => Known
  BY BaseInit, GreetedInit, BackedInit DEF Known
<1>2. Known /\ [Next]_vars => Known'
  BY BaseNext, GreetedNext, BackedNext DEF Known
<1>3. Ordered => PushesInOrder
  BY DEF Ordered
<1> QED
  BY <1>1, <1>2, <1>3, OrderedInit, OrderedNext, PTL DEF Spec

-------------------------------------------------------------------------------
(* No row is lost between the lists and the pushes.                        *)

\* While a session is connected its server has it in session_, and listens if it did
\* when the session was accepted.
Connected ==
  \A s \in Sessions : pc[s] \notin {"free", "closed", "crashed"} =>
    s \in session_[srv[s]] /\ (s \in early \/ subscribed[srv[s]])

\* A reply is being built only while pc is "reply", and for a session with a user;
\* a session still logging in has no list.
Built ==
  \A s \in Sessions :
    /\ pc[s] \notin {"reply", "crashed"} \/ uid_[s] = Nil => dest[s] = Nil
    /\ pc[s] \in {"hset_host", "hset_uuid"} =>
         \A i \in DOMAIN out[s] : out[s][i].what # "list"

\* isLogin_ is set last.
LoginLast == \A s \in Sessions : isLogin_[s] => pc[s] \notin {"hset_host", "hset_uuid"}

\* What is acknowledged was issued before.
AckedPast ==
  \A s \in Sessions :
    /\ \A i \in DOMAIN out[s] :
         out[s][i].what = "reply" => \A r \in out[s][i].rows : r.id <= issued
    /\ dest[s] # Nil /\ dest[s].what = "reply" => \A r \in dest[s].rows : r.id <= issued

\* The frame f is the list in which the client finds the rows like r.
ListOf(f, r) ==
  /\ f.what = "list" /\ f.tag = RemoteTag(r.kind)
  /\ r.kind = "SEND_MSG" => f.about = r.from /\ Cardinality(f.rows) < Page

Listed(s, r) == \E i \in DOMAIN out[s] : ListOf(out[s][i], r)

\* A reply that is sent, or built, acknowledges r.
Acked(r) ==
  \E x \in Sessions :
    \/ \E i \in DOMAIN out[x] : out[x][i].what = "reply" /\ r \in out[x][i].rows
    \/ dest[x] # Nil /\ dest[x].what = "reply" /\ r \in dest[x].rows

\* r is in a list or a push session s was sent, or is on the way to it through redis.
Given(s, r) ==
  \/ \E i \in DOMAIN out[s] : out[s][i].what \in {"list", "push"} /\ r \in out[s][i].rows
  \/ \E i \in DOMAIN chan[srv[s]] : chan[srv[s]][i].uuid = s /\ chan[srv[s]][i].row = r

\* The session that handles r died, or is to forward r and has looked up nothing else
\* than where s is.
OnWay(s, r) ==
  \E x \in Sessions :
    /\ cur[x] = r
    /\ \/ pc[x] = "crashed"
       \/ /\ forwardId_[x] = r.to
          /\ \/ pc[x] \in {"reply", "hget_host"}
             \/ pc[x] = "hget_uuid" /\ rhost[x] = srv[s]
             \/ pc[x] = "deliver" /\ rhost[x] = srv[s] /\ ruuid[x] = s

Reaches(s, r) == Given(s, r) \/ OnWay(s, r)

\* r is one of the rows NoLostRow speaks of.
Watched(s, r) ==
  /\ s \notin early /\ Routed(s) /\ LoginsWhole(s)
  /\ r \notin answered /\ r.to = uid_[s] /\ r.kind # "WHETHER_ACCEPT_ADD_FRIEND"
  /\ Acked(r)

\* NoLostRow with what is still to come: the list that is built, the push on its way.
Lossless ==
  \A s \in Sessions : \A r \in rows : Watched(s, r) =>
    /\ Listed(s, r) => Reaches(s, r)
    /\ dest[s] # Nil /\ ListOf(dest[s], r) => r \in dest[s].rows \/ Reaches(s, r)

Whole == Connected /\ Built /\ AckedPast /\ LoginLast /\ Lossless

LEMMA WholeInit == Init => Whole
  BY ConstantAssumption DEF Init, Whole, Connected, Built, AckedPast, LoginLast, Lossless

LEMMA LosslessImplies == Known /\ Lossless => NoLostRow
<1> SUFFICES ASSUME Known, Lossless, NEW s \in Sessions, s \notin early,
                    Routed(s), LoginsWhole(s), NEW r \in rows \ answered, r.to = uid_[s],
                    r.kind # "WHETHER_ACCEPT_ADD_FRIEND", Fetched(s, r), Settled(r)
             PROVE  \/ r \in Sent(s, "list") \cup Sent(s, "push")
                    \/ \E i \in DOMAIN chan[srv[s]] :
                         chan[srv[s]][i].uuid = s /\ chan[srv[s]][i].row = r
  BY DEF NoLostRow
<1>1. Listed(s, r)
  BY DEF Fetched, Listed, ListOf
<1>2. Acked(r) /\ \A x \in Sessions : cur[x] # r
  BY DEF Settled, Sent, Acked
<1>3. Given(s, r)
  BY <1>1, <1>2 DEF Lossless, Watched, Reaches, OnWay
<1> QED
  BY <1>3 DEF Given, Sent

\* A step of one connected session leaves the servers alone and keeps it connected.
Local(x) ==
  /\ pc[x] \notin {"free", "closed", "crashed"}
  /\ \E label \in PCs \ {"free", "closed", "crashed"} : pc' = [pc EXCEPT ![x] = label]
  /\ UNCHANGED <<subscribed, session_, early, srv>>

LEMMA LocalSteps ==
  ASSUME Base, [Next]_vars
  PROVE  \/ UNCHANGED vars
         \/ \E s \in Sessions : Local(s)
         \/ \E s \in Sessions, h \in Servers : Accept(h, s)
         \/ \E s \in Sessions : Erase(s)
         \/ \E h \in Servers : Process(h)
<1> USE DEF Goto, serverVars, sessionVars, redisVars, dbVars
<1> DEFINE Labels == PCs \ {"free", "closed", "crashed"}
<1>1. ASSUME NEW s \in Sessions, Handler(s) PROVE Local(s) \/ Erase(s)
  <2>1. CASE HsetHost(s) \/ HsetUuid(s) \/ Reply(s) \/ Remark(s) \/ Close(s)
    BY <2>1 DEF HsetHost, HsetUuid, Reply, Remark, Close, Local, PCs
  <2>2. CASE HgetHost(s) \/ HgetUuid(s) \/ RemarkFails(s) \/ DeliverLocal(s) \/ Publish(s)
    BY <2>2 DEF HgetHost, HgetUuid, RemarkFails, DeliverLocal, Publish, Return, Local, PCs
  <2> QED
    BY <1>1, <2>1, <2>2 DEF Handler
<1>2. ASSUME NEW s \in Sessions, Client(s) PROVE Local(s) \/ \E h \in Servers : Accept(h, s)
  <2>1. ASSUME NEW r \in RequestOf(s),
               \/ Stored(s, r) \/ StoredUnacked(s, r) \/ Declined(s, r)
               \/ NotStored(s, r) \/ Skipped(s, r)
        PROVE  Local(s)
    <3>1. PICK acked, fid : Request(s, r, acked, fid)
      BY <2>1 DEF Stored, StoredUnacked, Declined, NotStored, Skipped
    <3> QED
      BY <3>1 DEF Request, MaySend, Local, PCs
  <2>2. ASSUME \/ \E kind \in ListKinds, fid \in Users \cup {Nil} : QueryList(s, kind, fid)
               \/ \E kind \in ListKinds \cup LookupKinds : Lookup(s, kind)
        PROVE  Local(s)
    BY <2>2 DEF QueryList, Lookup, MaySend, Local, PCs
  <2>3. ASSUME Drop(s) \/ \E u \in Users : HadingLogin(s, u)
        PROVE  Local(s)
    BY <2>3 DEF Drop, HadingLogin, Local, PCs
  <2> QED
    BY <1>2, <2>1, <2>2, <2>3, ClientSteps
<1> QED
  BY <1>1, <1>2 DEF Next

LEMMA ConnectedNext ==
  ASSUME Base, Connected, [Next]_vars
  PROVE  Connected'
<1> USE DEF Goto, serverVars, sessionVars, redisVars, dbVars, Base, Typed, TypeOK, Handling
<1>1. CASE UNCHANGED vars
  BY <1>1 DEF vars, Connected
<1>2. ASSUME NEW s \in Sessions, Local(s) PROVE Connected'
  BY <1>2 DEF Local, Connected
<1>3. ASSUME NEW h \in Servers, NEW s \in Sessions, Accept(h, s) PROVE Connected'
  BY <1>3 DEF Accept, Connected
<1>4. ASSUME NEW s \in Sessions, Erase(s) PROVE Connected'
  BY <1>4 DEF Erase, Connected
<1>5. ASSUME NEW h \in Servers, Process(h) PROVE Connected'
  <2>1. CASE Subscribe(h) \/ RunLoop(h) \/ Restart(h)
    BY <2>1 DEF Subscribe, RunLoop, Restart, Connected
  <2>2. CASE Crash(h)
    BY <2>2 DEF Crash, Connected
  <2> QED
    BY <1>5, <2>1, <2>2 DEF Process
<1> QED
  BY <1>1, <1>2, <1>3, <1>4, <1>5, LocalSteps

\* A session that was accepted early stays one.
LEMMA EarlyKept == [Next]_vars => early \subseteq early'
<1> USE DEF serverVars
<1>1. ASSUME NEW s \in Sessions, Handler(s) PROVE UNCHANGED early
  BY <1>1 DEF Handler, HsetHost, HsetUuid, Reply, HgetHost, HgetUuid, Remark, RemarkFails,
              DeliverLocal, Publish, Close, Erase
<1>2. ASSUME NEW s \in Sessions, Client(s) PROVE early \subseteq early'
  <2>1. ASSUME NEW r \in RequestOf(s),
               \/ Stored(s, r) \/ StoredUnacked(s, r) \/ Declined(s, r)
               \/ NotStored(s, r) \/ Skipped(s, r)
        PROVE  UNCHANGED early
    BY <2>1 DEF Stored, StoredUnacked, Declined, NotStored, Skipped, Request
  <2>2. ASSUME \/ \E kind \in ListKinds, fid \in Users \cup {Nil} : QueryList(s, kind, fid)
               \/ \E kind \in ListKinds \cup LookupKinds : Lookup(s, kind)
               \/ Drop(s) \/ \E u \in Users : HadingLogin(s, u)
        PROVE  UNCHANGED early
    BY <2>2 DEF QueryList, Lookup, Drop, HadingLogin
  <2>3. ASSUME NEW h \in Servers, Accept(h, s) PROVE early \subseteq early'
    BY <2>3 DEF Accept
  <2> QED
    BY <1>2, <2>1, <2>2, <2>3, ClientSteps
<1>3. ASSUME NEW h \in Servers, Process(h) PROVE UNCHANGED early
  BY <1>3 DEF Process, Subscribe, RunLoop, Crash, Restart
<1> QED
  BY <1>1, <1>2, <1>3 DEF Next, vars

\* The frames of a step: those that were there, a push, a login reply, the reply built.
LEMMA NewFrames ==
  ASSUME Known, [Next]_vars
  PROVE  \A s \in Sessions :
           /\ \A i \in DOMAIN out[s] : i \in DOMAIN out'[s] /\ out'[s][i] = out[s][i]
           /\ \A i \in DOMAIN out'[s] :
                \/ i \in DOMAIN out[s] /\ out'[s][i] = out[s][i]
                \/ out'[s][i].what = "push"
                \/ out'[s][i].what = "reply" /\ out'[s][i].rows = {}
                \/ Reply(s) /\ out'[s][i] = dest[s]
<1> USE DEF Goto, serverVars, sessionVars, redisVars, dbVars
<1> DEFINE Grown == \A s \in Sessions : \A i \in DOMAIN out[s] :
                      i \in DOMAIN out'[s] /\ out'[s][i] = out[s][i]
<1>1. CASE UNCHANGED out
  BY <1>1
<1>2. ASSUME NEW x \in Sessions, NEW f \in Frame, SendData(x, f)
      PROVE  Grown
  <2>1. out \in [Sessions -> Seq(Frame)] /\ out' = [out EXCEPT ![x] = Append(out[x], f)]
    BY <1>2 DEF SendData, Known, Base, Typed, TypeOK
  <2>2. \A i \in DOMAIN out[x] : i \in DOMAIN Append(out[x], f) /\ Append(out[x], f)[i] = out[x][i]
    BY <2>1
  <2> QED
    BY <2>1, <2>2
<1>3. ASSUME NEW s \in Sessions, NEW u \in Users, HadingLogin(s, u)
      PROVE  \E f \in Frame : f.what = "reply" /\ f.rows = {} /\ SendData(s, f)
  BY <1>3, FramesTyped DEF HadingLogin, ReplyFrame, Tags
<1>4. ASSUME NEW s \in Sessions, Reply(s)
      PROVE  dest[s] \in Frame /\ SendData(s, dest[s])
  BY <1>4 DEF Reply, Known, Base, Typed, Handling
<1>5. ASSUME NEW h \in Servers, RunLoop(h)
      PROVE  UNCHANGED out \/ \E x \in Sessions, f \in Frame : f.what = "push" /\ SendData(x, f)
  <2>1. Head(chan[h]) \in Message
    BY <1>5, NextMessage DEF Known
  <2>2. PICK m \in Message : m = Head(chan[h])
    BY <2>1
  <2>3. PushFrame(m.reqid, m.row, m.about) \in Frame /\ m.uuid \in Sessions
    BY <2>2, FramesTyped DEF Message
  <2> QED
    BY <1>5, <2>2, <2>3 DEF RunLoop, PushFrame
<1>6. ASSUME NEW s \in Sessions, DeliverLocal(s)
      PROVE  UNCHANGED out \/ \E x \in Sessions, f \in Frame : f.what = "push" /\ SendData(x, f)
  <2>1. /\ ruuid[s] \in Sessions
        /\ PushFrame(LocalTag(cur[s].kind), cur[s], forwardId_[s]) \in Frame
    BY <1>6, FramesTyped DEF DeliverLocal, Known, Base, Typed, Handling, Row
  <2> QED
    BY <1>6, <2>1 DEF DeliverLocal, PushFrame
<1>7. \/ UNCHANGED out
      \/ \E x \in Sessions, f \in Frame :
           /\ SendData(x, f)
           /\ f.what = "push" \/ (f.what = "reply" /\ f.rows = {}) \/ (Reply(x) /\ f = dest[x])
  <2>1. CASE Quiet
    BY <2>1 DEF Quiet
  <2>2. ASSUME NEW s \in Sessions, NEW r \in RequestOf(s),
               \/ Stored(s, r) \/ StoredUnacked(s, r) \/ Declined(s, r)
               \/ NotStored(s, r) \/ Skipped(s, r)
        PROVE  UNCHANGED out
    BY <2>2 DEF Stored, StoredUnacked, Declined, NotStored, Skipped, Request
  <2> QED
    BY Steps, <1>3, <1>4, <1>5, <1>6, <2>1, <2>2 DEF Known
<1>8. ASSUME NEW x \in Sessions, NEW f \in Frame, SendData(x, f),
             f.what = "push" \/ (f.what = "reply" /\ f.rows = {}) \/ (Reply(x) /\ f = dest[x])
      PROVE  \A s \in Sessions : \A i \in DOMAIN out'[s] :
                \/ i \in DOMAIN out[s] /\ out'[s][i] = out[s][i]
                \/ out'[s][i].what = "push"
                \/ out'[s][i].what = "reply" /\ out'[s][i].rows = {}
                \/ Reply(s) /\ out'[s][i] = dest[s]
  BY <1>8, FrameAppended DEF Known
<1> QED
  BY <1>1, <1>2, <1>7, <1>8

\* The reply d is built for a request of session x, or for a list or a lookup.
Builds(x, d) ==
  /\ pc[x] = "idle" /\ pc' = [pc EXCEPT ![x] = "reply"] /\ uid_[x] # Nil
  /\ dest' = [dest EXCEPT ![x] = d] /\ UNCHANGED <<uid_, out, chan, srv>>
  /\ \/ /\ \E kind \in ListKinds, fid \in Users \cup {Nil} :
             \E list \in Lists(uid_[x], kind, fid) :
               d = [tag |-> kind, what |-> "list", rows |-> list, about |-> fid]
        /\ UNCHANGED <<rows, answered, issued, cur, forwardId_>>
     \/ d = ReplyFrame("LOOKUP", {}) /\ UNCHANGED <<rows, answered, issued, cur, forwardId_>>
     \/ \E r \in RequestOf(x) :
          /\ issued' = issued + 1 /\ cur' = [cur EXCEPT ![x] = r]
          /\ answered \subseteq answered'
          /\ \/ /\ d = ReplyFrame(ReplyTag(r.kind), {r})
                /\ rows' = rows \cup {r} /\ forwardId_'[x] = r.to
             \/ d = ReplyFrame(ReplyTag(r.kind), {}) /\ rows' \in {rows, rows \cup {r}}
          /\ \A y \in Sessions \ {x} : forwardId_'[y] = forwardId_[y]

LEMMA Builders ==
  ASSUME Known, NEW x \in Sessions,
         \/ \E r \in RequestOf(x) : \/ Stored(x, r) \/ StoredUnacked(x, r) \/ Declined(x, r)
                                    \/ NotStored(x, r) \/ Skipped(x, r)
         \/ \E kind \in ListKinds, fid \in Users \cup {Nil} : QueryList(x, kind, fid)
         \/ \E kind \in ListKinds \cup LookupKinds : Lookup(x, kind)
  PROVE  \E d : Builds(x, d)
<1> USE DEF Goto, serverVars, sessionVars, redisVars, dbVars
<1>1. ASSUME NEW r \in RequestOf(x),
             \/ Stored(x, r) \/ StoredUnacked(x, r) \/ Declined(x, r)
             \/ NotStored(x, r) \/ Skipped(x, r)
      PROVE  \E d : Builds(x, d)
  <2>1. PICK acked, fid :
          /\ acked \in {{}, {r}} /\ Request(x, r, acked, fid)
          /\ answered \subseteq answered'
          /\ IF acked = {r} THEN rows' = rows \cup {r} /\ fid = r.to
                            ELSE rows' \in {rows, rows \cup {r}}
    BY <1>1 DEF Stored, StoredUnacked, Declined, NotStored, Skipped, Store
  <2>2. /\ forwardId_ \in [Sessions -> Users \cup {Nil, NoForward}]
        /\ forwardId_' = [forwardId_ EXCEPT ![x] = fid]
    BY <2>1 DEF Request, Known, Base, Typed, TypeOK
  <2>3. forwardId_'[x] = fid /\ \A y \in Sessions \ {x} : forwardId_'[y] = forwardId_[y]
    BY <2>2
  <2>4. Builds(x, ReplyFrame(ReplyTag(r.kind), acked))
    BY <2>1, <2>3 DEF Request, MaySend, Builds
  <2> QED
    BY <2>4
<1>2. ASSUME NEW kind \in ListKinds, NEW fid \in Users \cup {Nil}, QueryList(x, kind, fid)
      PROVE  \E d : Builds(x, d)
  <2>1. PICK list \in Lists(uid_[x], kind, fid) : dest' = [dest EXCEPT ![x] =
          [tag |-> kind, what |-> "list", rows |-> list, about |-> fid]]
    BY <1>2 DEF QueryList
  <2>2. Builds(x, [tag |-> kind, what |-> "list", rows |-> list, about |-> fid])
    BY <1>2, <2>1 DEF QueryList, MaySend, Builds
  <2> QED
    BY <2>2
<1>3. ASSUME NEW kind \in ListKinds \cup LookupKinds, Lookup(x, kind)
      PROVE  Builds(x, ReplyFrame("LOOKUP", {}))
  BY <1>3 DEF Lookup, MaySend, Builds
<1> QED
  BY <1>1, <1>2, <1>3

\* Every other step keeps the reply, or sends it.
LEMMA Replies ==
  ASSUME Known, [Next]_vars
  PROVE  \/ \E x \in Sessions : \E d : Builds(x, d)
         \/ \E x \in Sessions : Reply(x)
         \/ UNCHANGED <<dest, rows, answered, issued>> /\ \E h \in Servers : Crash(h)
         \/ UNCHANGED <<dest, rows, answered, issued>>
            /\ \/ UNCHANGED pc
               \/ \E x \in Sessions, label \in PCs \ {"reply"} :
                    pc[x] # "reply" /\ pc[x] # "crashed" /\ pc' = [pc EXCEPT ![x] = label]
            /\ \/ UNCHANGED uid_
               \/ \E x \in Sessions, u \in Users : HadingLogin(x, u)
<1> USE DEF Goto, serverVars, sessionVars, redisVars, dbVars, PCs
<1>1. CASE UNCHANGED vars
  BY <1>1 DEF vars
<1>2. ASSUME NEW h \in Servers, Process(h)
      PROVE  UNCHANGED <<dest, rows, answered, issued>> /\ (Crash(h) \/ UNCHANGED <<pc, uid_>>)
  BY <1>2 DEF Process, Subscribe, RunLoop, Restart, Crash
<1> DEFINE Still(x) == /\ UNCHANGED <<dest, rows, answered, issued>>
                       /\ \E label \in PCs \ {"reply"} :
                            pc[x] # "reply" /\ pc[x] # "crashed" /\ pc' = [pc EXCEPT ![x] = label]
                       /\ UNCHANGED uid_ \/ \E u \in Users : HadingLogin(x, u)
<1>3. ASSUME NEW x \in Sessions, Handler(x) PROVE Reply(x) \/ Still(x)
  <2>1. CASE HsetHost(x) \/ HsetUuid(x) \/ Remark(x) \/ Close(x) \/ Erase(x)
    BY <2>1 DEF HsetHost, HsetUuid, Remark, Close, Erase
  <2>2. CASE HgetHost(x) \/ HgetUuid(x) \/ RemarkFails(x) \/ DeliverLocal(x) \/ Publish(x)
    BY <2>2 DEF HgetHost, HgetUuid, RemarkFails, DeliverLocal, Publish, Return
  <2> QED
    BY <1>3, <2>1, <2>2 DEF Handler
<1>4. ASSUME NEW x \in Sessions, Client(x) PROVE (\E d : Builds(x, d)) \/ Still(x)
  <2>1. ASSUME \/ \E h \in Servers : Accept(h, x)
               \/ \E u \in Users : HadingLogin(x, u)
               \/ Drop(x)
        PROVE  Still(x)
    BY <2>1 DEF Accept, HadingLogin, Drop
  <2> QED
    BY <1>4, <2>1, ClientSteps, Builders
<1> QED
  BY <1>1, <1>2, <1>3, <1>4 DEF Next

LEMMA LoginLabels ==
  ASSUME Known, [Next]_vars, NEW s \in Sessions, pc'[s] \in {"hset_host", "hset_uuid"}
  PROVE  pc[s] \in {"hset_host", "hset_uuid"} \/ \E u \in Users : HadingLogin(s, u)
<1> USE DEF Goto, serverVars, sessionVars, redisVars, dbVars, Known, Base, Typed, TypeOK
<1>1. CASE UNCHANGED vars
  BY <1>1 DEF vars
<1>2. ASSUME NEW h \in Servers, Process(h) PROVE pc[s] \in {"hset_host", "hset_uuid"}
  BY <1>2 DEF Process, Subscribe, RunLoop, Restart, Crash
<1>3. ASSUME NEW x \in Sessions, Handler(x) PROVE pc[s] \in {"hset_host", "hset_uuid"}
  <2>1. CASE HsetHost(x) \/ HsetUuid(x) \/ Remark(x) \/ Close(x) \/ Erase(x) \/ Reply(x)
    BY <2>1 DEF HsetHost, HsetUuid, Remark, Close, Erase, Reply
  <2>2. CASE HgetHost(x) \/ HgetUuid(x) \/ RemarkFails(x) \/ DeliverLocal(x) \/ Publish(x)
    BY <2>2 DEF HgetHost, HgetUuid, RemarkFails, DeliverLocal, Publish, Return
  <2> QED
    BY <1>3, <2>1, <2>2 DEF Handler
<1>4. ASSUME NEW x \in Sessions, Client(x)
      PROVE  pc[s] \in {"hset_host", "hset_uuid"} \/ \E u \in Users : HadingLogin(s, u)
  <2>1. ASSUME (\E h \in Servers : Accept(h, x)) \/ Drop(x) \/ \E d : Builds(x, d)
        PROVE  pc[s] \in {"hset_host", "hset_uuid"}
    BY <2>1 DEF Accept, Drop, Builds
  <2>2. ASSUME NEW u \in Users, HadingLogin(x, u)
        PROVE  x = s \/ pc[s] \in {"hset_host", "hset_uuid"}
    BY <2>2 DEF HadingLogin
  <2> QED
    BY <1>4, <2>1, <2>2, ClientSteps, Builders
<1> QED
  BY <1>1, <1>2, <1>3, <1>4 DEF Next

LEMMA BuiltNext == Known /\ Built /\ [Next]_vars => Built'
<1> SUFFICES ASSUME Known, Built, [Next]_vars PROVE Built'
  OBVIOUS
<1> USE DEF Known, Base, Typed, TypeOK
<1>1. \A s \in Sessions : pc'[s] \notin {"reply", "crashed"} \/ uid_'[s] = Nil => dest'[s] = Nil
  <2>1. ASSUME NEW x \in Sessions, NEW d, Builds(x, d)
        PROVE  \A s \in Sessions :
                 pc'[s] \notin {"reply", "crashed"} \/ uid_'[s] = Nil => dest'[s] = Nil
    BY <2>1 DEF Builds, Built
  <2>2. ASSUME NEW x \in Sessions, Reply(x)
        PROVE  \A s \in Sessions :
                 pc'[s] \notin {"reply", "crashed"} \/ uid_'[s] = Nil => dest'[s] = Nil
    BY <2>2 DEF Reply, Goto, sessionVars, Built
  <2>3. ASSUME NEW h \in Servers, Crash(h), UNCHANGED dest
        PROVE  \A s \in Sessions :
                 pc'[s] \notin {"reply", "crashed"} \/ uid_'[s] = Nil => dest'[s] = Nil
    BY <2>3 DEF Crash, sessionVars, Built
  <2>4. CASE /\ UNCHANGED dest
             /\ \/ UNCHANGED pc
                \/ \E x \in Sessions, label \in PCs \ {"reply"} :
                     pc[x] # "reply" /\ pc[x] # "crashed" /\ pc' = [pc EXCEPT ![x] = label]
             /\ UNCHANGED uid_ \/ \E x \in Sessions, u \in Users : HadingLogin(x, u)
    <3>1. \A s \in Sessions : uid_'[s] = Nil => uid_[s] = Nil
      BY <2>4, ConstantAssumption DEF HadingLogin
    <3>2. \A s \in Sessions : pc'[s] \notin {"reply", "crashed"} => pc[s] \notin {"reply", "crashed"}
      BY <2>4
    <3> QED
      BY <2>4, <3>1, <3>2 DEF Built
  <2> QED
    BY Replies, <2>1, <2>2, <2>3, <2>4
<1>2. ASSUME NEW s \in Sessions, pc'[s] \in {"hset_host", "hset_uuid"}, NEW i \in DOMAIN out'[s]
      PROVE  out'[s][i].what # "list"
  <2>1. CASE Reply(s)
    BY <1>2, <2>1 DEF Reply, Goto
  <2>2. CASE out'[s][i].what = "push" \/ out'[s][i].what = "reply"
    BY <2>2
  <2>3. CASE i \in DOMAIN out[s] /\ out'[s][i] = out[s][i]
    <3>1. pc[s] \in {"hset_host", "hset_uuid"} \/ \E u \in Users : HadingLogin(s, u)
      BY <1>2, LoginLabels
    <3>2. CASE \E u \in Users : HadingLogin(s, u)
      BY <2>3, <3>2 DEF HadingLogin, Greeted
    <3> QED
      BY <1>2, <2>3, <3>1, <3>2 DEF Built
  <2> QED
    BY NewFrames, <2>1, <2>2, <2>3
<1> QED
  BY <1>1, <1>2 DEF Built

LEMMA AckedPastNext == Known /\ Built /\ AckedPast /\ [Next]_vars => AckedPast'
<1> SUFFICES ASSUME Known, Built, AckedPast, [Next]_vars PROVE AckedPast'
  OBVIOUS
<1>0. issued \in Nat /\ issued' \in Nat /\ issued <= issued'
  <2>1. issued \in Nat /\ issued' \in Nat
    BY TypedNext DEF Known, Base, Typed, TypeOK
  <2>2. issued' = issued \/ issued' = issued + 1
    BY Replies DEF Builds, Reply, dbVars
  <2> QED
    BY <2>1, <2>2
<1>1. ASSUME NEW r \in Row, r.id <= issued PROVE r.id <= issued'
  BY <1>0, <1>1 DEF Row
<1>2. ASSUME NEW s \in Sessions, dest'[s] # Nil, dest'[s].what = "reply", NEW r \in dest'[s].rows
      PROVE  r.id <= issued'
  <2>1. CASE dest'[s] = dest[s]
    <3>1. r \in Row /\ r.id <= issued
      BY <1>2, <2>1 DEF AckedPast, Known, Base, Typed, TypeOK, Frame
    <3> QED
      BY <1>1, <3>1
  <2>2. ASSUME NEW d, Builds(s, d) PROVE r.id <= issued'
    <3>1. dest'[s] = d
      BY <2>2 DEF Builds, Known, Base, Typed, TypeOK
    <3>2. CASE d.what = "reply" /\ d.rows = {}
      BY <1>2, <3>1, <3>2
    <3>3. CASE d.what = "list"
      BY <1>2, <3>1, <3>3
    <3>4. ASSUME NEW q \in RequestOf(s), d.rows = {q}, issued' = issued + 1 PROVE r.id <= issued'
      BY <1>0, <1>2, <3>1, <3>4 DEF RequestOf
    <3> QED
      BY <2>2, <3>2, <3>3, <3>4 DEF Builds, ReplyFrame
  <2>3. dest'[s] = dest[s] \/ dest'[s] = Nil \/ \E d : Builds(s, d)
    <3>1. dest \in [Sessions -> Frame \cup {Nil}]
      BY DEF Known, Base, Typed, TypeOK
    <3>2. ASSUME NEW x \in Sessions, NEW d, Builds(x, d)
          PROVE  dest'[s] = dest[s] \/ Builds(s, d)
      BY <3>1, <3>2 DEF Builds
    <3>3. ASSUME NEW x \in Sessions, Reply(x)
          PROVE  dest'[s] = dest[s] \/ dest'[s] = Nil
      BY <3>1, <3>3 DEF Reply
    <3> QED
      BY Replies, <3>2, <3>3
  <2> QED
    BY <1>2, <2>1, <2>2, <2>3
<1>3. ASSUME NEW s \in Sessions, NEW i \in DOMAIN out'[s], out'[s][i].what = "reply",
             NEW r \in out'[s][i].rows
      PROVE  r.id <= issued'
  <2>1. CASE i \in DOMAIN out[s] /\ out'[s][i] = out[s][i]
    <3>1. r \in Row /\ r.id <= issued
      BY <1>3, <2>1, RowsTyped DEF AckedPast, Known
    <3> QED
      BY <1>1, <3>1
  <2>2. CASE Reply(s) /\ out'[s][i] = dest[s]
    <3>1. dest[s] \in Frame /\ r \in Row /\ dest[s] # Nil
      BY <1>3, <2>2, NilAssumption DEF Reply, Known, Base, Typed, TypeOK, Handling, Frame
    <3>2. r.id <= issued
      BY <1>3, <2>2, <3>1 DEF AckedPast
    <3> QED
      BY <1>1, <3>1, <3>2
  <2>3. CASE out'[s][i].rows = {} \/ out'[s][i].what = "push"
    BY <1>3, <2>3
  <2> QED
    BY NewFrames, <2>1, <2>2, <2>3
<1> QED
  BY <1>2, <1>3 DEF AckedPast

\* What a step leaves of the request a session handles.
SameWay(x) ==
  /\ pc'[x] = pc[x] /\ cur'[x] = cur[x] /\ forwardId_'[x] = forwardId_[x]
  /\ rhost'[x] = rhost[x] /\ ruuid'[x] = ruuid[x]

LEMMA WaySteps ==
  ASSUME Known, [Next]_vars, NEW x \in Sessions,
         pc[x] \in {"crashed", "reply", "hget_host", "hget_uuid", "deliver"}
  PROVE  \/ SameWay(x)
         \/ pc'[x] = "crashed" /\ cur'[x] = cur[x]
         \/ Reply(x) \/ HgetHost(x) \/ HgetUuid(x) \/ DeliverLocal(x) \/ Publish(x)
<1> USE DEF Goto, serverVars, sessionVars, redisVars, dbVars, Known, Base, Typed, TypeOK
<1>1. CASE UNCHANGED vars
  BY <1>1 DEF vars, SameWay
<1>2. ASSUME NEW h \in Servers, Process(h)
      PROVE  SameWay(x) \/ (pc'[x] = "crashed" /\ cur'[x] = cur[x])
  BY <1>2 DEF Process, Subscribe, RunLoop, Restart, Crash, SameWay
<1>3. ASSUME NEW y \in Sessions, Handler(y)
      PROVE  \/ SameWay(x)
             \/ Reply(x) \/ HgetHost(x) \/ HgetUuid(x) \/ DeliverLocal(x) \/ Publish(x)
  <2>1. CASE HsetHost(y) \/ HsetUuid(y) \/ Remark(y) \/ Close(y) \/ Erase(y)
    BY <2>1 DEF HsetHost, HsetUuid, Remark, Close, Erase, SameWay
  <2>2. CASE RemarkFails(y)
    BY <2>2 DEF RemarkFails, Return, SameWay
  <2>3. CASE Reply(y) /\ y # x
    BY <2>3 DEF Reply, SameWay
  <2>4. CASE y # x /\ (HgetHost(y) \/ HgetUuid(y) \/ DeliverLocal(y) \/ Publish(y))
    BY <2>4 DEF HgetHost, HgetUuid, DeliverLocal, Publish, Return, SameWay
  <2> QED
    BY <1>3, <2>1, <2>2, <2>3, <2>4 DEF Handler
<1>4. ASSUME NEW y \in Sessions, Client(y) PROVE SameWay(x)
  <2>1. ASSUME \/ \E h \in Servers : Accept(h, y)
               \/ \E u \in Users : HadingLogin(y, u)
               \/ Drop(y)
        PROVE  SameWay(x)
    BY <2>1 DEF Accept, HadingLogin, Drop, SameWay
  <2>2. ASSUME \/ \E kind \in ListKinds, fid \in Users \cup {Nil} : QueryList(y, kind, fid)
               \/ \E kind \in ListKinds \cup LookupKinds : Lookup(y, kind)
        PROVE  SameWay(x)
    BY <2>2 DEF QueryList, Lookup, MaySend, SameWay
  <2>3. ASSUME NEW q \in RequestOf(y),
               \/ Stored(y, q) \/ StoredUnacked(y, q) \/ Declined(y, q)
               \/ NotStored(y, q) \/ Skipped(y, q)
        PROVE  SameWay(x)
    <3>1. PICK acked, fid : Request(y, q, acked, fid)
      BY <2>3 DEF Stored, StoredUnacked, Declined, NotStored, Skipped
    <3> QED
      BY <3>1 DEF Request, MaySend, SameWay
  <2> QED
    BY <1>4, <2>1, <2>2, <2>3, ClientSteps
<1> QED
  BY <1>1, <1>2, <1>3, <1>4 DEF Next

\* A message stays on its channel until run() reads it or the server dies.
LEMMA ChanKept ==
  ASSUME Known, [Next]_vars, NEW h \in Servers, NEW i \in DOMAIN chan[h]
  PROVE  \/ \E j \in DOMAIN chan'[h] : chan'[h][j] = chan[h][i]
         \/ RunLoop(h) /\ i = 1
         \/ Crash(h)
<1> USE DEF Goto, serverVars, sessionVars, redisVars, dbVars, Known, Base, Typed, TypeOK
<1>0. chan \in [Servers -> Seq(Message)]
  OBVIOUS
<1>1. CASE UNCHANGED chan
  BY <1>1
<1>2. ASSUME NEW k \in Servers, Crash(k)
      PROVE  Crash(h) \/ \E j \in DOMAIN chan'[h] : chan'[h][j] = chan[h][i]
  <2>1. CASE k = h
    BY <1>2, <2>1
  <2>2. CASE k # h
    <3>1. chan'[h] = chan[h]
      BY <1>0, <1>2, <2>2 DEF Crash
    <3> QED
      BY <3>1
  <2> QED
    BY <2>1, <2>2
<1>3. ASSUME NEW k \in Servers, RunLoop(k)
      PROVE  \/ RunLoop(h) /\ i = 1
             \/ \E j \in DOMAIN chan'[h] : chan'[h][j] = chan[h][i]
  <2>1. chan' = [chan EXCEPT ![k] = Tail(chan[k])] /\ chan[k] # <<>>
    BY <1>3 DEF RunLoop
  <2>2. CASE k # h
    <3>1. chan'[h] = chan[h]
      BY <1>0, <2>1, <2>2
    <3> QED
      BY <3>1
  <2>3. CASE k = h /\ i # 1
    <3>1. chan'[h] = Tail(chan[h]) /\ chan[h] \in Seq(Message) /\ chan[h] # <<>>
      BY <1>0, <2>1, <2>3
    <3>2. i - 1 \in DOMAIN Tail(chan[h]) /\ Tail(chan[h])[i - 1] = chan[h][i]
      BY <2>3, <3>1
    <3> QED
      BY <3>1, <3>2
  <2> QED
    BY <1>3, <2>2, <2>3
<1>4. ASSUME NEW x \in Sessions, Publish(x)
      PROVE  \E j \in DOMAIN chan'[h] : chan'[h][j] = chan[h][i]
  <2> DEFINE m == [reqid |-> RemoteTag(cur[x].kind), uuid |-> ruuid[x],
                   row |-> cur[x], about |-> forwardId_[x]]
  <2>1. chan' = chan \/ chan' = [chan EXCEPT ![rhost[x]] = Append(chan[rhost[x]], m)]
    BY <1>4 DEF Publish
  <2> HIDE DEF m
  <2>2. i \in DOMAIN Append(chan[h], m) /\ Append(chan[h], m)[i] = chan[h][i]
    BY <1>0
  <2> QED
    BY <1>0, <2>1, <2>2
<1>5. CASE \/ \E x \in Sessions, k \in Servers : Accept(k, x)
           \/ \E x \in Sessions : Erase(x) \/ Reply(x) \/ DeliverLocal(x)
           \/ \E x \in Sessions, u \in Users : HadingLogin(x, u)
           \/ \E x \in Sessions : \E d : Builds(x, d)
  <2>1. UNCHANGED chan
    BY <1>5 DEF Accept, Erase, Reply, DeliverLocal, HadingLogin, Builds
  <2> QED
    BY <1>1, <2>1
<1>6. ASSUME NEW x \in Sessions,
             \E r \in RequestOf(x) : \/ Stored(x, r) \/ StoredUnacked(x, r) \/ Declined(x, r)
                                     \/ NotStored(x, r) \/ Skipped(x, r)
      PROVE  \E d : Builds(x, d)
  BY <1>6, Builders
<1> QED
  BY Steps, <1>1, <1>2, <1>3, <1>4, <1>5, <1>6

\* A row on its way to a session that redis names, or that was given, still is after
\* any step that leaves the session the one redis names.
LEMMA GivenKept ==
  ASSUME Known, Connected, [Next]_vars, NEW s \in Sessions, NEW r \in Row,
         Routed(s), Routed(s)', Given(s, r)
  PROVE  Given(s, r)'
<1>1. pc[s] \notin {"free", "closed", "crashed"} /\ srv'[s] = srv[s] /\ srv[s] \in Servers
  <2>1. pc[s] \notin {"free", "closed", "crashed"}
    BY DEF Routed, Known, Greeted
  <2> QED
    BY <2>1, ServersKept DEF Known, Base, Typed, Handling
<1>2. CASE \E i \in DOMAIN out[s] : out[s][i].what \in {"list", "push"} /\ r \in out[s][i].rows
  BY <1>2, NewFrames DEF Given
<1>3. ASSUME NEW i \in DOMAIN chan[srv[s]],
             chan[srv[s]][i].uuid = s, chan[srv[s]][i].row = r
      PROVE  Given(s, r)'
  <2> DEFINE h == srv[s]
  <2>1. CASE \E j \in DOMAIN chan'[h] : chan'[h][j] = chan[h][i]
    BY <1>1, <1>3, <2>1 DEF Given
  <2>2. CASE RunLoop(h) /\ i = 1
    <3>1. Head(chan[h]) = chan[h][1] /\ chan[h][1] \in Message
      BY <1>1, <2>2, NextMessage DEF Known
    <3>2. s \in session_[h]
      BY <1>1 DEF Connected
    <3>3. PICK m \in Message : m = chan[h][1]
      BY <3>1
    <3>4. SendData(s, PushFrame(m.reqid, r, m.about))
      BY <1>3, <2>2, <3>1, <3>2, <3>3 DEF RunLoop
    <3>5. PICK f : f = PushFrame(m.reqid, r, m.about)
      OBVIOUS
    <3>6. out \in [Sessions -> Seq(Frame)] /\ out' = [out EXCEPT ![s] = Append(out[s], f)]
      BY <3>4, <3>5 DEF SendData, Known, Base, Typed, TypeOK
    <3>7. Len(out[s]) + 1 \in DOMAIN out'[s] /\ out'[s][Len(out[s]) + 1] = f
      BY <3>6
    <3>8. f.what = "push" /\ r \in f.rows
      BY <3>5 DEF PushFrame
    <3> QED
      BY <3>7, <3>8 DEF Given
  <2>3. CASE Crash(h)
    <3>1. pc'[s] = "crashed"
      BY <1>1, <2>3 DEF Crash
    <3> QED
      BY <3>1 DEF Routed
  <2> QED
    BY <1>1, <1>3, <2>1, <2>2, <2>3, ChanKept
<1> QED
  BY <1>2, <1>3 DEF Given

LEMMA WayKept ==
  ASSUME Known, Connected, [Next]_vars, NEW s \in Sessions \ early, NEW r \in Row,
         Routed(s), Routed(s)', r.to = uid_[s], r.kind # "WHETHER_ACCEPT_ADD_FRIEND",
         OnWay(s, r)
  PROVE  Reaches(s, r)'
<1>1. /\ pc[s] \notin {"free", "closed", "crashed"} /\ srv'[s] = srv[s] /\ srv[s] \in Servers
      /\ subscribed[srv[s]] /\ s \in session_[srv[s]] /\ uid_[s] \in Users
  <2>1. pc[s] \notin {"free", "closed", "crashed"} /\ uid_[s] \in Users
    BY DEF Routed, Known, Greeted, Base, Typed, TypeOK
  <2> QED
    BY <2>1, ServersKept DEF Known, Base, Typed, Handling, Connected
<1>2. PICK x \in Sessions :
        /\ cur[x] = r
        /\ \/ pc[x] = "crashed"
           \/ /\ forwardId_[x] = uid_[s]
              /\ \/ pc[x] \in {"reply", "hget_host"}
                 \/ pc[x] = "hget_uuid" /\ rhost[x] = srv[s]
                 \/ pc[x] = "deliver" /\ rhost[x] = srv[s] /\ ruuid[x] = s
  BY DEF OnWay
<1> USE DEF Goto, serverVars, sessionVars, redisVars, dbVars
<1>3. CASE SameWay(x) \/ (pc'[x] = "crashed" /\ cur'[x] = cur[x])
  <2>1. OnWay(s, r)'
    BY <1>1, <1>2, <1>3 DEF SameWay, OnWay
  <2> QED
    BY <2>1 DEF Reaches
<1>4. CASE Reply(x)
  <2>1. cur[x] # Nil /\ forwardId_[x] # NoForward /\ pc[x] = "reply"
    BY <1>1, <1>2, <1>4, ConstantAssumption, NilAssumption DEF Reply
  <2>2. pc'[x] = "hget_host" /\ cur' = cur /\ forwardId_' = forwardId_
    BY <1>4, <2>1 DEF Reply, Known, Base, Typed, TypeOK
  <2>3. OnWay(s, r)'
    BY <1>2, <2>1, <2>2 DEF OnWay
  <2> QED
    BY <2>3 DEF Reaches
<1>5. CASE HgetHost(x)
  <2>1. forwardId_[x] \in Users /\ host[forwardId_[x]] = srv[s] /\ srv[s] # Nil
    BY <1>1, <1>2, <1>5, ConstantAssumption DEF HgetHost, Routed
  <2>2. pc'[x] = "hget_uuid" /\ cur' = cur /\ forwardId_' = forwardId_ /\ rhost'[x] = srv[s]
    BY <1>5, <2>1 DEF HgetHost, Known, Base, Typed, TypeOK
  <2>3. OnWay(s, r)'
    BY <1>1, <1>2, <1>5, <2>2 DEF HgetHost, OnWay
  <2> QED
    BY <2>3 DEF Reaches
<1>6. CASE HgetUuid(x)
  <2>1. uuid[forwardId_[x]] = s /\ s # Nil /\ rhost[x] = srv[s]
    BY <1>1, <1>2, <1>6, ConstantAssumption DEF HgetUuid, Routed
  <2>2. /\ pc'[x] = "deliver" /\ cur' = cur /\ forwardId_' = forwardId_ /\ rhost' = rhost
        /\ ruuid'[x] = s
    BY <1>2, <1>6, <2>1 DEF HgetUuid, Known, Base, Typed, TypeOK
  <2>3. OnWay(s, r)'
    BY <1>1, <1>2, <1>6, <2>1, <2>2 DEF HgetUuid, OnWay
  <2> QED
    BY <2>3 DEF Reaches
<1>7. CASE DeliverLocal(x)
  <2>1. rhost[x] = srv[s] /\ ruuid[x] = s /\ srv[x] = srv[s]
    BY <1>2, <1>7 DEF DeliverLocal
  <2>2. PICK f : f = PushFrame(LocalTag(r.kind), r, forwardId_[x])
    OBVIOUS
  <2>3. SendData(s, f)
    BY <1>1, <1>2, <1>7, <2>1, <2>2 DEF DeliverLocal
  <2>4. out \in [Sessions -> Seq(Frame)] /\ out' = [out EXCEPT ![s] = Append(out[s], f)]
    BY <2>3 DEF SendData, Known, Base, Typed, TypeOK
  <2>5. Len(out[s]) + 1 \in DOMAIN out'[s] /\ out'[s][Len(out[s]) + 1] = f
    BY <2>4
  <2>6. f.what = "push" /\ r \in f.rows
    BY <2>2 DEF PushFrame
  <2> QED
    BY <2>5, <2>6 DEF Reaches, Given
<1>8. CASE Publish(x)
  <2>1. rhost[x] = srv[s] /\ ruuid[x] = s /\ pc[x] = "deliver"
    BY <1>2, <1>8 DEF Publish
  <2>2. PICK m : m = [reqid |-> RemoteTag(r.kind), uuid |-> s, row |-> r, about |-> forwardId_[x]]
    OBVIOUS
  <2>3. chan \in [Servers -> Seq(Message)] /\ chan' = [chan EXCEPT ![srv[s]] = Append(chan[srv[s]], m)]
    BY <1>1, <1>2, <1>8, <2>1, <2>2 DEF Publish, Known, Base, Typed, TypeOK
  <2>4. Len(chan[srv[s]]) + 1 \in DOMAIN chan'[srv[s]] /\ chan'[srv[s]][Len(chan[srv[s]]) + 1] = m
    BY <1>1, <2>3
  <2>5. m.uuid = s /\ m.row = r
    BY <2>2
  <2> QED
    BY <1>1, <2>4, <2>5 DEF Reaches, Given
<1> QED
  BY <1>2, <1>3, <1>4, <1>5, <1>6, <1>7, <1>8, WaySteps

\* A step of one session that touches no presence.
Elsewhere(x) ==
  /\ UNCHANGED <<uid_, srv, isLogin_, host, uuid, subscribed>>
  /\ pc[x] \notin {"free", "hset_host", "hset_uuid", "closed", "crashed"}
  /\ \E label \in PCs \ {"free", "hset_host", "hset_uuid", "closed", "crashed"} :
       pc' = [pc EXCEPT ![x] = label]

LEMMA PresenceSteps ==
  ASSUME Known, [Next]_vars
  PROVE  \/ UNCHANGED vars
         \/ \E x \in Sessions :
              \/ Elsewhere(x)
              \/ HsetHost(x) \/ HsetUuid(x) \/ Close(x) \/ Erase(x)
              \/ \E h \in Servers : Accept(h, x)
              \/ \E u \in Users : HadingLogin(x, u)
         \/ \E h \in Servers : Process(h)
<1> USE DEF Goto, serverVars, sessionVars, redisVars, dbVars, PCs
<1>1. ASSUME NEW x \in Sessions, Handler(x)
      PROVE  Elsewhere(x) \/ HsetHost(x) \/ HsetUuid(x) \/ Close(x) \/ Erase(x)
  <2>1. CASE Reply(x) \/ Remark(x)
    BY <2>1 DEF Reply, Remark, Elsewhere
  <2>2. CASE HgetHost(x) \/ HgetUuid(x) \/ RemarkFails(x) \/ DeliverLocal(x) \/ Publish(x)
    BY <2>2 DEF HgetHost, HgetUuid, RemarkFails, DeliverLocal, Publish, Return, Elsewhere
  <2> QED
    BY <1>1, <2>1, <2>2 DEF Handler
<1>2. ASSUME NEW x \in Sessions, Client(x)
      PROVE  \/ Elsewhere(x)
             \/ \E h \in Servers : Accept(h, x)
             \/ \E u \in Users : HadingLogin(x, u)
  <2>1. CASE Drop(x)
    BY <2>1 DEF Drop, Elsewhere
  <2>2. ASSUME \/ \E kind \in ListKinds, fid \in Users \cup {Nil} : QueryList(x, kind, fid)
               \/ \E kind \in ListKinds \cup LookupKinds : Lookup(x, kind)
        PROVE  Elsewhere(x)
    BY <2>2 DEF QueryList, Lookup, MaySend, Elsewhere
  <2>3. ASSUME NEW q \in RequestOf(x),
               \/ Stored(x, q) \/ StoredUnacked(x, q) \/ Declined(x, q)
               \/ NotStored(x, q) \/ Skipped(x, q)
        PROVE  Elsewhere(x)
    <3>1. PICK acked, fid : Request(x, q, acked, fid)
      BY <2>3 DEF Stored, StoredUnacked, Declined, NotStored, Skipped
    <3> QED
      BY <3>1 DEF Request, MaySend, Elsewhere
  <2> QED
    BY <1>2, <2>1, <2>2, <2>3, ClientSteps
<1> QED
  BY <1>1, <1>2 DEF Next

LEMMA LoginLastNext == Known /\ LoginLast /\ [Next]_vars => LoginLast'
<1> SUFFICES ASSUME Known, LoginLast, [Next]_vars PROVE LoginLast'
  OBVIOUS
<1> USE ConstantAssumption DEF Goto, serverVars, sessionVars, redisVars, dbVars, Known, Base,
        Typed, TypeOK, Handling
<1>1. CASE UNCHANGED vars
  BY <1>1 DEF vars, LoginLast
<1>2. ASSUME NEW x \in Sessions, Elsewhere(x) PROVE LoginLast'
  BY <1>2 DEF Elsewhere, LoginLast
<1>3. ASSUME NEW x \in Sessions, HsetHost(x) \/ HsetUuid(x) \/ Close(x) \/ Erase(x)
      PROVE  LoginLast'
  BY <1>3 DEF HsetHost, HsetUuid, Close, Erase, LoginLast
<1>4. ASSUME NEW x \in Sessions, \/ \E h \in Servers : Accept(h, x)
                                 \/ \E u \in Users : HadingLogin(x, u)
      PROVE  LoginLast'
  BY <1>4 DEF Accept, HadingLogin, LoginLast
<1>5. ASSUME NEW h \in Servers, Process(h) PROVE LoginLast'
  BY <1>5 DEF Process, Subscribe, RunLoop, Restart, Crash, LoginLast
<1> QED
  BY PresenceSteps, <1>1, <1>2, <1>3, <1>4, <1>5

\* A session that redis names after a step was named before, by itself and by nobody
\* whose login is half done, or has been sent no list.
LEMMA RoutedBefore ==
  ASSUME Known, Connected, Built, LoginLast, [Next]_vars, NEW s \in Sessions \ early,
         Routed(s)', LoginsWhole(s)'
  PROVE  \/ Routed(s) /\ LoginsWhole(s) /\ uid_'[s] = uid_[s]
         \/ dest'[s] = Nil /\ \A i \in DOMAIN out'[s] : out'[s][i].what # "list"
<1> USE ConstantAssumption DEF Goto, serverVars, sessionVars, redisVars, dbVars, Known, Base,
        Typed, TypeOK
<1> DEFINE Goal == \/ Routed(s) /\ LoginsWhole(s) /\ uid_'[s] = uid_[s]
                   \/ dest'[s] = Nil /\ \A i \in DOMAIN out'[s] : out'[s][i].what # "list"
<1>1. CASE UNCHANGED vars
  BY <1>1 DEF vars, Routed, LoginsWhole
<1>2. ASSUME NEW x \in Sessions, Elsewhere(x) PROVE Goal
  BY <1>2 DEF Elsewhere, Routed, LoginsWhole
<1>3. ASSUME NEW x \in Sessions, NEW h \in Servers, Accept(h, x) PROVE Goal
  BY <1>3 DEF Accept, Routed, LoginsWhole, Greeted
<1>4. ASSUME NEW x \in Sessions, NEW u \in Users, HadingLogin(x, u) PROVE Goal
  <2>1. CASE x = s
    <3>1. uid_[s] = Nil /\ UNCHANGED dest /\ ~Reply(s) /\ out[s] = <<>>
      BY <1>4, <2>1 DEF HadingLogin, Reply, Greeted
    <3>2. \A i \in DOMAIN out'[s] : out'[s][i].what # "list"
      <4>1. DOMAIN out[s] = {}
        BY <3>1
      <4> HIDE DEF Known, Base, Typed, TypeOK
      <4> QED
        BY <3>1, <4>1, NewFrames
    <3>3. dest[s] = Nil
      BY <3>1 DEF Built
    <3> QED
      BY <3>1, <3>2, <3>3
  <2>2. CASE x # s
    BY ZenonT(30), <1>4, <2>2 DEF HadingLogin, Routed, LoginsWhole
  <2> QED
    BY <2>1, <2>2
<1>5. ASSUME NEW x \in Sessions, HsetHost(x) PROVE Goal
  <2>1. uid_[x] # uid_[s]
    BY <1>5 DEF HsetHost, LoginsWhole
  <2>2. uid_[x] \in Users /\ uid_[s] \in Users /\ uid_' = uid_ /\ srv' = srv
    BY <1>5 DEF HsetHost, Routed, Handling
  <2>3. Routed(s)
    BY <1>5, <2>1, <2>2 DEF HsetHost, Routed
  <2>4. LoginsWhole(s)
    BY <1>5, <2>1, <2>2 DEF HsetHost, LoginsWhole
  <2> QED
    BY <2>2, <2>3, <2>4
<1>6. ASSUME NEW x \in Sessions, HsetUuid(x) PROVE Goal
  <2>1. CASE x = s
    BY <1>6, <2>1 DEF HsetUuid, Built
  <2>2. CASE x # s
    <3>1. uid_[x] \in Users /\ uid_[s] \in Users /\ uid_' = uid_
      BY <1>6 DEF HsetUuid, Handling, Routed
    <3>2. uid_[x] # uid_[s]
      BY <1>6, <2>2, <3>1 DEF HsetUuid, Routed
    <3> QED
      BY <1>6, <2>2, <3>1, <3>2 DEF HsetUuid, Routed, LoginsWhole
  <2> QED
    BY <2>1, <2>2
<1>7. ASSUME NEW x \in Sessions, Close(x) PROVE Goal
  <2>1. uid_[s] \in Users /\ uid_' = uid_ /\ srv' = srv /\ srv[s] # Nil
    BY <1>7 DEF Close, Routed, Greeted, Handling
  <2>2. isLogin_[x] => uid_[x] # uid_[s]
    BY <1>7, <2>1 DEF Close, Routed
  <2>3. Routed(s)
    BY <1>7, <2>1, <2>2 DEF Close, Routed
  <2>4. LoginsWhole(s)
    BY <1>7, <2>1 DEF Close, LoginsWhole
  <2> QED
    BY <2>1, <2>3, <2>4
<1>8. ASSUME NEW x \in Sessions, Erase(x) PROVE Goal
  BY <1>8 DEF Erase, Routed, LoginsWhole
<1>9. ASSUME NEW h \in Servers, Process(h) PROVE Goal
  <2>1. CASE Subscribe(h)
    <3>1. pc[s] \notin {"free", "closed", "crashed"}
      BY <2>1 DEF Subscribe, Routed, Greeted
    <3> QED
      BY <2>1, <3>1 DEF Subscribe, Routed, LoginsWhole, Connected
  <2>2. CASE RunLoop(h) \/ Restart(h)
    BY <2>2 DEF RunLoop, Restart, Routed, LoginsWhole
  <2>3. CASE Crash(h)
    <3>1. Routed(s) /\ uid_' = uid_
      BY <2>3 DEF Crash, Routed
    <3>2. LoginsWhole(s)
      BY <2>3 DEF Crash, LoginsWhole, LoginLast
    <3> QED
      BY <3>1, <3>2
  <2> QED
    BY <1>9, <2>1, <2>2, <2>3 DEF Process
<1> QED
  BY PresenceSteps, <1>1, <1>2, <1>3, <1>4, <1>5, <1>6, <1>7, <1>8, <1>9

\* What a step adds to the rows a session is to get: the row is on its way at once, or
\* it is not acknowledged.
LEMMA RowBefore ==
  ASSUME Known, AckedPast, [Next]_vars, NEW s \in Sessions, NEW r \in rows',
         r \notin answered', Acked(r)'
  PROVE  \/ r \in rows /\ r \notin answered /\ Acked(r)
         \/ OnWay(s, r)'
<1> USE DEF Known, Base, Typed, TypeOK
<1>1. issued \in Nat /\ dest \in [Sessions -> Frame \cup {Nil}] /\ cur \in [Sessions -> Row \cup {Nil}]
  OBVIOUS
<1>2. answered \subseteq answered'
  BY Replies DEF Builds, Reply, dbVars
<1>3. PICK x \in Sessions :
        \/ \E i \in DOMAIN out'[x] : out'[x][i].what = "reply" /\ r \in out'[x][i].rows
        \/ dest'[x] # Nil /\ dest'[x].what = "reply" /\ r \in dest'[x].rows
  BY DEF Acked
<1>4. Acked(r) \/ \E d : Builds(x, d) /\ d.what = "reply" /\ r \in d.rows
  <2>1. CASE \E i \in DOMAIN out'[x] : out'[x][i].what = "reply" /\ r \in out'[x][i].rows
    <3>1. PICK i \in DOMAIN out'[x] : out'[x][i].what = "reply" /\ r \in out'[x][i].rows
      BY <2>1
    <3>2. \/ i \in DOMAIN out[x] /\ out'[x][i] = out[x][i]
          \/ Reply(x) /\ out'[x][i] = dest[x]
      BY <3>1, NewFrames
    <3>3. Reply(x) => dest[x] # Nil
      BY NilAssumption DEF Reply, Handling
    <3> QED
      BY <3>1, <3>2, <3>3 DEF Acked
  <2>2. CASE dest'[x] # Nil /\ dest'[x].what = "reply" /\ r \in dest'[x].rows
    <3>1. ASSUME NEW y \in Sessions, NEW d, Builds(y, d)
          PROVE  dest'[x] = dest[x] \/ (Builds(x, d) /\ dest'[x] = d)
      BY <1>1, <3>1 DEF Builds
    <3>2. ASSUME NEW y \in Sessions, Reply(y)
          PROVE  dest'[x] = dest[x] \/ dest'[x] = Nil
      BY <1>1, <3>2 DEF Reply
    <3>3. dest'[x] = dest[x] \/ dest'[x] = Nil \/ \E d : Builds(x, d) /\ dest'[x] = d
      BY Replies, <3>1, <3>2
    <3> QED
      BY <2>2, <3>3 DEF Acked
  <2> QED
    BY <1>3, <2>1, <2>2
<1>5. ASSUME NEW d, Builds(x, d), d.what = "reply", r \in d.rows
      PROVE  OnWay(s, r)'
  <2>1. PICK q \in RequestOf(x) :
          d = ReplyFrame(ReplyTag(q.kind), {q}) /\ cur' = [cur EXCEPT ![x] = q]
          /\ forwardId_'[x] = q.to
    BY <1>5 DEF Builds, ReplyFrame
  <2>2. r = q /\ cur'[x] = r /\ pc'[x] = "reply"
    BY <1>1, <1>5, <2>1 DEF ReplyFrame, Builds
  <2> QED
    BY <2>1, <2>2 DEF OnWay
<1>6. ASSUME Acked(r), r \notin rows PROVE FALSE
  <2>1. PICK y \in Sessions : \E q \in RequestOf(y) : r = q
    <3>1. ASSUME NEW y \in Sessions, NEW d, Builds(y, d)
          PROVE  rows' = rows \/ \E q \in RequestOf(y) : rows' = rows \cup {q}
      BY <3>1 DEF Builds
    <3>2. ASSUME NEW y \in Sessions, Reply(y) PROVE rows' = rows
      BY <3>2 DEF Reply, dbVars
    <3> QED
      BY <1>6, Replies, <3>1, <3>2
  <2>2. r.id = issued + 1
    BY <2>1 DEF RequestOf
  <2>3. r.id <= issued
    BY <1>6, NilAssumption DEF Acked, AckedPast
  <2> QED
    BY <1>1, <2>2, <2>3
<1> QED
  BY <1>2, <1>4, <1>5, <1>6

LEMMA LosslessNext ==
  ASSUME Known, Whole, [Next]_vars
  PROVE  Lossless'
<1> USE DEF Known, Base, Typed, TypeOK, Whole
<1> SUFFICES ASSUME NEW s \in Sessions, NEW r \in rows', Watched(s, r)'
             PROVE  /\ Listed(s, r)' => Reaches(s, r)'
                    /\ dest'[s] # Nil /\ ListOf(dest[s], r)' => r \in dest'[s].rows \/ Reaches(s, r)'
  BY DEF Lossless
<1>0. s \notin early
  BY EarlyKept DEF Watched
<1>1. CASE OnWay(s, r)'
  BY <1>1 DEF Reaches
<1>2. CASE dest'[s] = Nil /\ \A i \in DOMAIN out'[s] : out'[s][i].what # "list"
  BY <1>2 DEF Listed, ListOf
<1>3. CASE r \in rows /\ Watched(s, r) /\ Routed(s)' /\ uid_'[s] = uid_[s]
  <2>0. r \in Row /\ rows \subseteq Row /\ dest \in [Sessions -> Frame \cup {Nil}]
    BY <1>3
  <2>1. Reaches(s, r) => Reaches(s, r)'
    BY <1>0, <1>3, <2>0, GivenKept, WayKept DEF Reaches, Watched
  <2>2. ASSUME NEW i \in DOMAIN out'[s], ListOf(out[s][i], r)'
        PROVE  Reaches(s, r)'
    <3>1. CASE i \in DOMAIN out[s] /\ out'[s][i] = out[s][i]
      BY <1>3, <2>1, <2>2, <3>1 DEF Lossless, Listed, ListOf
    <3>2. CASE Reply(s) /\ out'[s][i] = dest[s]
      <4>1. dest[s] # Nil /\ ListOf(dest[s], r)
        BY <2>2, <3>2, NilAssumption DEF Reply, Handling, ListOf
      <4>2. CASE r \in dest[s].rows
        BY <2>2, <3>2, <4>2 DEF Reaches, Given, ListOf
      <4> QED
        BY <1>3, <2>1, <4>1, <4>2 DEF Lossless
    <3>3. CASE out'[s][i].what = "push" \/ out'[s][i].what = "reply"
      BY <2>2, <3>3 DEF ListOf
    <3> QED
      BY NewFrames, <3>1, <3>2, <3>3
  <2>3. ASSUME dest'[s] # Nil, ListOf(dest[s], r)'
        PROVE  r \in dest'[s].rows \/ Reaches(s, r)'
    <3>1. CASE dest'[s] = dest[s]
      BY <1>3, <2>1, <2>3, <3>1 DEF Lossless, ListOf
    <3>2. ASSUME NEW d, Builds(s, d) PROVE r \in dest'[s].rows
      <4>1. dest'[s] = d
        BY <2>0, <3>2 DEF Builds
      <4>6. PICK kind \in ListKinds, fid \in Users \cup {Nil} :
              \E list \in Lists(uid_[s], kind, fid) :
                d = [tag |-> kind, what |-> "list", rows |-> list, about |-> fid]
        BY <2>3, <3>2, <4>1 DEF Builds, ListOf, ReplyFrame
      <4>2. PICK list \in Lists(uid_[s], kind, fid) :
              d = [tag |-> kind, what |-> "list", rows |-> list, about |-> fid]
        BY <4>6
      <4>3. /\ kind = RemoteTag(r.kind)
            /\ r.kind = "SEND_MSG" => fid = r.from /\ Cardinality(list) < Page
        BY <2>3, <4>1, <4>2 DEF ListOf
      <4>4. r \in Visible(uid_[s], kind, fid)
        BY <1>3, <2>0, <4>3 DEF Watched, Visible, RemoteTag, FriendMsgs, Applies, Row, WriteKinds
      <4>5. r \in list
        <5>1. CASE r.kind = "SEND_MSG"
          BY <4>2, <4>3, <4>4, <5>1, UncutPage DEF Lists, RemoteTag
        <5>2. CASE r.kind # "SEND_MSG"
          BY <1>3, <2>0, <4>2, <4>3, <4>4, <5>2 DEF Watched, Lists, RemoteTag, Row, WriteKinds
        <5> QED
          BY <5>1, <5>2
      <4> QED
        BY <4>1, <4>2, <4>5
    <3>3. dest'[s] = dest[s] \/ dest'[s] = Nil \/ \E d : Builds(s, d)
      <4>1. ASSUME NEW y \in Sessions, NEW d, Builds(y, d)
            PROVE  dest'[s] = dest[s] \/ Builds(s, d)
        BY <2>0, <4>1 DEF Builds
      <4>2. ASSUME NEW y \in Sessions, Reply(y)
            PROVE  dest'[s] = dest[s] \/ dest'[s] = Nil
        BY <2>0, <4>2 DEF Reply
      <4> QED
        BY Replies, <4>1, <4>2
    <3> QED
      BY <2>3, <3>1, <3>2, <3>3
  <2> QED
    BY <2>2, <2>3 DEF Listed
<1>4. \/ Routed(s) /\ LoginsWhole(s) /\ uid_'[s] = uid_[s]
      \/ dest'[s] = Nil /\ \A i \in DOMAIN out'[s] : out'[s][i].what # "list"
  BY <1>0, RoutedBefore DEF Watched
<1>5. (r \in rows /\ r \notin answered /\ Acked(r)) \/ OnWay(s, r)'
  BY RowBefore DEF Watched
<1> QED
  BY <1>0, <1>1, <1>2, <1>3, <1>4, <1>5 DEF Watched

\* A session that was accepted after run() had subscribed, that redis names and that
\* has fetched a list, of messages a history not cut to a page, misses no acknowledged
\* row of it.
THEOREM NothingLost == Spec => []NoLostRow
<1>1. Init => Known /\ Whole
  BY BaseInit, GreetedInit, BackedInit, WholeInit DEF Known
<1>2. Known /\ Whole /\ [Next]_vars => Known' /\ Whole'
  <2>1. Known /\ [Next]_vars => Known'
    BY BaseNext, GreetedNext, BackedNext DEF Known
  <2> QED
    BY <2>1, ConnectedNext, BuiltNext, AckedPastNext, LoginLastNext, LosslessNext
       DEF Known, Whole
<1>3. Known /\ Whole => NoLostRow
  BY LosslessImplies DEF Whole
<1> QED
  BY <1>1, <1>2, <1>3, PTL DEF Spec

================================================================================
