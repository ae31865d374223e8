----------------------------- MODULE ChatWidget -----------------------------
(***************************************************************************)
(* The chat window of the client (src/client/chatwidget.cpp, global.cpp,   *)
(* chatcontentmsg.cpp, customerscrollwidget.cpp).  The window sends its    *)
(* requests over one connection and the server answers them in order, so   *)
(* an answer is matched with what asked for it by its place: the window    *)
(* keeps one queue of labels that wait for a head and one queue of         *)
(* closures for every other answer.  Pushes of the server come in between, *)
(* and a modal dialog runs a nested event loop in which answers and pushes *)
(* still arrive.  Where the code uses a deleted item or reads past a list, *)
(* the process may die, which ends the behaviour, or go on as modelled.    *)
(***************************************************************************)
EXTENDS Integers, Sequences, FiniteSets, Functions

CONSTANTS
    Users,          \* the other users
    NoId,           \* the empty id
    MaxAsked,       \* bound: searches and decisions in flight at once
    MaxHeads,       \* bound: the user searches only while fewer labels wait
    MaxMsg,         \* bound: messages shown in a session
    MaxApplies      \* bound: apply items created in a session

ASSUME WindowAssumption ==
    NoId \notin Users /\ {MaxAsked, MaxHeads, MaxMsg, MaxApplies} \subseteq Nat

Ids == Users \cup {NoId}
Nobody == "-1"

\* Widgets.  The items of friends and messages are never deleted; the n-th
\* apply item is when its request has been answered.
MyHead        == <<"me", 0>>
InfoHead      == <<"info", 0>>
FriendItem(p) == <<"friend", p>>
MsgItem(p)    == <<"msg", p>>
ApplyItem(n)  == <<"apply", n>>

VARIABLES
    net,                \* requests sent and not yet answered
    headWidgets_,       \* labels that wait for a head
    callbacks_,         \* closures that wait for an answer
    friendlsit_,        \* users with an item in the list of friends
    msgListWid_,        \* ids with an item in the list of messages
    friendApplyList_,   \* user -> apply item shown, or 0
    applies,            \* number of apply items created
    alive,              \* apply items not deleted
    messages_,          \* Global: id -> the messages exchanged with it
    msgId,              \* Global: the next number of a message
    bubbles,            \* the messages in the chat page
    id_,                \* whose chat page it is
    page,               \* the current page of stack_wid; "list" is the list of
                        \* friends or that of messages
    infoId, infoShown,  \* userInfoDialog_
    dialog,             \* the nested event loop of an ApplyFriend dialog
    headFailed,         \* history: a request for a head has failed
    stolen              \* history: a search answer took another's closure

queues == <<net, headWidgets_, callbacks_>>
lists  == <<friendlsit_, msgListWid_, friendApplyList_, applies, alive>>
chat   == <<messages_, msgId, bubbles, id_>>
info   == <<infoId, infoShown>>
hist   == <<headFailed, stolen>>
vars   == <<queues, lists, chat, page, info, dialog, hist>>

NoDialog == [kind |-> "none"]

Widgets == {MyHead, InfoHead}
    \cup {FriendItem(p) : p \in Users} \cup {MsgItem(p) : p \in Ids}
    \cup {ApplyItem(n) : n \in 1 .. MaxApplies}
Kinds == {"GET_USER_HEAD", "GET_USERINFO_BY_ID", "GET_USERINFO_BY_ACCOUNT",
          "WHETHER_ACCEPT_ADD_FRIEND", "GET_FRIEND_LIST",
          "GET_APPLY_FRIEND_LIST", "GET_FRIEND_MSG"}
Requests == [kind : Kinds, item : Widgets]
Closures == [kind : {"nick", "accept", "reject"}, item : Widgets]

TypeOK ==
    /\ net \in Seq(Requests)
    /\ headWidgets_ \in Seq(Widgets) /\ callbacks_ \in Seq(Closures)
    /\ friendlsit_ \subseteq Users /\ msgListWid_ \subseteq Ids
    /\ friendApplyList_ \in [Users -> 0 .. MaxApplies]
    /\ applies \in 0 .. MaxApplies /\ alive \subseteq 1 .. MaxApplies
    /\ messages_ \in [Ids -> Seq(0 .. MaxMsg)] /\ msgId \in 0 .. MaxMsg
    /\ bubbles \in Seq(0 .. MaxMsg)
    /\ id_ \in Ids \cup {Nobody}
    /\ page \in {"list", "search"}
    /\ infoId \in Ids /\ infoShown \in BOOLEAN
    /\ dialog.kind \in {"none", "add", "accept"}
    /\ headFailed \in BOOLEAN /\ stolen \in BOOLEAN

\* The elements of s that are in V, in their order; a recursive function, so that
\* it can be reasoned about.
Only(s, V) ==
    LET only[i \in 0 .. Len(s)] ==
          IF i = 0 THEN <<>>
          ELSE IF s[i] \in V THEN Append(only[i - 1], s[i]) ELSE only[i - 1]
    IN  only[Len(s)]
Without(s, V) == Only(s, Range(s) \ V)

\* The elements of s and t in turn.
Alternate(s, t) ==
    [j \in 1 .. 2 * Len(s) |-> IF j % 2 = 1 THEN s[(j + 1) \div 2] ELSE t[j \div 2]]

Req(kind, item) == [kind |-> kind, item |-> item]
HeadReq(w) == Req("GET_USER_HEAD", w)
NickReq(w) == Req("GET_USERINFO_BY_ID", w)
\* Mutant: the closure captures the id instead of the item.
Nick_Id(w) == [kind |-> "nick", item |-> w[2]]
Nick(w)    == [kind |-> "nick", item |-> w]

\* The window as the constructor and initData leave it.
Init ==
    /\ net = <<HeadReq(MyHead), Req("GET_FRIEND_LIST", MyHead),
               Req("GET_APPLY_FRIEND_LIST", MyHead)>>
    /\ headWidgets_ = <<MyHead>>
    /\ callbacks_ = <<>>
    /\ friendlsit_ = {} /\ msgListWid_ = {}
    /\ friendApplyList_ = [p \in Users |-> 0]
    /\ applies = 0 /\ alive = {}
    /\ messages_ = [p \in Ids |-> <<>>]
    /\ msgId = 0
    /\ bubbles = <<>>
    /\ id_ = Nobody
    /\ page = "list"
    /\ infoId = NoId /\ infoShown = FALSE
    /\ dialog = NoDialog
    /\ headFailed = FALSE /\ stolen = FALSE

Alive(w) == w[1] # "apply" \/ w[2] \in alive

-----------------------------------------------------------------------------
(* Messages: Global::appendMsg and its two receivers.                      *)

MessagesOf(id, all) == IF id = Nobody THEN <<>> ELSE all[id]

\* Mutant: the bubbles of the old page stay.
flushMsgInterface_Keeps(old, id, all) ==
    bubbles \o Without(MessagesOf(id, all), Range(bubbles))

\* ChatContentMsg::flushMsgInterface: the bubbles of the old page go, those of
\* the new one that are missing are added.
flushMsgInterface(old, id, all) ==
    LET gone == IF old # id THEN Range(MessagesOf(old, all)) ELSE {}
        kept == Without(bubbles, gone)
    IN  kept \o Without(MessagesOf(id, all), Range(kept))

\* A message with p: it is stored, its item in the list of messages is updated
\* or created with requests for its head and its nick, and the chat page of p
\* shows it.  "sent" is what else the caller has already put on the net.
appendMsg(p, sent) ==
    LET all == [messages_ EXCEPT ![p] = Append(@, msgId)]
        new == p \notin msgListWid_
    IN  /\ messages_' = all
        /\ msgId' = msgId + 1
        /\ bubbles' = IF p = id_ THEN flushMsgInterface(id_, id_, all) ELSE bubbles
        /\ msgListWid_' = msgListWid_ \cup {p}
        /\ net' = IF new THEN sent \o <<HeadReq(MsgItem(p)), NickReq(MsgItem(p))>>
                         ELSE sent
        /\ headWidgets_' = IF new THEN Append(headWidgets_, MsgItem(p))
                                  ELSE headWidgets_
        /\ callbacks_' = IF new THEN Append(callbacks_, Nick(MsgItem(p)))
                                ELSE callbacks_
        /\ UNCHANGED <<friendlsit_, friendApplyList_, applies, alive, id_, page,
                       info, dialog, hist>>

-----------------------------------------------------------------------------
(* Friends and requests of friends.                                        *)

\* onFriendInfoCome, for each user of a list.
NewFriends(list, sent) ==
    LET new == Without(list, friendlsit_)
        items == [i \in DOMAIN new |-> FriendItem(new[i])]
    IN  /\ friendlsit_' = friendlsit_ \cup Range(list)
        /\ headWidgets_' = headWidgets_ \o items
        /\ net' = sent \o Alternate(
                      [i \in DOMAIN items |-> HeadReq(items[i])],
                      [i \in DOMAIN items |-> Req("GET_FRIEND_MSG", items[i])])
        /\ UNCHANGED <<callbacks_, msgListWid_, friendApplyList_, applies, alive,
                       chat, page, info, dialog, hist>>

\* The handler of GET_APPLY_FRIEND_LIST.  Every entry gets an item of its own;
\* the list keeps the first one it has for a user (appendWidget).
NewApplies(list, sent) ==
    LET items == [i \in DOMAIN list |-> ApplyItem(applies + i)]
    IN  /\ applies + Len(list) <= MaxApplies
        /\ applies' = applies + Len(list)
        /\ alive' = alive \cup (applies + 1 .. applies + Len(list))
        /\ friendApplyList_' = [p \in Users |->
              IF friendApplyList_[p] = 0 /\ p \in Range(list)
              THEN applies + (CHOOSE i \in DOMAIN list : list[i] = p)
              ELSE friendApplyList_[p]]
        /\ callbacks_' = callbacks_ \o [i \in DOMAIN items |-> Nick(items[i])]
        /\ headWidgets_' = headWidgets_ \o items
        /\ net' = sent \o Alternate([i \in DOMAIN items |-> NickReq(items[i])],
                                   [i \in DOMAIN items |-> HeadReq(items[i])])
        /\ UNCHANGED <<friendlsit_, msgListWid_, chat, page, info, dialog, hist>>

\* CustomerScrollWidget::removeWidget: an item that is in the list is deleted.
removeWidget(w) ==
    /\ friendApplyList_' = [p \in Users |->
          IF friendApplyList_[p] = w[2] THEN 0 ELSE friendApplyList_[p]]
    /\ alive' = IF \E p \in Users : friendApplyList_[p] = w[2]
                THEN alive \ {w[2]} ELSE alive

\* The first closure is called with an answer and leaves the queue.  A nick
\* closure writes the nick to its item.
Run(success, rest) ==
    LET front == Head(callbacks_)
        removes == front.kind = "reject" \/ (front.kind = "accept" /\ success)
    IN  /\ callbacks_' = Tail(callbacks_)
        /\ net' = IF front.kind = "accept" /\ success
                  THEN Append(rest, Req("GET_FRIEND_LIST", MyHead)) ELSE rest
        /\ IF removes THEN removeWidget(front.item)
                      ELSE UNCHANGED <<friendApplyList_, alive>>
        /\ UNCHANGED <<headWidgets_, friendlsit_, msgListWid_, applies, chat,
                       page, info, dialog, headFailed>>

Skip == UNCHANGED <<callbacks_, headWidgets_, lists, chat, page, info, dialog,
                    hist>>

-----------------------------------------------------------------------------
(* The answers of the server, in the order of the requests.                *)

Answered(kind) == net # <<>> /\ Head(net).kind = kind

\* Only a success takes the label from the queue.
AnswerUserHead(success) ==
    /\ Answered("GET_USER_HEAD")
    /\ net' = Tail(net)
    /\ headWidgets_' = IF success /\ headWidgets_ # <<>> THEN Tail(headWidgets_)
                       ELSE headWidgets_
    /\ headFailed' = (headFailed \/ ~success)
    /\ UNCHANGED <<callbacks_, lists, chat, page, info, dialog, stolen>>

\* Mutant: a failure leaves the closure.
AnswerById_Leaves(success) ==
    /\ Answered("GET_USERINFO_BY_ID")
    /\ IF callbacks_ # <<>> /\ success THEN Run(TRUE, Tail(net)) /\ UNCHANGED stolen
       ELSE net' = Tail(net) /\ Skip

AnswerById(success) ==
    /\ Answered("GET_USERINFO_BY_ID")
    /\ IF callbacks_ # <<>> THEN Run(success, Tail(net)) /\ UNCHANGED stolen
       ELSE net' = Tail(net) /\ Skip

\* onNetWorkCallBack: a failure takes the closure without calling it.
AnswerAccept(success) ==
    /\ Answered("WHETHER_ACCEPT_ADD_FRIEND")
    /\ IF callbacks_ # <<>> /\ success
       THEN Run(TRUE, Tail(net)) /\ UNCHANGED stolen
       ELSE /\ net' = Tail(net)
            /\ callbacks_' = IF callbacks_ = <<>> THEN <<>> ELSE Tail(callbacks_)
            /\ UNCHANGED <<headWidgets_, lists, chat, page, info, dialog, hist>>

\* What the server says of a search; "empty" is a body without the field success,
\* which it sends when it caught an exception.
SearchAnswers == {"found", "refused", "empty"}

\* The answer to a search.  Any waiting closure takes it; else it fills and
\* shows the dialog on the user found - even an empty one, or a refused one when
\* the search page is not current any more, both with an empty id.
AnswerByAccount(answer, id) ==
    /\ Answered("GET_USERINFO_BY_ACCOUNT")
    /\ answer = "found" <=> id # NoId
    /\ IF callbacks_ # <<>> THEN Run(answer = "found", Tail(net)) /\ stolen' = TRUE
       ELSE IF answer = "refused" /\ page = "search" THEN net' = Tail(net) /\ Skip
       ELSE /\ infoId' = id
            /\ infoShown' = TRUE
            /\ headWidgets_' = Append(headWidgets_, InfoHead)
            /\ net' = Append(Tail(net), HeadReq(InfoHead))
            /\ UNCHANGED <<callbacks_, lists, chat, page, dialog, hist>>

AnswerFriends(list) ==
    /\ Answered("GET_FRIEND_LIST")
    /\ NewFriends(list, Tail(net))

AnswerApplies(list) ==
    /\ Answered("GET_APPLY_FRIEND_LIST")
    /\ NewApplies(list, Tail(net))

\* The history with one friend: none of it (or a failure), or a message.
AnswerFriendMsg(some) ==
    /\ Answered("GET_FRIEND_MSG")
    /\ IF some THEN msgId < MaxMsg /\ appendMsg(Head(net).item[2], Tail(net))
               ELSE net' = Tail(net) /\ Skip

\* Frames the server sends unasked.  A request or an acceptance forwarded on
\* one server comes as GET_FRIEND_MSG too, with no time and perhaps no ids:
\* time_.split(" ")[1] reads past the list.
PushFriendMsg(id) == msgId < MaxMsg /\ appendMsg(id, net)
PushApply(p) == NewApplies(<<p>>, net)
PushFriend(p) == p \notin friendlsit_ /\ NewFriends(<<p>>, net)

\* The lists the server may answer with: each user once, in any order.
Orders == {list \in UNION {[1 .. n -> Users] : n \in 0 .. Cardinality(Users)} :
              \A i, j \in DOMAIN list : list[i] = list[j] => i = j}

Network ==
    \/ \E success \in BOOLEAN : AnswerUserHead(success)
    \/ \E success \in BOOLEAN : AnswerById(success)
    \/ \E success \in BOOLEAN : AnswerAccept(success)
    \/ \E answer \in SearchAnswers, id \in Ids : AnswerByAccount(answer, id)
    \/ \E list \in Orders : AnswerFriends(list)
    \/ \E list \in Orders : AnswerApplies(list)
    \/ \E some \in BOOLEAN : AnswerFriendMsg(some)
    \/ \E id \in Ids : PushFriendMsg(id)
    \/ \E p \in Users : PushApply(p)
    \/ \E p \in Users : PushFriend(p)

-----------------------------------------------------------------------------
(* The user.  A modal dialog takes the input away from the window.         *)

Idle == dialog = NoDialog
Room == Cardinality({i \in DOMAIN net : net[i].kind \in
            {"GET_USERINFO_BY_ACCOUNT", "WHETHER_ACCEPT_ADD_FRIEND"}}) < MaxAsked

\* A click on an item: switchChatpage and switchUser.
SwitchUser(id) ==
    /\ Idle /\ page = "list"
    /\ id \in friendlsit_ \cup msgListWid_
    /\ id_' = id
    /\ bubbles' = flushMsgInterface(id_, id, messages_)
    /\ UNCHANGED <<queues, lists, messages_, msgId, page, info, dialog, hist>>

\* switchListBar, typing into the search box, and the button next to it.
SwitchListBar(shown) ==
    /\ Idle
    /\ page' = shown
    /\ UNCHANGED <<queues, lists, chat, info, dialog, hist>>

\* ChatContentMsg::sendMsg; nothing handles the answer to SEND_MSG.
SendMsg ==
    /\ Idle /\ id_ # Nobody /\ msgId < MaxMsg
    /\ appendMsg(id_, net)

\* Mutant: the window takes input while the dialog is executed.
SearchUser_NotModal ==
    /\ page = "search" /\ Room /\ Len(headWidgets_) < MaxHeads
    /\ net' = Append(net, Req("GET_USERINFO_BY_ACCOUNT", InfoHead))
    /\ UNCHANGED <<headWidgets_, callbacks_, lists, chat, page, info, dialog, hist>>

SearchUser ==
    /\ Idle /\ page = "search" /\ Room /\ Len(headWidgets_) < MaxHeads
    /\ net' = Append(net, Req("GET_USERINFO_BY_ACCOUNT", InfoHead))
    /\ UNCHANGED <<headWidgets_, callbacks_, lists, chat, page, info, dialog, hist>>

\* onUserInfoDialogExit(TRUE): the dialog hides and ApplyFriend is executed.
InfoAdd ==
    /\ Idle /\ infoShown
    /\ infoShown' = FALSE
    /\ dialog' = [kind |-> "add", id |-> infoId,
                  searching |-> \E i \in DOMAIN net :
                                   net[i].kind = "GET_USERINFO_BY_ACCOUNT"]
    /\ UNCHANGED <<queues, lists, chat, page, infoId, hist>>
InfoExit ==
    /\ Idle /\ infoShown
    /\ infoShown' = FALSE
    /\ UNCHANGED <<queues, lists, chat, page, infoId, dialog, hist>>

\* The request goes to the id the dialog has by then (nothing handles its
\* answer); userInfoDialog_ is closed at last, whatever it shows by then.
AddDone ==
    /\ dialog.kind = "add"
    /\ infoShown' = FALSE
    /\ dialog' = NoDialog
    /\ UNCHANGED <<queues, lists, chat, page, infoId, hist>>

Whether(kind, w) ==
    /\ callbacks_' = Append(callbacks_, [kind |-> kind, item |-> w])
    /\ net' = Append(net, Req("WHETHER_ACCEPT_ADD_FRIEND", w))

\* Mutant: the item goes at the click, not with the answer.
RejectFriend_AtOnce(p) ==
    /\ Idle /\ friendApplyList_[p] # 0 /\ Room
    /\ Whether("reject", ApplyItem(friendApplyList_[p]))
    /\ removeWidget(ApplyItem(friendApplyList_[p]))
    /\ UNCHANGED <<headWidgets_, friendlsit_, msgListWid_, applies, chat, page, info,
                   dialog, hist>>

\* On the page of the requests.
RejectFriend(p) ==
    /\ Idle /\ friendApplyList_[p] # 0 /\ Room
    /\ Whether("reject", ApplyItem(friendApplyList_[p]))
    /\ UNCHANGED <<headWidgets_, lists, chat, page, info, dialog, hist>>

AcceptFriend(p) ==
    /\ Idle /\ friendApplyList_[p] # 0
    /\ dialog' = [kind |-> "accept", item |-> ApplyItem(friendApplyList_[p])]
    /\ UNCHANGED <<queues, lists, chat, page, info, hist>>
AcceptDone(accepted) ==
    /\ dialog.kind = "accept" /\ (accepted => Room)
    /\ dialog' = NoDialog
    /\ IF accepted THEN Whether("accept", dialog.item)
                   ELSE UNCHANGED <<net, callbacks_>>
    /\ UNCHANGED <<headWidgets_, lists, chat, page, info, hist>>

User ==
    \/ \E id \in Ids : SwitchUser(id)
    \/ \E shown \in {"list", "search"} : SwitchListBar(shown)
    \/ SendMsg
    \/ SearchUser
    \/ InfoAdd \/ InfoExit \/ AddDone
    \/ \E p \in Users : RejectFriend(p)
    \/ \E p \in Users : AcceptFriend(p)
    \/ \E accepted \in BOOLEAN : AcceptDone(accepted)

Next == Network \/ User

Spec == Init /\ [][Next]_vars

-----------------------------------------------------------------------------
(* Properties.                                                             *)

Waiting(kinds) ==
    LET of == Only(net, [kind : kinds, item : Widgets])
    IN  [i \in DOMAIN of |-> of[i].item]

\* Answers find what waits for them, in two queues across three kinds of requests:
\* as long as no request for a head has failed, the labels that wait are those of
\* the requests in flight; as long as no search answer found a closure waiting, so
\* are the closures.  Every head, nick and decision then goes to its own item.
AnswersMatch ==
    /\ ~headFailed => headWidgets_ = Waiting({"GET_USER_HEAD"})
    /\ ~stolen => [i \in DOMAIN callbacks_ |-> callbacks_[i].item]
                     = Waiting({"GET_USERINFO_BY_ID", "WHETHER_ACCEPT_ADD_FRIEND"})

\* An item is deleted only when no label and no nick of it is waited for any
\* more, although both queues hold raw pointers to items.
NoDangling ==
    ~headFailed /\ ~stolen =>
        /\ \A i \in DOMAIN headWidgets_ : Alive(headWidgets_[i])
        /\ \A i \in DOMAIN callbacks_ :
              callbacks_[i].kind = "nick" => Alive(callbacks_[i].item)

\* The chat page shows all the messages with its user, in their order and only
\* once, and none of any other user, however messages and switches mix.
PageShowsPeer == bubbles = MessagesOf(id_, messages_)

\* A friend request is made to the user whose dialog was confirmed, unless a
\* search was under way then, whose answer replaces the id under the dialog.
AddsShownUser ==
    dialog.kind = "add" /\ ~dialog.searching => infoId = dialog.id
=============================================================================
