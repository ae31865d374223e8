------------------------------ MODULE ClientLogin ------------------------------
(***************************************************************************)
(* The login window and the registration window of the client              *)
(* (src/client/widget.cpp, register.cpp, httpaccessmanager.cpp and the     *)
(* connection of tcpmanager.cpp), with the gateway, the StatusServer and   *)
(* the login of a chat server.  The buttons stay enabled while a request   *)
(* is pending, and HttpAccessManager runs requests in parallel: answers    *)
(* may come in any order, and to a window that did not ask.                *)
(***************************************************************************)
EXTENDS Gateway

VARIABLES
  visible,       \* the login window is shown
  pending,       \* the requests whose answer has not been handled
  userInfo,      \* UserInfo: the login whose uid and token it holds, or 0
  tcp,           \* the state of the socket of TcpManager
  conn,          \* the login sent over it: request, chat server, progress
  chatWindows,   \* the logins with which a chat window was opened
  reg,           \* the registration window, or Closed
  overtaken,     \* history: UserInfo was changed after its login was sent
  strayed        \* history: a request outlived the window that posted it

tcpVars     == <<userInfo, tcp, conn, chatWindows, overtaken>>
clientVars  == <<visible, pending, tcpVars, reg, strayed>>
loginVars   == <<statusVars, gatewayVars, clientVars>>

NoLogin == 0
NoConn  == [login |-> NoLogin, at |-> 1, is |-> None]
\* edited and asked are history: a text was edited since the last click, and the
\* button of this window was clicked.
Closed  == [open |-> FALSE, btn |-> FALSE, hint |-> None, timer |-> FALSE,
            edited |-> FALSE, asked |-> FALSE]

LoginTypeOK ==
  /\ GatewayTypeOK
  /\ {visible, overtaken, strayed} \subseteq BOOLEAN
  /\ pending \subseteq Posts /\ chatWindows \subseteq Posts
  /\ userInfo \in Posts \cup {NoLogin}
  /\ tcp \in {"Unconnected", "Connecting", "Connected"}
  /\ conn \in [login : Posts \cup {NoLogin}, at : Servers,
               is : {None, "sent", "count", "accepted", "refused"}]
  /\ reg \in [open : BOOLEAN, btn : BOOLEAN,
              hint : Replies \cup {None, Failure, "asking"},
              timer : BOOLEAN, edited : BOOLEAN, asked : BOOLEAN]

LoginInit ==
  /\ GatewayInit
  /\ visible = TRUE
  /\ pending = {}
  /\ userInfo = NoLogin /\ tcp = "Unconnected" /\ conn = NoConn /\ chatWindows = {}
  /\ reg = Closed
  /\ overtaken = FALSE /\ strayed = FALSE

-------------------------------------------------------------------------------
(* The login window.                                                       *)

\* on_btn_login_clicked; updateLoginBtnState enables the button while neither text
\* is empty.
ClickLogin(p, u, r) ==
  /\ visible
  /\ Post(p, "login", u, r)
  /\ pending' = pending \cup {p}
  /\ UNCHANGED <<visible, tcpVars, reg, strayed>>

\* Mutant: UserInfo is filled before the answer is looked at.
HandleLogin_Early(p) ==
  /\ p \in pending /\ kind[p] = "login" /\ answer[p] # None
  /\ pending' = pending \ {p}
  /\ userInfo' = p
  /\ IF answer[p] = "token" /\ tcp = "Unconnected"
     THEN tcp' = "Connecting" /\ conn' = [NoConn EXCEPT !.at = chosen[p]]
     ELSE UNCHANGED <<tcp, conn>>
  /\ overtaken' = (overtaken \/ (answer[p] = "token" /\ conn.is # None))
  /\ UNCHANGED <<visible, chatWindows, reg, strayed>>

\* handlerResponse.  connectToHost does nothing unless the socket is unconnected.
HandleLogin(p) ==
  /\ p \in pending /\ kind[p] = "login" /\ answer[p] # None
  /\ pending' = pending \ {p}
  /\ IF answer[p] = "token"
     THEN /\ userInfo' = p
          /\ overtaken' = (overtaken \/ conn.is # None)
          /\ IF tcp = "Unconnected"
             THEN tcp' = "Connecting" /\ conn' = [NoConn EXCEPT !.at = chosen[p]]
             ELSE UNCHANGED <<tcp, conn>>
     ELSE UNCHANGED <<userInfo, overtaken, tcp, conn>>
  /\ UNCHANGED <<visible, chatWindows, reg, strayed>>

\* Bound: the registration window is not opened once every request is posted.
PostsLeft == \E p \in Posts : kind[p] = None

\* mousePressEvent on the label, and the end of the registration window, which
\* shows the login window again whatever happened meanwhile.
OpenRegister ==
  /\ visible /\ ~reg.open
  /\ PostsLeft
  /\ visible' = FALSE
  /\ reg' = [Closed EXCEPT !.open = TRUE]
  /\ UNCHANGED <<pending, tcpVars, strayed>>
CloseRegister ==
  /\ reg.open
  /\ visible' = TRUE
  /\ reg' = Closed
  /\ strayed' = (strayed \/ \E p \in pending : kind[p] = "register")
  /\ UNCHANGED <<pending, tcpVars>>

-------------------------------------------------------------------------------
(* The registration window.                                                *)

\* A text changes.  The hint, which says whether it is valid, replaces the one
\* before and goes after 1.5 s; the button is enabled while all texts are valid.
Edit(enabled) ==
  /\ reg.open
  /\ reg' = [reg EXCEPT !.btn = enabled,
                        !.hint = None,
                        !.timer = TRUE,
                        !.edited = TRUE]
  /\ UNCHANGED <<visible, pending, tcpVars, strayed>>

onTimerout ==
  /\ reg.timer
  /\ reg' = [reg EXCEPT !.timer = FALSE, !.hint = None]
  /\ UNCHANGED <<visible, pending, tcpVars, strayed>>

\* Mutant: the timer goes on.
onRegister_KeepsTimer(p, u) ==
  /\ reg.open /\ reg.btn
  /\ Post(p, "register", u, TRUE)
  /\ pending' = pending \cup {p}
  /\ reg' = [reg EXCEPT !.hint = "asking", !.edited = FALSE, !.asked = TRUE]
  /\ UNCHANGED <<visible, tcpVars, strayed>>

onRegister(p, u) ==
  /\ reg.open /\ reg.btn
  /\ Post(p, "register", u, TRUE)
  /\ pending' = pending \cup {p}
  /\ reg' = [reg EXCEPT !.timer = FALSE, !.hint = "asking", !.edited = FALSE,
                        !.asked = TRUE]
  /\ UNCHANGED <<visible, tcpVars, strayed>>

\* HandleHttpRes of the window that is open, if one is.
HandleRegister(p) ==
  /\ p \in pending /\ kind[p] = "register" /\ answer[p] # None
  /\ pending' = pending \ {p}
  /\ reg' = IF reg.open THEN [reg EXCEPT !.hint = answer[p]] ELSE reg
  /\ UNCHANGED <<visible, tcpVars, strayed>>

-------------------------------------------------------------------------------
(* TcpManager and the login at the chat server.                            *)

\* notifyConnected: whatever UserInfo holds by now is sent.
Connected ==
  /\ tcp = "Connecting"
  /\ tcp' = "Connected"
  /\ conn' = [conn EXCEPT !.login = userInfo, !.is = "sent"]
  /\ overtaken' = FALSE
  /\ UNCHANGED <<visible, pending, userInfo, chatWindows, reg, strayed>>

\* Nothing handles the error: the window still says that it connects.
ConnectFails ==
  /\ tcp = "Connecting"
  /\ tcp' = "Unconnected"
  /\ conn' = NoConn
  /\ UNCHANGED <<visible, pending, userInfo, chatWindows, reg, overtaken, strayed>>

\* notifyDisConnected, which only gives the login window a hint.  The server's
\* handler of the login goes on to its end first.
Disconnected ==
  /\ tcp = "Connected" /\ conn.is # "count"
  /\ tcp' = "Unconnected"
  /\ conn' = NoConn
  /\ UNCHANGED <<visible, pending, userInfo, chatWindows, reg, overtaken, strayed>>

\* LogicSystem::hadingLogin of the chat server, with StatusServerClient::Login.
\* A login that is refused (or whose call fails) ends the connection.
ServerLogin ==
  /\ \/ /\ conn.is = "sent"
        /\ Login(conn.login)
        /\ conn' = [conn EXCEPT !.is = "count"]
     \/ /\ conn.is = "sent"
        /\ LoginFails(conn.login)
        /\ conn' = [conn EXCEPT !.is = "refused"]
     \/ /\ conn.is = "count"
        /\ CountLoginAt(conn.login, conn.at)
        /\ conn' = [conn EXCEPT !.is = "accepted"]
  /\ UNCHANGED <<visible, pending, userInfo, tcp, chatWindows, reg, overtaken,
                 strayed>>

\* The reply arrives and switchChatWid opens a chat window.
LoginReply ==
  /\ conn.is = "accepted" /\ conn.login \notin chatWindows
  /\ chatWindows' = chatWindows \cup {conn.login}
  /\ visible' = FALSE
  /\ UNCHANGED <<pending, userInfo, tcp, conn, reg, overtaken, strayed>>

-------------------------------------------------------------------------------
Client ==
  \/ /\ \/ OpenRegister \/ CloseRegister
        \/ \E enabled \in BOOLEAN : Edit(enabled)
        \/ onTimerout
        \/ Connected \/ ConnectFails \/ Disconnected \/ LoginReply
        \/ \E p \in Posts : HandleLogin(p) \/ HandleRegister(p)
     /\ UNCHANGED <<statusVars, gatewayVars>>
  \/ /\ \E p \in Posts, u \in Users :
           \/ \E r \in BOOLEAN : ClickLogin(p, u, r)
           \/ onRegister(p, u)
     /\ UNCHANGED statusVars
  \/ ServerLogin /\ UNCHANGED gatewayVars

LoginNext ==
  \/ Client
  \/ \E p \in Posts : (Handler(p) \/ Luck(p) \/ Finish(p)) /\ UNCHANGED clientVars

\* The thread of a context runs what is ready - the end of a write, the deadline -
\* while no handler keeps it; the network, the database, the StatusServer and the user
\* need not do anything.
LoginSpec ==
  /\ LoginInit /\ [][LoginNext]_loginVars
  /\ \A p \in Posts : WF_loginVars(Finish(p) /\ UNCHANGED clientVars)

-------------------------------------------------------------------------------
\* A chat window is opened only with a login of an account that exists, with its
\* password, whose token the StatusServer gave out for that user; and unless an
\* answer to another login overtook it, UserInfo names that user while it chats.
ChatUserAuthentic ==
  /\ \A p \in chatWindows :
       /\ kind[p] = "login" /\ right[p] /\ account[p] \in accounts
       /\ token[p] \in returned /\ owner[token[p]] = account[p]
  /\ conn.is = "accepted" /\ ~overtaken => userInfo = conn.login

\* The hint of the registration window is of the last click on its button: its
\* timer runs only after a text was edited later, and "registered" is said only
\* when this window asked and the account is stored, unless a request outlived an
\* earlier window.
RegisterHintHolds ==
  /\ reg.timer => reg.edited
  /\ reg.hint = "registered" /\ ~strayed =>
       /\ reg.asked
       /\ \E p \in Posts \ pending : kind[p] = "register" /\ reply[p] = "registered"
                                    /\ account[p] \in accounts

\* No handler keeps the thread of the request p.
Idle(p) == \A q \in Posts : context[q] = context[p] => stage[q] \notin InHandler

\* A request that a handler has begun is answered at last, with a response or an
\* error, whatever the network does and whether or not the gateway survives: the
\* deadline ends what the socket does not take.  Unless a handler never returns - its
\* own, or another one of the thread that would run the deadline.
PostsAnswered ==
  \A p \in Posts :
    []<>Idle(p) => (stage[p] \in InHandler \/ p \in writing ~> answer[p] # None)
===============================================================================
