# Verification of the weChat client and servers

This directory models the instant messenger of this repository in TLA+, checks
the models with TLC and proves the central safety properties with TLAPS. The
models are translated from the code in `src/`; the line ranges of every
definition are in `PROJECT.json` ("map").

## The system

A Qt client (`src/client`) talks HTTP to a gateway to register and to log in,
and a binary TCP protocol (2 bytes tag, 2 bytes length, JSON body) to one of
several chat servers. The servers (`src/server/src`) are C++ with boost::asio,
one io_context per core, and share MySQL and redis.

| part | source | state it keeps | operations | talks to |
|---|---|---|---|---|
| gateway | `GateWay/` | one connection with a deadline timer | register, login over HTTP | MySQL, status server (gRPC) |
| status server | `StatusServer/` | token per user, logins counted per chat server | `GetChartServer`, `Login` | gateway, chat servers (gRPC) |
| chat server | `ChatServer/TcpServer`, `main` | map uuid -> session, the redis subscription | accept, `run` loop | redis channels |
| chat session | `ChatServer/ChatSession` | `uid_`, `isLogin_`, `forwardId_`, read and write buffers, `be_sending_` | read, dispatch, `sendData`, `forwardMsg`, `close` | other sessions, redis |
| request handlers | `ChatServer/LogicSystem` | none | eleven requests | MySQL, redis, status server |
| network buffer | `common/NetWorkBuffer` | array, read and write index | write, retrieve | sessions |
| connection pools | `common/MysqlConnectPool`, `RedisConnPool` | queue, mutex, condition variable | `getConn`, deleter | handlers |
| database access | `common/MysqlDao` | none | one query or procedure call per request | MySQL |
| status server client | `common/StatusServerClient` | queue of stubs | `GetChatServer`, `Login` | status server |
| io_context pool | `common/IoContextPool` | io_contexts and threads | round robin | everything asynchronous |
| client networking | `client/tcpmanager`, `httpaccessmanager` | receive buffer, handlers per tag | send, dispatch | chat server, gateway |
| client window | `client/chatwidget`, `global`, `chatcontentmsg`, `customerscrollwidget` | callback queues per tag, widgets waiting for a head, message pages | requests and pushes | networking |
| client dialogs | `client/widget`, `register`, `applyfriend`, `searchwid` | forms, labels | login, registration, friend requests | networking |
| image cropper, widgets | `client/imagecropper*`, bubbles, buttons | geometry | painting | - |

The behaviours that are hard:

- Sessions run on several threads. A session's handler reads and writes redis
  (presence: host and uuid of a user, two commands each way), MySQL, the map of
  sessions and the write buffers of *other* sessions, with nothing atomic about
  the sequence.
- A user may be logged in twice, close and log in again at the same time, or its
  server may die and leave redis as it was.
- A message is stored first and forwarded second, its addressee logs in first and
  fetches second; nothing else makes the two meet.
- A session's write buffer is filled by many threads under a mutex and drained by
  one without it.
- Connection pools are smaller than the demand, and a reconnection may fail; the pool
  of gRPC stubs is used without a lock.
- The gateway answers a request while a deadline runs that closes its socket.
- The client matches an answer with what asked for it by its place in a queue, while
  messages are pushed in between, requests fail, and modal dialogs run nested event
  loops. Its HTTP requests run in parallel and their answers come in any order.
- The geometry of the image cropper, and of the labels of a friend request, is
  integer arithmetic with a path of its own for each handle and each handler.

## Modules

| module | models | correspondence |
|---|---|---|
| `ChatServer` | `ChatSession`, `TcpServer`, `LogicSystem`, the presence keys and channels of redis, the rows in MySQL | one action per request handler (`sendMsg`, `getFriendList`, ...) up to its reply, then one action per access to shared state: `Reply`, `HgetHost`, `HgetUuid`, `Remark`, `DeliverLocal`, `Publish`; `pc` is the place in the code |
| `MCChatServer` | - | symmetry sets for TLC |
| `SendPath` | `ChatSession::sendData`, with the `ensureWriteSafe` of its buffer, and `handlingWrite` | one action per access to `be_sending_`, to an index or the array of the buffer, or to the socket |
| `ByteFifo` | what a buffer promises | the abstract specification |
| `NetWorkBuffer` | `NetWorkBuffer` | one action per operation, the three ways `ensureWriteSafe` makes room as disjuncts; implements `ByteFifo` |
| `Framing` | the frames: `sendData` puts them in, `TcpManager::onDataReady` cuts them out (`handlingRaad` does it the same way) | extends `NetWorkBuffer`, whose operations are its steps; `ReadHead` and `ReadBody` are the two halves of the loop |
| `ConnPool` | both connection pools | one action per step between two uses of the mutex |
| `StatusServer`, `MCStatusServer` | `StatusServerImpl` | one action per critical section of `GetChartServer` and `Login`, plus the unlocked copy |
| `Gateway` | `HttpSession`, the gateway's `LogicSystem`, `StatusServerClient`, `IoContextPool` | extends `StatusServer`: a request for a chat server is one of its callers. One action per asynchronous completion, query, use of the queue of stubs |
| `ClientLogin`, `MCClientLogin` | the login and registration windows, `HttpAccessManager`, the connection of `TcpManager`, `hadingLogin` as far as it calls the status server | extends `Gateway`: the click, the request, the handler, the answer, the connection, the login over it |
| `ChatWidget`, `MCChatWidget` | the chat window, its queues, pages and dialogs, and the server as that which answers in order and pushes | one action per slot and per kind of answer |
| `ImageCropper` | `ImageCropperLabel` and its dialog | one action per mouse event and setter; a rectangle is its four edges, a handle the set of edges it drags |
| `ApplyFriend` | the friend request dialog with its hints and labels | one action per slot; the layout is a function of the labels |
| `ClientDialogs`, `MCClientDialogs` | both modal dialogs | at most one of them is open |
| `ChatServerProofs`, `SendPathProofs`, `NetWorkBufferProofs` (also `Framing`), `ConnPoolProofs`, `StatusServerProofs`, `ClientLoginProofs` (also `Gateway`), `ChatWidgetProofs`, `ClientDialogsProofs` (also `ImageCropper`, `ApplyFriend`) | - | TLAPS proofs |

`ChatServer` numbers the writing requests (`id`) so that order and identity can be
stated; texts, remarks and times are left out. Client requests are inputs: a
client logs in once per connection (`client/widget.cpp` 178-185) and sends requests
as itself, so `authentication` succeeds or, as with unknown tags and
failed reads, the session is dropped (`Drop`). The four outcomes of a store that
the handlers tell apart are `Stored`, `NotStored`, `StoredUnacked` (the row is there
but its acknowledgement was lost) and `Skipped` (nothing happened to `forwardId_`);
declining a friend request is `Declined`. The stored procedures are not in the
repository: what they store is taken from how `MysqlDao` uses their answers and
which rows its queries read back. A handler whose exception leaves the
thread ends the process; `Crash` may happen between any two steps.

`out[s]` is every frame ever appended to the write buffer of session `s`. What
happens to the buffer afterwards is `SendPath`, `NetWorkBuffer` and `Framing`.
`SendPath` numbers the bytes and has the array with the threads: a part of a frame is put
behind the bytes there are, after a compaction (the bytes, then the write index, then the
read index) or a growth where it does not fit, and `handlingWrite` reads and stores the
read index between any two of these steps, on another thread and without the mutex. What a
pending write was given is a place in the array; what is there when the socket takes
it may be other bytes by then, or an array that was deleted (`stale`: anything). The
indices are unsigned and wrap (`Wrap`). `garbled` records that the socket took another
byte than the next one, `disturbed` that bytes were moved while a write of them was
pending or while `handlingWrite` was between reading and storing an index.
`NetWorkBuffer` treats the array in the hands of one thread, with every size and every
operation. Both copy as memmove does where the code calls memcpy on overlapping memory
(`NetWorkBuffer.cpp` 55); one mutant copies the other way round and breaks the
refinement. A byte of `Framing` stands for the two of a tag or of a length, and so does
one of `SendPath`.

A history is read one page of 20 rows at a time (`MysqlDao.cpp` 341), and the client only
asks for the first page. `Page` is that 20: a history that is as long is cut off anywhere
(`Lists`), the other lists have no limit.

In `Gateway` every request has a connection and a session of its own; handlers are
synchronous and keep their io_context busy, so at most `NCores - 1` run at once. The
queue of stubs is used in the steps the code takes without a lock (the `lock_guard`
is a temporary, in `GetStube` as in `RetuenStube`). While another handler is in the queue
(`Using`), each step has the outcomes of the race: both read the same front and one of
them finds it moved from, a pop is lost, a stub that is pushed is lost or not yet there
(`Pushed`). `overlapped` records that two were there at once. A handler may wait in
`getConn` for ever, and a gRPC call has no deadline, so nothing is assumed of a
handler's progress. The database may fail before an account is stored or after, and the
answer is an error either way. The deadline is the code's: it starts with the session, before
the connection is accepted, but is waited for only once the handler has returned
(`HttpSession.cpp` 18-19); a handler that does not return is never interrupted.

`ChatWidget` keeps the requests in flight (`net`) in order, as the connection and the
session's handler do, and the two queues as the code does. Frames come with
the tags `ChatServer` gives them. Pushes, answers and clicks happen whenever the event
loop runs, which it also does inside a dialog. Where the code would use a deleted item
or read past a list, the process may die or go on.

## Runs

| run | module | checks | bounds |
|---|---|---|---|
| `presence` | MCChatServer | `RouteOwner`, `PushToAddressee` | 2 servers, 2 users, 3 sessions (one user has two), 1 message, 1 crash, connections before the subscription (`MaxEarly` 3) |
| `requests` | MCChatServer | `TypeOK`, `NoLostRow`, `PushBacked`, `PushesInOrder`, `LoginReplyFirst` | 2 servers, 3 users, 2 sessions, 2 friend requests or answers, fetches of the pending requests, no crash, connections after the subscription |
| `live` | MCChatServer | `NoLostRow`, `PushArrives`, `ClosingEnds` | 2 servers, 2 users, 2 sessions, 1 message, every other reading request, 1 crash, connections after the subscription, fairness |
| `status` | MCStatusServer | `TypeOK`, `FreshTokenValid`, `BoundedImbalance`, `SupersededRefused` | 3 callers, 2 users, 4 tokens, 3-bit counters |
| `sendpath` | SendPath | `TypeOK`, `AtMostOneWrite`, `StreamInOrder`, `AllSent` | own thread and 1 other, 3 frames of 3 bytes, an array of 5 that is compacted and grows, partial writes, failure, fairness, up to the first byte that is not the next one |
| `buffer` | Framing | `FramesInOrder`, `FifoSpec` | 3 frames, 1-bit lengths with bodies of up to 2, array of 3 growing to 7 |
| `pool` | ConnPool | `TypeOK`, `OneHolder`, `NoLostWakeup`, `NobodySleeps` | both pools: 4 threads (one keeps its connection), 4 connections, 3 failed reconnections |
| `login` | MCClientLogin | `LoginTypeOK`, `StubsKept`, `ChatUserAuthentic`, `RegisterHintHolds`, `PostsAnswered` | 1 user, 2 requests, 2 chat servers, 3 cores (2 contexts, 3 stubs), fairness |
| `client` | MCChatWidget | `TypeOK`, `AnswersMatch`, `NoDangling`, `PageShowsPeer`, `AddsShownUser` | one other user and the empty id, 1 search or decision in flight, 1 search while a label waits, 2 messages, 1 friend request |
| `dialogs` | MCClientDialogs | `DialogsTypeOK`, `SquareInside`, `NothingClipped`, `HintsFollowLabels`, `LabelsApart`, `MoveKeepsInside` | label 12x7, image 12x10, 3 shapes, 10 cursor positions (one outside), 4 labels of 4 widths |

The runs `toid` and `stuck` are meant to fail, see below.

What they show:

- Presence (`RouteOwner`): an entry in redis was written by a session of that
  very user that is still logged in, or whose server died. Overlapping sessions of
  a user may leave host and uuid of different sessions, but never of another user.
- `PushToAddressee`: hence a lookup that mixes two sessions, or goes stale, loses
  a push at worst; it never shows a message to another user.
- `NoLostRow`: because a sender stores before it looks up and a receiver registers
  before it can fetch, list and push leave no gap. It is checked for messages and
  their history (`live`) and for friend requests (`requests`). Acceptances are
  excluded: `forwardMsg` gives up when `getFriendgRemark` fails. Sessions accepted before
  their server had subscribed are left out (`early`): `TcpServer`'s constructor
  accepts, `run` subscribes later, redis drops what is published in between, and such a
  session may miss it. The runs of this property accept after the subscription, for
  their size; the theorem has sessions of both kinds side by side. A history that was
  cut to a page says nothing of the messages it does not show, so the property speaks
  of histories shorter than `Page`; the runs have fewer messages than that.
  It speaks of sessions that redis names, while no login of the same user is
  between its two `hset` commands or died there (`LoginsWhole`): three overlapping
  logins on two servers can leave the host of one and the uuid of another in
  the key, and a push then goes to a server that does not have the session. The
  condition was found missing in the proof; the instances have too few sessions
  of a user to show it.
- `PushBacked`: a stale `forwardId_` stays within the peers that this session has
  stored a request to.
- `PushesInOrder` and `LoginReplyFirst`: what a client sees of one sender is in
  order, and nothing precedes the reply to its login.
- `FreshTokenValid`: erase and insert are separate critical sections, and insert
  keeps an entry, yet once calls are over the stored token is a live one. (The
  second of two overlapping callers may be given a token that is not stored; its
  login is refused and it has to start again.)
- `BoundedImbalance`: the unlocked copy of `servers_[0]` and counting at login, not at
  the choice, upset the balance by no more than the clients in flight. The counter
  is wide enough not to wrap; a wrap of `count_` (after 2^32 logins) is not examined.
- `AtMostOneWrite`: the missing mutex of `handlingWrite` and the late
  `be_sending_ = true` never put two writes on the way at once...
- ... but they lose liveness: see `stuck` below. `AllSent` holds as long as only the
  session's own thread has sent, however the socket splits the writes.
- `StreamInOrder`: appending, compacting and growing between two writes, at whatever
  step of `sendData` a write completes, never makes the socket take another byte than
  the next. It does once bytes were moved while a write of them was pending, or in
  the middle of a `retrieveN`: the code does nothing against that, the client's
  stream is garbled then, and the property says that nothing else garbles it.
- `FramesInOrder`: however the stream is cut into writes and reads, frames arrive
  whole and in order. It says nothing once a body was longer than its length
  field can say: the length is truncated, the body is not, and the reader takes the
  rest of the body for the next head.
- `NobodySleeps`: a pool has one connection per core and the process one thread per
  core (`cores - 1` io_contexts and the main thread), so a thread waits in
  `getConn` only after a reconnection failed. `Keepers` is the thread of
  `TcpServer::run`, which never gives its redis connection back.
- `StubsKept`: a call that fails gives its stub back as one that succeeds does: until
  two handlers are in the unlocked queue at once, every stub is in it or with the one
  handler that will return it, the gateway does not die of a null one, and no handler
  finds the queue empty: there is one stub more than contexts. Once they were, the model
  has a stub lost, doubled or null, as the code has; the property does not excuse a
  loss on any other path, such as a failed call. (The branch of `GetFront` for an empty
  queue is reached only through the race.)
- `ChatUserAuthentic`: whatever order the answers of two logins come in, a chat
  window belongs to an account whose password was right and whose token was given
  out for it; `UserInfo` is that account unless a second answer replaced it
  after the login was sent.
- `RegisterHintHolds`: the timer of an earlier hint never wipes the answer of a later
  click, and "registered" is said only when this very window asked and the account is
  stored - unless an answer to an earlier window arrives in a later one (`strayed`).
- `PostsAnswered`: a request that a handler has begun ends for the client with a
  response or an error, because the deadline closes the socket - provided that the
  thread of its context is free again and again. A handler that waits in `getConn`, or
  for a gRPC call, for ever is not interrupted by any deadline, and keeps the other
  requests of its context waiting too.
- `AnswersMatch`, `NoDangling`: three kinds of requests share two queues of raw
  pointers, and still every answer finds its own widget, and none that was
  deleted - until a head request fails (its label is never taken off the queue) or a
  search answer takes a closure of somebody else. Both are in the code, and
  `headFailed` and `stolen` record them.
- `PageShowsPeer`: the page of a friend shows the messages of that friend, all of
  them and once, whether they came by history or by push.
- `AddsShownUser`: the friend request goes to the user who was shown, unless a search
  was under way while the dialog was open.
- `SquareInside`, `MoveKeepsInside`, `NothingClipped`: a square stays square and inside, a
  move keeps the size, and what is cut out of the original is what the frame covers.
  The shape is what the caller of the dialog asks for; the program's only caller
  (`chatwidget.cpp` 65) asks for a free rectangle, so that `SquareInside` is about what
  the class offers and the program does not use.
- `HintsFollowLabels`, `LabelsApart`: four handlers update two maps along different
  paths and keep them together; labels and the editor never overlap.

The bounds are the smallest at which the cases above occur: two servers for the
redis path, a user with two sessions and one peer for overlapping logins, two
requests for order and for a stale `forwardId_`, three users for a message to the wrong
peer, two requests and two contexts for the race for a stub and for answers that
overtake each other, bodies longer than their length field, labels of which some share
a line and one fills a line alone. The three kinds of writing request differ in tags, in
`answered` and in the remark, so `requests` uses the two with most behaviour and
`presence` and `live` the third. Named bounds: `MaxFrames` of `ChatServer` stops a
client from sending, never a push; `MaxRequests`, `MaxCrashes`, `MaxTokens`, `MaxBytes`,
`MaxSize`, `MaxData`, `MaxFrames` of `Framing`, `MaxFailures`, `MaxMsg` and `MaxApplies`
bound the counters of those names, `MaxAsked` and `MaxHeads` what the user asks for
while answers are missing, `MaxEarly` the connections before the subscription, and `Slack`
how far a rectangle of free shape may drift. `PostsLeft` keeps the registration window
shut once every request is posted, and `UntilGarbled` (a CONSTRAINT of `sendpath`) leaves
out what follows a garbled byte, of which the properties say nothing.
Deadlock is checked in `pool`, `client` and `dialogs`; elsewhere clients may have
nothing left to do, or a bound is used up.

Fairness: handlers that are ready run (`WF` per session, io_context threads; each
handler blocks only on pools, which `ConnPool` covers, and on the databases: a server
that cannot reach them at all any more is not what `PushArrives` is about), and
`TcpServer::run` subscribes and reads. Nothing is assumed of clients, crashes, restarts.
In `SendPath` the io_context also serves a waiting completion, because its queue is
FIFO, and the socket takes bytes or fails. In `ClientLogin` only the end of a response is
fair (`Finish`: the socket took it, or it is closed, or its time is over), on a thread
that no handler keeps; handlers, database, status server, network and user owe nothing.

### Where code and comments disagree

Each has a run that ends in a counterexample, with the quoted line in `PROJECT.json`:

- `toid`: a message that could not be stored (a missing field, or `getConn` throws) is
  forwarded to the addressee of the previous request.
- `stuck`: another thread's `sendData` starts a write, it completes and
  `handlingWrite` clears `be_sending_`, then `sendData` sets it: the session never
  sends again.

Seen while modelling, and part of the models, without a run of their own:

- A compaction or a growth while a write is pending, or while another thread is between
  reading and storing the read index, garbles the client's stream: bytes are repeated,
  lost, or taken from an array that was deleted.
- An HTTP handler that waits for a connection to the database, or for a gRPC call, waits
  without a limit: the deadline is armed after it.
- The queue of gRPC stubs is used without a lock, and a second push or pop can lose a
  stub or leave a null one, whose use ends the gateway.
- `close` deletes the user's key whoever wrote it: a user who logs in again while its
  old session closes is looked up as offline until it logs in once more.
- A request forwarded inside one server carries the tag of a message, whatever it is
  (`LocalTag`); a friend request has no `time`, and the client's `split(" ")[1]` reads
  past the list. The reply to `SEND_MSG` carries the tag of the friend list
  (`LogicSystem.cpp` 454).
- A connection that was idle too long is deleted first; if the new one cannot be
  made, the pool stays smaller for good.
- The deadline of an HTTP session runs from its construction, before a
  connection is accepted.
- Login: a second answer overwrites `UserInfo` although `connectToHost` is ignored
  while connected; a failed RPC shows the user id as the error's text; a failed
  connection leaves the hint "connecting"; closing the registration window shows the
  login window although a chat window is open.
- Chat window: a failed search that is answered on another page, or with an empty body
  (after an exception), opens the info dialog with an empty id; a search answer takes the
  closure of another request; a failed head
  leaves its label in the queue; a dialog's event loop may replace the id under it, and
  its end hides a newer result.
- Friend request dialog: `hint_label_show_all_` is read before it is first set (either
  value is possible in the model), and `initData` appends to a list while
  iterating over it (`applyfriend.cpp` 199-212).
- Cropper: a free rectangle may drift off the image, because some of its edges are
  moved by offsets and the left one is limited by the minimum height; the fixed
  shapes can be resized at the lower left corner (`imagecropperlabel.cpp` 539); a
  cancelled crop still uploads an empty head.

## Proofs

All of them hold for every value of the constants that satisfies the named
assumptions of the module: any number of servers, users, sessions, threads,
connections, callers, any size of array, label and image.

| theorem | states | invariant |
|---|---|---|
| `TypeCorrect` | `ChatServer` `TypeOK` | `Typed` |
| `PresenceCorrect` | `RouteOwner` | `Route` |
| `PushesAddressed` | `PushToAddressee` | `Addressed` |
| `LoginReplyComesFirst` | `LoginReplyFirst` | `Greeted` |
| `PushesBacked` | `PushBacked` | `Backed` |
| `PushesOrdered` | `PushesInOrder` | `Ordered` |
| `NothingLost` | `NoLostRow` | `Whole` |
| `SendPathTypeOK`, `OneWriteAtATime`, `BytesInOrder` | `SendPath` `TypeOK`, `AtMostOneWrite`, `StreamInOrder` | `Inv` |
| `BufferTypeOK`, `BufferIsFifo` | `NetWorkBuffer` `TypeOK`, refinement of `ByteFifo` | `TypeOK` |
| `FramesArriveInOrder` | `FramesInOrder` | `FlowInv` |
| `FramingBufferIsFifo` | refinement of `ByteFifo` by the buffer inside `Framing`, if `MaxData >= 1` | `TypeOK` |
| `PoolTypeOK`, `ConnectionsExclusive` | `ConnPool` `TypeOK`, `OneHolder` | `Inv` |
| `WakeupsReachConnections`, `EnoughForAll` | `NoLostWakeup`, `NobodySleeps` | `Inv` and a count |
| `FreshTokens`, `NoSupersededLogin` | `FreshTokenValid`, `SupersededRefused` | `Inv` |
| `StatusTypes` | `StatusServer` `TypeOK` | `Typed`, `CountsTyped` |
| `ImbalanceBounded` | `BoundedImbalance`, if `Bounded` | `BalInv` |
| `LoginTypes`, `ChatUsersAuthentic`, `RegisterHintsHold` | `LoginTypeOK`, `ChatUserAuthentic`, `RegisterHintHolds` | `LoginInv` |
| `StubsNeverLost` | `StubsKept` | `StubInv` |
| `WindowTypes` | `ChatWidget` `TypeOK` | `Typed` |
| `AnswersFindTheirItems` | `AnswersMatch` | `Matching` |
| `NoItemDangles` | `NoDangling` | `Keeping` |
| `PagesShowTheirPeer` | `PageShowsPeer` | `Pages` |
| `RequestsGoToShownUser` | `AddsShownUser` | `Shown` |
| `SquareStaysInside`, `MoveStaysInside` | `SquareInside`, `MoveKeepsInside` | `Inv` |
| `NothingLostOfFrame` | `NothingClipped` | `Inv` |
| `DialogsTypes` | `DialogsTypeOK`, if `Points # {}` | `TypeOK`, `ApplyInv` |
| `DialogsSquareStaysInside`, `DialogsNothingLostOfFrame` | `SquareInside`, `NothingClipped` of `ClientDialogs` | those of the cropper |
| `HintsAndLabelsTogether` | `HintsFollowLabels` of `ClientDialogs` | `Hints` |
| `LabelsLieApart` | `LabelsApart` of `ClientDialogs`, if `LabelsFit` | `ApplyInv` |

The arguments:

- `Typed` adds to `TypeOK` what is known at each step of a handler (`Handling`, for
  instance that `forwardId_` is a user, not empty, once the first lookup succeeded).
- `Route` says of each field of a key which sessions may have written it; the key step
  is that a session deletes its user's key before it stops being a possible
  writer, and that only `Crash` stops it otherwise. `Addressed` carries the lookup's
  result through `remark` and `deliver`, and a channel's content to `RunLoop`.
- `Greeted` adds that a session without a user was sent nothing, and that whatever is
  appended later goes to a session with a user: the lookup only finds such. `Backed`
  follows the reason of a push from the row stored to `forwardId_`, the
  channel and the frame.
- `Ordered` relates three places: the request a session handles (`Past`: older than it
  is everything it forwarded), the channels (`ChanPast`, `ChanOrder`) and the
  buffers (`OutPast`, `OutBeforeChan`). Two paths lead to a receiver, the channel and
  the direct one; that they do not overtake each other is because a session
  publishes only to other servers and a receiver is in the map of its own
  only (`Placed`).
- `Whole` proves `NoLostRow` from what is still to come: `Lossless` says of each
  acknowledged row of a session that redis names that, once its list was built or
  sent, the row is in that list, in a frame, in the session's channel, or a sender
  is still on the way to it (`Reaches`), holding a lookup that already names this
  session or still to make one. The delicate case is the list that has been read but not sent
  (`dest`): it holds every row there is, unless it was cut to a page (`UncutPage`).
  `Connected` is why a session that is not `early` has a channel that is read, `LoginLast` says
  that `isLogin_` is set after both commands, and `AckedPast` that a row stored now
  was not acknowledged before.
- `SendPath`: `AtMostOneWrite` is not inductive, because exclusion is split between
  `mutex_` and `be_sending_`. `UnderWayIsSeen` says that whoever is about to start a
  write and saw `be_sending_` unset is alone, also in the window before it is set
  late. `StreamInOrder` is about the array: `Retained` says that it holds the last bytes
  appended, wherever a compaction is between its steps, `Accounted` that what is sent
  and not retrieved is what the waiting completion counts and that a pending write was
  given the first byte retained, `Room` that `ensureWriteSafe` makes the room it was
  asked for, and `SizeBound` that no index wraps; all but the last while nothing was
  `disturbed`.
- `NetWorkBuffer`: the readable bytes before and after each of the three ways of
  making room are compared byte by byte.
- `Framing`: `FlowInv` says that there is a sequence of bytes in which the frames sent
  lie one behind the other (`Laid`), and that the client has cut off the first of
  them, and perhaps the head of the next, and still has the rest before it in
  sockets and buffers (`Cut`). Each step keeps the sequence or adds a frame to its
  end. Lengths are exact as long as every body is `Short`.
- `StatusServer`: what an entry of `session_` is worth at any time (`EntryValid`), that a
  missing one is being made (`MissingInFlight`), and that a token not yet inserted
  is in nobody else's hands (`TokenFresh`). `Balance` relates each count to those that
  callers in flight have read and chosen by; `Bounded` says that the callers are
  finitely many and that there are fewer logins than `count_` can count, since
  a wrap would upset any balance.
- `ClientLogin`: what the client shows it has from answers. `Request` goes back from
  the answer to the response, the handler and the call of the status server;
  `ConnOfLogin` says whose login a connection is; `Asked` whose registration is
  pending. The invariant of `StatusServer` is used as it is. For the stubs, no two handlers
  are on one context (`Apart`), so fewer than `NCores` hold a stub (`BusyFew`,
  by an injection into the contexts) and the queue is whole or has just been moved
  from at its front (`StubQueue`).
- `ChatWidget`: `Matching` compares each queue with the requests in flight that wait in
  it, in order (`HeadsMatch`, `CallsMatch`), and knows that a closure for a nick
  waits with a request for a nick. `Keeping` adds that everything asked about an
  item precedes the decision that deletes it, which answers in order then keep.
  `Pages` needs that messages have new numbers (`Numbered`), `Shown` that no search
  is in flight while the dialog is open.
- `ConnPool`: a connection is in the queue, with a thread, or lost to a failed
  reconnection (`Conservation`); as many threads are woken as connections return.
- `ImageCropper`: a case per handle; the sizes of the scaled image are as
  `ScaledAssumption` says, which TLC evaluates for the images of its instance.
  `NothingClipped` is a matter of quotients: position and size of the frame are
  scaled and cut off separately, and the two shares still fit (`SharesFit`).
- `ApplyFriend`: where a label goes depends on all labels before it, so
  that they lie apart is an induction along `FriendFlow`; of the steps it is only
  required that the container is as high as the flow (`Roomy`). `LabelsFit` says that each
  label and the editor fit into a line of the container and that the editor is
  not much lower than a label; a label wider than the container is drawn
  over its edge, and the code does not look.

Assumptions: `ConstantAssumption` of each module (constants are numbers and sets of
the kinds described, special values differ from ordinary ones), `NilAssumption` (the
empty value is neither a row nor a frame), `WidthAssumption` and `FramingAssumption` (a
power of two is a positive number, of which the provers know nothing; a byte is a
number below it), `CoresAssumption` (two cores at least: `IoContextPool` takes one
less), `WindowAssumption` (the empty id is no user), `SizesAssumption`,
`ScaledAssumption`, `LayoutAssumption` (the keys are shown in the order of a
sequence). TLC evaluates all of them for its instances. Four theorems have a
hypothesis of their own, named in the table; all of the instances that check the
property satisfy it: `Bounded`, `LabelsFit`, `Points # {}` (there is a cursor
position), `MaxData >= 1` (a write may carry a byte).

Every safety invariant and action property of the runs is stated by a theorem.
Only model-checked are the liveness properties, `PushArrives`, `ClosingEnds`, `AllSent`
and `PostsAnswered` (fairness and `ENABLED` are outside the prover's reach), and
the two disagreements of `toid` and `stuck`, which are counterexamples. Where a proof
needs induction over a sequence or along a recursive function, it takes the least
element at which a set fails (`LeastOf`, `Induction`, `SeqInduction`), because the
library's induction theorems take an operator as a parameter.

## Not modelled

- The lifetime of a session object: handlers bind the raw `this`, and the map holds the
  only owner. The use of a destroyed object has no outcome a transition could state.
  The same goes for the unlocked insert into the map in `TcpServer::start`.
- In `SendPath`, a growth that copies the old array while a write is started on it: the
  write has the old array, as if it had been started first.
- Connections accepted before `SetName` (their host would be the empty string), redis
  commands that return no reply.
- The gateway's URL decoding and `/get_test` page: pure functions of the request.
- In the client, uploading a head, the side bar's buttons, the page of pending
  requests, and the painting of bubbles, items and buttons.
- Logging, configuration, singletons: read once, no behaviour over time. The gRPC code
  is generated; a call is modelled as it is used.
- The stored procedures, which are not in the repository.

What could still be added: an instance of `ClientLogin` with several users and with more
requests than stubs (the theorems have any number of both), the
chat window composed with `ChatServer` itself instead of with a server that answers in
order. The share of the code that is
covered is limited by generated code (a third of the implementation's lines is
`grpc/`) and by the construction of widgets.
