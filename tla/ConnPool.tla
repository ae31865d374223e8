------------------------------- MODULE ConnPool -------------------------------
(***************************************************************************)
(* The connection pools of src/server/src/common: MysqlConnectPool and     *)
(* RedisConnPoll.  Both are a queue of connections under a mutex and a     *)
(* condition variable; a connection comes back through the deleter of the  *)
(* pointer getConn returns.  MysqlConnectPool also replaces a connection   *)
(* that was idle too long, holding the mutex while it connects.  Both      *)
(* pools of a chat server have one connection per core; its threads are an *)
(* io_context thread per core but one, and the main thread.                *)
(***************************************************************************)
EXTENDS Naturals, Sequences, FiniteSets, Functions

CONSTANTS
  Threads,     \* the threads that use the pool
  Keepers,     \* those that never return a redis connection (TcpServer::run)
  Conns,       \* the connections the constructor makes
  None,        \* no thread, no connection
  MaxFailures  \* bound: reconnections that fail

ASSUME ConstantAssumption ==
  /\ Keepers \subseteq Threads /\ None \notin Threads \cup Conns
  /\ IsFiniteSet(Threads) /\ IsFiniteSet(Conns)
  /\ MaxFailures \in Nat

VARIABLES
  reconnects, \* which pool this is: TRUE for MysqlConnectPool
  connects_,  \* the queue of idle connections
  mutex_,     \* the thread that holds the mutex
  pc,         \* per thread: what it does next
  held,       \* per thread: the connection it has taken
  failures    \* reconnections that failed so far

vars == <<reconnects, connects_, mutex_, pc, held, failures>>

TypeOK ==
  /\ reconnects \in BOOLEAN
  /\ connects_ \in Seq(Conns)
  /\ mutex_ \in Threads \cup {None}
  /\ pc \in [Threads -> {"idle", "test", "wait", "woken", "aged", "connect", "use"}]
  /\ held \in [Threads -> Conns \cup {None}]
  /\ failures \in 0..MaxFailures

Init ==
  /\ reconnects \in BOOLEAN
  /\ connects_ \in Bijection(1..Cardinality(Conns), Conns)
  /\ mutex_ = None
  /\ pc = [t \in Threads |-> "idle"]
  /\ held = [t \in Threads |-> None]
  /\ failures = 0

Goto(t, label) == pc' = [pc EXCEPT ![t] = label]

\* getConn takes the mutex, or cond_.wait takes it again after a wake-up, which
\* may be spurious.
Lock(t) ==
  /\ pc[t] \in {"idle", "wait", "woken"} /\ mutex_ = None
  /\ mutex_' = t
  /\ Goto(t, "test")
  /\ UNCHANGED <<reconnects, connects_, held, failures>>

\* The predicate of cond_.wait: sleep while the queue is empty ...
Wait(t) ==
  /\ pc[t] = "test" /\ connects_ = <<>>
  /\ mutex_' = None
  /\ Goto(t, "wait")
  /\ UNCHANGED <<reconnects, connects_, held, failures>>

\* Mutant: the connection stays in the queue.
Pop_Front(t) ==
  /\ pc[t] = "test" /\ connects_ # <<>>
  /\ held' = [held EXCEPT ![t] = Head(connects_)]
  /\ mutex_' = None
  /\ Goto(t, "use")
  /\ UNCHANGED <<reconnects, connects_, failures>>

\* ... and take the front; redis is done then, MySQL looks at its age.
Pop(t) ==
  /\ pc[t] = "test" /\ connects_ # <<>>
  /\ held' = [held EXCEPT ![t] = Head(connects_)]
  /\ connects_' = Tail(connects_)
  /\ IF reconnects THEN Goto(t, "aged") /\ UNCHANGED mutex_
     ELSE Goto(t, "use") /\ mutex_' = None
  /\ UNCHANGED <<reconnects, failures>>

\* Used within idle_time_: hand it out.
Fresh(t) ==
  /\ pc[t] = "aged"
  /\ mutex_' = None
  /\ Goto(t, "use")
  /\ UNCHANGED <<reconnects, connects_, held, failures>>

\* Idle for too long: delete it, with the mutex held.
Delete(t) ==
  /\ pc[t] = "aged"
  /\ held' = [held EXCEPT ![t] = None]
  /\ Goto(t, "connect")
  /\ UNCHANGED <<reconnects, connects_, mutex_, failures>>

\* The connections that exist: in the queue or in a thread's hands.
Existing == Range(connects_) \cup {c \in Conns : \E t \in Threads : held[t] = c}

\* A new connection takes the place of the deleted one.
Connect(t) ==
  /\ pc[t] = "connect"
  /\ \E c \in Conns \ Existing : held' = [held EXCEPT ![t] = c]
  /\ mutex_' = None
  /\ Goto(t, "use")
  /\ UNCHANGED <<reconnects, connects_, failures>>

\* connect or setSchema throws: the caller of getConn gets the exception.
ConnectFails(t) ==
  /\ pc[t] = "connect" /\ failures < MaxFailures
  /\ failures' = failures + 1
  /\ mutex_' = None
  /\ Goto(t, "idle")
  /\ UNCHANGED <<reconnects, connects_, held>>

\* push, then notify_one: one of the sleeping threads is woken, if there is one.
GiveBack(t, woken) ==
  /\ pc[t] = "use" /\ mutex_ = None /\ (t \in Keepers => reconnects)
  /\ held' = [held EXCEPT ![t] = None]
  /\ pc' = [x \in Threads |-> IF x = t THEN "idle" ELSE IF x \in woken THEN "woken" ELSE pc[x]]
  /\ UNCHANGED <<reconnects, mutex_, failures>>

Sleeping == {t \in Threads : pc[t] = "wait"}

\* Mutant: nobody is notified.
Return_Silently(t) ==
  /\ GiveBack(t, {})
  /\ connects_' = Append(connects_, held[t])

\* Mutant: the connection is not put back.
Return_Leaks(t) ==
  /\ GiveBack(t, {})
  /\ UNCHANGED connects_

\* Mutant: the pointer is reset before it is pushed.
Return_Nothing(t) ==
  /\ IF Sleeping = {} THEN GiveBack(t, {}) ELSE \E x \in Sleeping : GiveBack(t, {x})
  /\ connects_' = Append(connects_, held'[t])

\* The deleter, all of it under the mutex.
Return(t) ==
  /\ IF Sleeping = {} THEN GiveBack(t, {}) ELSE \E x \in Sleeping : GiveBack(t, {x})
  /\ connects_' = Append(connects_, held[t])

Next ==
  \E t \in Threads :
    \/ Lock(t) \/ Wait(t) \/ Pop(t) \/ Fresh(t) \/ Delete(t)
    \/ Connect(t) \/ ConnectFails(t) \/ Return(t)

Spec == Init /\ [][Next]_vars

-------------------------------------------------------------------------------
\* No connection is in two places: two threads never talk on one MySQL or redis
\* connection at once, and none is queued while it is used.
OneHolder ==
  /\ IsInjective(connects_)
  /\ \A t \in Threads : held[t] # None =>
       /\ held[t] \notin Range(connects_)
       /\ \A x \in Threads \ {t} : held[x] # held[t]

\* A connection in the queue is not overlooked: while threads sleep, there are at
\* least as many woken ones on their way as there are connections to take.
NoLostWakeup ==
  Sleeping # {} =>
    Len(connects_) <= Cardinality({t \in Threads : pc[t] \in {"woken", "test"}})

\* A pool that still has a connection for every thread never makes one wait: only
\* failed reconnections do, although the subscriber keeps one redis connection.
NobodySleeps ==
  Cardinality(Conns) - failures >= Cardinality(Threads) => Sleeping = {}
===============================================================================
