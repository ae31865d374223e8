----------------------------- MODULE ConnPoolProofs -----------------------------
(***************************************************************************)
(* Proofs about ConnPool, for any number of threads and connections, in    *)
(* both pools: the state has its types and no connection is in two places. *)
(* OneHolder needs one more fact to be inductive: the pointer a deleter    *)
(* gives back is not null (HasConnection).  That nobody sleeps beside a    *)
(* connection counts threads: as many are woken as connections come back,  *)
(* and a connection is in the queue, with a thread, or lost to a failed    *)
(* reconnection (Conservation).                                            *)
(***************************************************************************)
EXTENDS ConnPool, FiniteSetTheorems, SequenceTheorems, TLAPS

\* A thread that looks at the age of a connection, or uses it, has one.
HasConnection == \A t \in Threads : pc[t] \in {"aged", "use"} => held[t] # None

Inv == TypeOK /\ HasConnection /\ OneHolder

USE DEF Goto

LEMMA InvInit == Init => Inv
<1> SUFFICES ASSUME Init PROVE Inv
  OBVIOUS
<1> USE ConstantAssumption DEF ConstantAssumption, Init
<1>1. Cardinality(Conns) \in Nat
  BY FS_CardinalityType
<1>2. connects_ \in [1..Cardinality(Conns) -> Conns] /\ IsInjective(connects_)
  BY DEF Bijection, Injection
<1>3. connects_ \in Seq(Conns)
  BY <1>1, <1>2
<1>4. TypeOK
  BY <1>3 DEF TypeOK
<1>5. HasConnection /\ OneHolder
  BY <1>2 DEF HasConnection, OneHolder
<1> QED
  BY <1>4, <1>5 DEF Inv

\* The front connection changes from the queue into the hands of the thread.
LEMMA InvPop == ASSUME Inv, NEW t \in Threads, Pop(t) PROVE Inv'
<1> USE ConstantAssumption DEF ConstantAssumption, Inv
<1>1. /\ connects_ \in Seq(Conns) /\ connects_ # <<>>
      /\ held' = [held EXCEPT ![t] = connects_[1]] /\ connects_' = Tail(connects_)
      /\ held \in [Threads -> Conns \cup {None}]
  BY DEF Pop, TypeOK
<1>2. /\ Head(connects_) = connects_[1] /\ connects_[1] \in Conns
      /\ Tail(connects_) \in Seq(Conns) /\ DOMAIN Tail(connects_) = 1 .. Len(connects_) - 1
      /\ \A i \in 1 .. Len(connects_) - 1 : Tail(connects_)[i] = connects_[i + 1]
      /\ Len(connects_) \in Nat \ {0} /\ DOMAIN connects_ = 1 .. Len(connects_)
  BY <1>1, HeadTailProperties
<1>3. TypeOK'
  <2>1. pc' \in [Threads -> {"idle", "test", "wait", "woken", "aged", "connect", "use"}]
        /\ mutex_' \in Threads \cup {None}
    BY DEF Pop, TypeOK
  <2> QED
    BY <1>1, <1>2, <2>1 DEF Pop, TypeOK
<1>4. HasConnection'
  <2>1. \A x \in Threads \ {t} : pc'[x] = pc[x]
    BY DEF Pop, TypeOK
  <2> QED
    BY <1>1, <1>2, <2>1 DEF HasConnection
<1>5. IsInjective(connects_')
  BY <1>1, <1>2 DEF OneHolder, IsInjective
<1>6. ASSUME NEW x \in Threads, held'[x] # None
      PROVE  held'[x] \notin Range(connects_') /\ \A y \in Threads \ {x} : held'[y] # held'[x]
  <2>1. \A i \in 1 .. Len(connects_) - 1 : connects_'[i] \in Range(connects_) /\ connects_'[i] # connects_[1]
    BY <1>1, <1>2 DEF OneHolder, IsInjective, Range
  <2>2. connects_[1] \in Range(connects_)
    BY <1>1, <1>2 DEF Range
  <2> QED
    BY <1>1, <1>2, <1>6, <2>1, <2>2 DEF OneHolder, Range
<1> QED
  BY <1>3, <1>4, <1>5, <1>6 DEF OneHolder

\* The connection changes back, to the end of the queue.
LEMMA InvReturn == ASSUME Inv, NEW t \in Threads, Return(t) PROVE Inv'
<1> USE ConstantAssumption DEF ConstantAssumption, Inv
<1>1. PICK woken : woken \subseteq Threads /\ GiveBack(t, woken)
  BY DEF Return, Sleeping
<1>2. /\ held' = [held EXCEPT ![t] = None] /\ connects_' = Append(connects_, held[t])
      /\ connects_ \in Seq(Conns) /\ held \in [Threads -> Conns \cup {None}]
      /\ held[t] \in Conns
  BY <1>1 DEF Return, GiveBack, TypeOK, HasConnection
<1>3. /\ connects_' \in Seq(Conns) /\ DOMAIN connects_' = 1 .. Len(connects_) + 1
      /\ \A i \in 1 .. Len(connects_) : connects_'[i] = connects_[i]
      /\ connects_'[Len(connects_) + 1] = held[t]
      /\ Len(connects_) \in Nat /\ DOMAIN connects_ = 1 .. Len(connects_)
  BY <1>2, AppendProperties
<1>4. \A x \in Threads : pc'[x] \in {"aged", "use"} => x # t /\ pc[x] = pc'[x]
  BY <1>1 DEF GiveBack
<1>5. TypeOK'
  <2>1. pc' \in [Threads -> {"idle", "test", "wait", "woken", "aged", "connect", "use"}]
    BY <1>1 DEF GiveBack, TypeOK
  <2> QED
    BY <1>1, <1>2, <1>3, <2>1 DEF GiveBack, TypeOK
<1>6. HasConnection'
  BY <1>2, <1>4 DEF HasConnection
<1>7. \A i \in 1 .. Len(connects_) : connects_[i] # held[t]
  BY <1>2, <1>3 DEF OneHolder, Range
<1>8. IsInjective(connects_')
  BY <1>2, <1>3, <1>7 DEF OneHolder, IsInjective
<1>9. ASSUME NEW x \in Threads, held'[x] # None
      PROVE  held'[x] \notin Range(connects_') /\ \A y \in Threads \ {x} : held'[y] # held'[x]
  BY <1>2, <1>3, <1>9 DEF OneHolder, Range
<1> QED
  BY <1>5, <1>6, <1>8, <1>9 DEF OneHolder

\* A reconnection makes a connection that is nowhere else.
LEMMA InvConnect == ASSUME Inv, NEW t \in Threads, Connect(t) PROVE Inv'
<1> USE ConstantAssumption DEF ConstantAssumption, Inv
<1>1. PICK c \in Conns \ Existing : held' = [held EXCEPT ![t] = c]
  BY DEF Connect
<1>2. c \notin Range(connects_) /\ \A x \in Threads : held[x] # c
  BY <1>1 DEF Existing
<1>3. TypeOK'
  BY <1>1 DEF Connect, TypeOK
<1>4. HasConnection'
  BY <1>1 DEF Connect, TypeOK, HasConnection
<1>5. OneHolder'
  BY <1>1, <1>2 DEF Connect, TypeOK, OneHolder
<1> QED
  BY <1>3, <1>4, <1>5

\* The other steps move no connection; Delete lets one go.
LEMMA InvOthers ==
  ASSUME Inv, NEW t \in Threads,
         Lock(t) \/ Wait(t) \/ Fresh(t) \/ Delete(t) \/ ConnectFails(t)
  PROVE  Inv'
<1> USE ConstantAssumption DEF ConstantAssumption, Inv, Lock, Wait, Fresh, Delete, ConnectFails
<1>1. TypeOK'
  BY DEF TypeOK
<1>2. HasConnection'
  BY DEF TypeOK, HasConnection
<1>3. OneHolder'
  BY DEF TypeOK, OneHolder
<1> QED
  BY <1>1, <1>2, <1>3

LEMMA InvNext == Inv /\ [Next]_vars => Inv'
<1> SUFFICES ASSUME Inv, [Next]_vars PROVE Inv'
  OBVIOUS
<1>1. CASE UNCHANGED vars
  BY <1>1 DEF vars, Inv, TypeOK, HasConnection, OneHolder
<1> QED
  BY <1>1, InvPop, InvReturn, InvConnect, InvOthers DEF Next

LEMMA InvAlways == Spec => []Inv
  BY InvInit, InvNext, PTL DEF Spec

\* What the deleter puts back is a connection, never the null pointer the queue of
\* idle connections could otherwise hold.
THEOREM PoolTypeOK == Spec => []TypeOK
<1>1. Inv => TypeOK
  BY DEF Inv
<1> QED
  BY <1>1, InvAlways, PTL

\* Two threads never have one connection, nor is one queued while it is used, for
\* any number of threads and connections, and however often one is replaced.
THEOREM ConnectionsExclusive == Spec => []OneHolder
<1>1. Inv => OneHolder
  BY DEF Inv
<1> QED
  BY <1>1, InvAlways, PTL

-------------------------------------------------------------------------------
\* The threads on their way to a look at the queue, and those with a connection or
\* about to make one.
Awake == {t \in Threads : pc[t] \in {"woken", "test"}}
Busy  == {t \in Threads : pc[t] \in {"aged", "connect", "use"}}

\* A connection is lost by a failed reconnection only.
Conservation == Len(connects_) + Cardinality(Busy) + failures = Cardinality(Conns)

Counted == Conservation /\ NoLostWakeup /\ NobodySleeps

\* The sets of threads are finite.
LEMMA FiniteThreads ==
  /\ IsFiniteSet(Awake) /\ Cardinality(Awake) \in Nat
  /\ IsFiniteSet(Busy) /\ Cardinality(Busy) \in Nat
  /\ Cardinality(Threads) \in Nat /\ Cardinality(Conns) \in Nat
<1>1. Awake \in SUBSET Threads /\ Busy \in SUBSET Threads
  BY DEF Awake, Busy
<1> QED
  BY <1>1, ConstantAssumption, FS_Subset, FS_CardinalityType DEF ConstantAssumption

LEMMA CountedInit == Init => Counted
<1> SUFFICES ASSUME Init PROVE Counted
  OBVIOUS
<1>1. Busy = {} /\ Sleeping = {}
  BY DEF Init, Busy, Sleeping
<1>2. Len(connects_) = Cardinality(Conns)
  BY FiniteThreads DEF Init, Bijection, Injection
<1> QED
  BY <1>1, <1>2, FiniteThreads, FS_EmptySet DEF Init, Counted, Conservation, NoLostWakeup, NobodySleeps

\* What a step does to the queue and to the sets of threads is enough to know.
LEMMA CountedStep ==
  ASSUME Inv, Counted, failures' \in Nat, Len(connects_') \in Nat,
         Len(connects_') + Cardinality(Busy') + failures' = Cardinality(Conns),
         failures <= failures',
         Sleeping' \subseteq Sleeping,
         Sleeping' # {} =>
           Len(connects_') - Cardinality(Awake') <= Len(connects_) - Cardinality(Awake),
         Cardinality(Awake') \in Nat
  PROVE  Counted'
<1>1. Len(connects_) \in Nat /\ failures \in Nat
  BY ConstantAssumption DEF ConstantAssumption, Inv, TypeOK
<1>2. Conservation'
  BY DEF Conservation
<1>3. NoLostWakeup'
  <2>1. CASE Sleeping' = {}
    BY <2>1 DEF NoLostWakeup
  <2>2. CASE Sleeping' # {}
    <3>1. Len(connects_) <= Cardinality(Awake)
      BY <2>2 DEF Counted, NoLostWakeup, Awake
    <3>2. Len(connects_') <= Cardinality(Awake')
      BY <1>1, <2>2, <3>1, FiniteThreads
    <3> QED
      BY <3>2 DEF NoLostWakeup, Awake
  <2> QED
    BY <2>1, <2>2
<1>4. NobodySleeps'
  BY <1>1, FiniteThreads DEF Counted, NobodySleeps
<1> QED
  BY <1>2, <1>3, <1>4 DEF Counted

LEMMA CountedLock == ASSUME Inv, Counted, NEW t \in Threads, Lock(t) PROVE Counted'
<1>1. /\ Awake' = Awake \cup {t} /\ Busy' = Busy /\ Sleeping' \subseteq Sleeping
      /\ UNCHANGED <<connects_, failures>>
  BY DEF Inv, TypeOK, Lock, Awake, Busy, Sleeping
<1>2. Cardinality(Awake') \in Nat /\ Cardinality(Awake') >= Cardinality(Awake)
  BY SMTT(30), <1>1, FiniteThreads, FS_AddElement
<1>3. Len(connects_) \in Nat /\ failures \in Nat
  BY ConstantAssumption DEF ConstantAssumption, Inv, TypeOK
<1> QED
  BY <1>1, <1>2, <1>3, FiniteThreads, CountedStep DEF Counted, Conservation

\* With the queue empty there is nothing to overlook, and all connections that are
\* left are with other threads.
LEMMA CountedWait == ASSUME Inv, Counted, NEW t \in Threads, Wait(t) PROVE Counted'
<1>1. connects_ = <<>> /\ Busy' = Busy /\ UNCHANGED <<connects_, failures>>
  BY DEF Inv, TypeOK, Wait, Busy
<1>2. failures \in Nat /\ Cardinality(Awake') \in Nat
  <2>1. Awake' \in SUBSET Threads
    BY DEF Awake
  <2> QED
    BY <2>1, ConstantAssumption, FS_Subset, FS_CardinalityType DEF ConstantAssumption, Inv, TypeOK
<1>3. Conservation' /\ NoLostWakeup'
  BY <1>1, <1>2 DEF Counted, Conservation, NoLostWakeup, Awake
<1>4. Cardinality(Busy) < Cardinality(Threads)
  <2>1. Busy \in SUBSET Threads /\ t \notin Busy
    BY DEF Busy, Wait
  <2>2. Cardinality(Busy) <= Cardinality(Threads) /\ Cardinality(Busy) # Cardinality(Threads)
    BY <2>1, ConstantAssumption, FS_Subset DEF ConstantAssumption
  <2> QED
    BY <2>2, FiniteThreads
<1>5. Cardinality(Busy) + failures = Cardinality(Conns)
  BY <1>1, <1>2, FiniteThreads DEF Counted, Conservation
<1>6. NobodySleeps'
  BY <1>1, <1>2, <1>4, <1>5, FiniteThreads DEF NobodySleeps
<1> QED
  BY <1>3, <1>6 DEF Counted

LEMMA CountedPop == ASSUME Inv, Counted, NEW t \in Threads, Pop(t) PROVE Counted'
<1>1. /\ Awake' = Awake \ {t} /\ t \in Awake /\ Busy' = Busy \cup {t} /\ t \notin Busy
      /\ Sleeping' \subseteq Sleeping /\ UNCHANGED failures
  BY DEF Inv, TypeOK, Pop, Awake, Busy, Sleeping
<1>2. /\ Len(connects_) \in Nat /\ failures \in Nat
      /\ Len(connects_') = Len(connects_) - 1 /\ Len(connects_') \in Nat
  BY ConstantAssumption, HeadTailProperties DEF ConstantAssumption, Inv, TypeOK, Pop
<1>3. Cardinality(Awake') = Cardinality(Awake) - 1 /\ Cardinality(Busy') = Cardinality(Busy) + 1
  BY <1>1, FiniteThreads, FS_AddElement, FS_RemoveElement
<1>4. Cardinality(Awake') \in Nat
  BY <1>1, FiniteThreads, FS_RemoveElement, FS_CardinalityType
<1>5. Len(connects_') + Cardinality(Busy') + failures' = Cardinality(Conns)
  BY <1>1, <1>2, <1>3, FiniteThreads DEF Counted, Conservation
<1>6. Len(connects_') - Cardinality(Awake') <= Len(connects_) - Cardinality(Awake)
  BY <1>2, <1>3, FiniteThreads
<1>7. failures' \in Nat /\ failures <= failures'
  BY <1>1, <1>2
<1> QED
  BY ONLY Inv, Counted, <1>1, <1>2, <1>4, <1>5, <1>6, <1>7, CountedStep

LEMMA CountedConnectFails ==
  ASSUME Inv, Counted, NEW t \in Threads, ConnectFails(t) PROVE Counted'
<1>1. /\ Awake' = Awake /\ Busy' = Busy \ {t} /\ t \in Busy
      /\ Sleeping' \subseteq Sleeping /\ failures' = failures + 1 /\ UNCHANGED connects_
  BY DEF Inv, TypeOK, ConnectFails, Awake, Busy, Sleeping
<1>2. Len(connects_) \in Nat /\ failures \in Nat
  BY ConstantAssumption DEF ConstantAssumption, Inv, TypeOK
<1>3. Cardinality(Busy') = Cardinality(Busy) - 1
  BY <1>1, FiniteThreads, FS_RemoveElement
<1> QED
  BY <1>1, <1>2, <1>3, FiniteThreads, CountedStep DEF Counted, Conservation

\* The connection comes back and wakes one sleeper, unless there is none.
LEMMA CountedReturn == ASSUME Inv, Counted, NEW t \in Threads, Return(t) PROVE Counted'
<1>1. /\ Busy' = Busy \ {t} /\ t \in Busy /\ UNCHANGED failures
      /\ Sleeping' \subseteq Sleeping
  BY DEF Inv, TypeOK, Return, GiveBack, Busy, Sleeping
<1>2. Len(connects_) \in Nat /\ failures \in Nat /\ Len(connects_') = Len(connects_) + 1
  <2>1. held[t] \in Conns
    BY ConstantAssumption DEF ConstantAssumption, Inv, TypeOK, HasConnection, Return, GiveBack
  <2> QED
    BY <2>1, ConstantAssumption, AppendProperties DEF ConstantAssumption, Inv, TypeOK, Return
<1>3. Cardinality(Busy') = Cardinality(Busy) - 1
  BY <1>1, FiniteThreads, FS_RemoveElement
<1>4. CASE Sleeping = {}
  <2>1. Cardinality(Awake') \in Nat
    <3>1. Awake' \in SUBSET Threads
      BY DEF Awake
    <3> QED
      BY <3>1, ConstantAssumption, FS_Subset, FS_CardinalityType DEF ConstantAssumption
  <2> QED
    BY <1>1, <1>2, <1>3, <1>4, <2>1, FiniteThreads, CountedStep DEF Counted, Conservation
<1>5. CASE Sleeping # {}
  <2>1. PICK x \in Sleeping : GiveBack(t, {x})
    BY <1>5 DEF Return
  <2>2. Awake' = Awake \cup {x} /\ x \notin Awake
    BY <2>1 DEF Inv, TypeOK, GiveBack, Awake, Sleeping
  <2>3. Cardinality(Awake') = Cardinality(Awake) + 1
    BY <2>2, FiniteThreads, FS_AddElement
  <2> QED
    BY <1>1, <1>2, <1>3, <2>3, FiniteThreads, CountedStep DEF Counted, Conservation
<1> QED
  BY <1>4, <1>5

LEMMA CountedOthers ==
  ASSUME Inv, Counted, NEW t \in Threads,
         Fresh(t) \/ Delete(t) \/ Connect(t)
  PROVE  Counted'
<1>1. Awake' = Awake /\ Busy' = Busy /\ Sleeping' = Sleeping /\ UNCHANGED <<connects_, failures>>
  BY DEF Inv, TypeOK, Fresh, Delete, Connect, Awake, Busy, Sleeping
<1> QED
  BY <1>1 DEF Counted, Conservation, NoLostWakeup, NobodySleeps, Awake

LEMMA CountedNext == Inv /\ Counted /\ [Next]_vars => Counted'
<1> SUFFICES ASSUME Inv, Counted, [Next]_vars PROVE Counted'
  OBVIOUS
<1>1. CASE UNCHANGED vars
  BY <1>1 DEF vars, Counted, Conservation, NoLostWakeup, NobodySleeps, Sleeping, Busy
<1> QED
  BY <1>1, CountedLock, CountedWait, CountedPop, CountedConnectFails, CountedReturn,
     CountedOthers DEF Next

\* No wake-up is lost: notify_one wakes one thread per connection given back, and a
\* thread that takes a connection first leaves the woken one nothing to overlook.
THEOREM WakeupsReachConnections == Spec => []NoLostWakeup
<1>1. Counted => NoLostWakeup
  BY DEF Counted
<1> QED
  BY <1>1, InvAlways, CountedInit, CountedNext, PTL DEF Spec

\* With as many connections as threads nobody ever waits for one, whatever the
\* subscriber keeps, as long as the failed reconnections leave that many.
THEOREM EnoughForAll == Spec => []NobodySleeps
<1>1. Counted => NobodySleeps
  BY DEF Counted
<1> QED
  BY <1>1, InvAlways, CountedInit, CountedNext, PTL DEF Spec
===============================================================================
