--------------------------- MODULE StatusServerProofs ---------------------------
(***************************************************************************)
(* Proofs about StatusServer, for any number of callers, users, servers    *)
(* and tokens: the token of a user is always its newest that counts, a     *)
(* superseded token is never accepted, and the counts stay balanced.       *)
(*                                                                         *)
(* FreshTokenValid is not inductive: it says nothing of session_ while a   *)
(* call is in flight.  The invariant says what an entry is worth at any    *)
(* time (EntryValid), that a missing entry is that of a call in flight     *)
(* (MissingInFlight), and, so that the insert puts in a token that is not  *)
(* superseded yet, that the token of a call is in nobody else's hands      *)
(* before it is returned (TokenFresh).                                     *)
(***************************************************************************)
EXTENDS StatusServer, FiniteSetTheorems, WellFoundedInduction, TLAPS

\* The part of TypeOK that does not count logins.
Typed ==
  /\ session_ \in [Users -> Tokens \cup {NoToken}]
  /\ pc \in [Callers -> PCs]
  /\ uid \in [Callers -> Users]
  /\ token \in [Callers -> Tokens \cup {NoToken}]
  /\ issued \in Tokens \cup {0}
  /\ owner \in [Tokens -> Users]
  /\ returned \in SUBSET Tokens /\ superseded \in SUBSET Tokens

\* Every token in use has been issued.
TokensIssued ==
  /\ \A c \in Callers : token[c] \in 0..issued
  /\ returned \subseteq 1..issued
  /\ superseded \subseteq returned

\* A call that has its token has it for its user.
TokenOfCall ==
  \A c \in Callers : pc[c] \in {"insert", "connect"} =>
    token[c] # NoToken /\ owner[token[c]] = uid[c]

\* A token not yet inserted is new to all others.
TokenFresh ==
  \A c \in Callers : pc[c] = "insert" =>
    token[c] \notin returned /\ \A d \in Callers \ {c} : token[d] # token[c]

\* An entry of session_ is a returned token of the user that no later call superseded.
EntryValid ==
  \A u \in Users : session_[u] # NoToken =>
    session_[u] \in returned \ superseded /\ owner[session_[u]] = u

\* A user that was given a token has an entry, or a call that will make one.
MissingInFlight ==
  \A u \in Users :
    session_[u] = NoToken /\ (\E t \in returned : owner[t] = u) => InFlight(u)

Inv == Typed /\ TokensIssued /\ TokenOfCall /\ TokenFresh /\ EntryValid /\ MissingInFlight

\* A step of the call of c; its login may be counted for any server.
StatusStep(c) ==
  \/ \E u \in Users : GetChartServer(c, u)
  \/ ReadFirst(c) \/ Choose(c) \/ InsertToken(c)
  \/ Login(c) \/ LoginFails(c) \/ (\E s \in Servers : CountLoginAt(c, s))

USE DEF Tokens, NoToken, Goto

LEMMA InvInit == Init => Inv
<1> SUFFICES ASSUME Init PROVE Inv
  OBVIOUS
<1> USE ConstantAssumption DEF ConstantAssumption, Init
<1>1. Typed
  <2>1. (CHOOSE u \in Users : TRUE) \in Users
    OBVIOUS
  <2> QED
    BY <2>1 DEF Typed, PCs
<1>2. TokensIssued /\ TokenOfCall /\ TokenFresh
  BY DEF TokensIssued, TokenOfCall, TokenFresh
<1>3. EntryValid /\ MissingInFlight
  BY DEF EntryValid, MissingInFlight
<1> QED
  BY <1>1, <1>2, <1>3 DEF Inv

\* A call begins: it erases the entry, and is in flight from now on.
LEMMA InvGetChartServer ==
  ASSUME Inv, NEW c \in Callers, NEW u \in Users, GetChartServer(c, u)
  PROVE  Inv'
<1> USE DEF Inv, GetChartServer
<1>1. Typed'
  BY DEF Typed, PCs
<1>2. TokensIssued' /\ TokenOfCall' /\ TokenFresh'
  BY DEF Typed, TokensIssued, TokenOfCall, TokenFresh
<1>3. EntryValid'
  BY DEF Typed, EntryValid
<1>4. MissingInFlight'
  BY DEF Typed, MissingInFlight, InFlight
<1> QED
  BY <1>1, <1>2, <1>3, <1>4

\* The token is generated: it is none of those before it.
LEMMA InvChoose == ASSUME Inv, NEW c \in Callers, Choose(c) PROVE Inv'
<1> USE ConstantAssumption DEF ConstantAssumption, Inv
<1>1. issued' = issued + 1 /\ issued \in Nat /\ issued' \in Tokens
  BY DEF Typed, Choose
<1>2. Typed'
  BY <1>1 DEF Typed, PCs, Choose
<1>3. TokensIssued'
  BY <1>1 DEF Typed, TokensIssued, Choose
<1>4. /\ token' = [token EXCEPT ![c] = issued + 1] /\ owner' = [owner EXCEPT ![issued + 1] = uid[c]]
      /\ pc' = [pc EXCEPT ![c] = "insert"]
      /\ UNCHANGED <<session_, uid, returned, superseded>>
  BY DEF Choose
<1>5. \A d \in Callers : token[d] # issued + 1 /\ token[d] \in Tokens \cup {0}
  BY <1>1 DEF Typed, TokensIssued
<1>6. issued + 1 \notin returned
  BY <1>1 DEF TokensIssued
<1>7. TokenOfCall'
  BY <1>1, <1>4, <1>5 DEF Typed, TokenOfCall
<1>8. TokenFresh'
  BY <1>1, <1>4, <1>5, <1>6 DEF Typed, TokenFresh
<1>9. EntryValid'
  BY <1>1, <1>4, <1>6 DEF Typed, EntryValid
<1>10. MissingInFlight'
  BY <1>1, <1>4, <1>6 DEF Typed, MissingInFlight, InFlight
<1> QED
  BY <1>2, <1>3, <1>7, <1>8, <1>9, <1>10

\* The token is inserted, or an entry left there by a later call kept.
LEMMA InvInsertToken == ASSUME Inv, NEW c \in Callers, InsertToken(c) PROVE Inv'
<1> USE DEF Inv, InsertToken
<1>1. token[c] \in 1..issued /\ owner[token[c]] = uid[c] /\ token[c] \notin superseded
  BY DEF Typed, TokensIssued, TokenOfCall, TokenFresh
<1>2. Typed'
  <2>1. token[c] \in Tokens
    BY <1>1 DEF Typed
  <2>2. session_' \in [Users -> Tokens \cup {NoToken}] /\ returned' \in SUBSET Tokens
    BY <2>1 DEF Typed
  <2>3. pc' \in [Callers -> PCs]
    BY DEF Typed, PCs
  <2> QED
    BY <2>2, <2>3 DEF Typed
<1>3. TokensIssued' /\ TokenOfCall' /\ TokenFresh'
  BY <1>1 DEF Typed, TokensIssued, TokenOfCall, TokenFresh
<1>4. EntryValid'
  BY <1>1 DEF Typed, EntryValid
<1>5. MissingInFlight'
  <2> SUFFICES ASSUME NEW u \in Users, session_'[u] = NoToken, NEW t \in returned', owner'[t] = u
               PROVE  InFlight(u)'
    BY DEF MissingInFlight
  <2>1. u # uid[c] /\ session_[u] = NoToken
    BY <1>1 DEF Typed
  <2>2. t \in returned /\ owner[t] = u
    BY <1>1, <2>1
  <2>3. PICK d \in Callers : uid[d] = u /\ pc[d] \in {"read", "choose", "insert"}
    BY <2>1, <2>2 DEF MissingInFlight, InFlight
  <2>4. d # c /\ uid'[d] = u /\ pc'[d] = pc[d]
    BY <2>1, <2>3 DEF Typed
  <2> QED
    BY <2>3, <2>4 DEF InFlight
<1> QED
  BY <1>2, <1>3, <1>4, <1>5

\* The other steps touch neither tokens nor entries, and end no call in flight.
LEMMA InvOthers ==
  ASSUME Inv, NEW c \in Callers,
         ReadFirst(c) \/ Login(c) \/ LoginFails(c) \/ (\E s : CountLoginAt(c, s))
  PROVE  Inv'
<1> USE DEF Inv, ReadFirst, Login, LoginFails, CountLoginAt
<1>1. UNCHANGED <<session_, uid, token, issued, owner, returned, superseded>>
  OBVIOUS
<1>2. \/ pc[c] = "read" /\ pc' = [pc EXCEPT ![c] = "choose"]
      \/ pc[c] \in {"connect", "count"} /\ pc' = [pc EXCEPT ![c] = "count"]
      \/ pc[c] \in {"connect", "count"} /\ pc' = [pc EXCEPT ![c] = "idle"]
  OBVIOUS
<1> HIDE DEF ReadFirst, Login, LoginFails, CountLoginAt
<1>3. Typed' /\ TokensIssued'
  BY <1>1, <1>2 DEF Typed, PCs, TokensIssued
<1>4. TokenOfCall' /\ TokenFresh'
  BY <1>1, <1>2 DEF Typed, TokenOfCall, TokenFresh
<1>5. EntryValid'
  BY <1>1 DEF EntryValid
<1>6. MissingInFlight'
  BY <1>1, <1>2 DEF Typed, MissingInFlight, InFlight
<1> QED
  BY <1>3, <1>4, <1>5, <1>6

LEMMA InvStep == ASSUME Inv, NEW c \in Callers, StatusStep(c) PROVE Inv'
  BY InvGetChartServer, InvChoose, InvInsertToken, InvOthers DEF StatusStep

\* The callers only take such steps, for servers that exist.
LEMMA NextIsStatusStep ==
  ASSUME chosen \in [Callers -> Servers], Next
  PROVE  \E c \in Callers : StatusStep(c)
  BY DEF Next, StatusStep, CountLogin

LEMMA InvNext == Inv /\ [Next]_vars => Inv'
<1> SUFFICES ASSUME Inv, [Next]_vars PROVE Inv'
  OBVIOUS
<1>1. CASE UNCHANGED vars
  BY <1>1 DEF vars, Inv, Typed, TokensIssued, TokenOfCall, TokenFresh, EntryValid,
     MissingInFlight, InFlight
<1> QED
  BY <1>1, InvGetChartServer, InvChoose, InvInsertToken, InvOthers DEF Next, CountLogin

LEMMA InvAlways == Spec => []Inv
  BY InvInit, InvNext, PTL DEF Spec

\* While no call for a user is in flight, the StatusServer accepts a token of that
\* user that was returned and not superseded, although GetChartServer erases and
\* inserts in two critical sections: for any number of callers and users.
THEOREM FreshTokens == Spec => []FreshTokenValid
<1>1. Inv => FreshTokenValid
  BY DEF Inv, EntryValid, MissingInFlight, FreshTokenValid
<1> QED
  BY <1>1, InvAlways, PTL

\* Login never accepts a token after a later call for its user has begun, nor one
\* of another user.
THEOREM NoSupersededLogin == Spec => SupersededRefused
<1> DEFINE A == \A c \in Callers : pc[c] = "connect" /\ pc'[c] = "count" =>
                  token[c] \notin superseded /\ owner[token[c]] = uid[c]
<1>1. Inv /\ [Next]_vars => [A]_vars
  <2> SUFFICES ASSUME Inv, Next, NEW c \in Callers, pc[c] = "connect", pc'[c] = "count"
               PROVE  token[c] \notin superseded /\ owner[token[c]] = uid[c]
    OBVIOUS
  <2>1. Login(c)
    BY DEF Inv, Typed, Next, GetChartServer, ReadFirst, Choose, InsertToken, LoginFails,
       CountLogin, CountLoginAt, Login
  <2> QED
    BY <2>1 DEF Login, Inv, Typed, TokenOfCall, EntryValid
<1> QED
  BY <1>1, InvAlways, PTL DEF Spec, SupersededRefused
-------------------------------------------------------------------------------
(* The counts of the servers.  TypeOK adds to Typed what is counted.       *)

CountsTyped ==
  /\ count_ \in [Servers -> Counts]
  /\ first \in [Callers -> Counts]
  /\ chosen \in [Callers -> Servers]

\* The least element of a set of naturals.
LEMMA LeastOf ==
  ASSUME NEW T, T \subseteq Nat, T # {}
  PROVE  \E m \in T : \A n \in T : m <= n
<1> DEFINE Less == {ss \in Nat \X Nat : ss[1] < ss[2]}
<1>1. IsWellFoundedOn(OpToRel(<, Nat), Nat)
  BY NatLessThanWellFounded
<1>2. OpToRel(<, Nat) = Less
  BY DEF OpToRel
<1>3. IsWellFoundedOn(Less, Nat)
  BY <1>1, <1>2
<1>4. PICK m \in T : \A n \in T : ~(<<n, m>> \in Less)
  <2> HIDE DEF Less
  <2>1. \E m \in T : \A n \in T : ~(<<n, m>> \in Less)
    BY <1>3, WFMin
  <2> QED
    BY <2>1
<1>5. ASSUME NEW n \in T PROVE m <= n
  <2>1. m \in Nat /\ n \in Nat /\ ~(n < m)
    BY <1>4
  <2> QED
    BY <2>1
<1> QED
  BY <1>4, <1>5

\* The loop over the servers ends with a server: with the first, which nothing in it
\* beats, or with one that has the fewest logins.
LEMMA PickChooses ==
  ASSUME NEW n \in Counts, count_ \in [Servers -> Counts]
  PROVE  /\ Pick(n) \in Servers
         /\ \/ Pick(n) = 1 /\ \A s \in Servers : n <= count_[s]
            \/ Cheapest(Pick(n))
<1>1. Counts \subseteq Nat /\ 1 \in Servers /\ Servers \subseteq Nat
  BY ConstantAssumption, WidthAssumption DEF ConstantAssumption, Counts, Servers
<1>2. CASE \A s \in Servers : n <= count_[s]
  BY <1>1, <1>2 DEF Pick
<1>3. CASE ~\A s \in Servers : n <= count_[s]
  <2> DEFINE Low == {count_[s] : s \in Servers}
             Best == {s \in Servers : Cheapest(s)}
  <2>1. Low \subseteq Nat /\ Low # {}
    BY <1>1
  <2>2. PICK k \in Low : \A j \in Low : k <= j
    <3> HIDE DEF Low
    <3> QED
      BY <2>1, LeastOf
  <2>3. Best \subseteq Nat /\ Best # {}
    <3>1. PICK s \in Servers : count_[s] = k
      BY <2>2
    <3>2. Cheapest(s)
      BY <2>2, <3>1 DEF Cheapest
    <3> QED
      BY <1>1, <3>1, <3>2
  <2>4. PICK m \in Best : \A j \in Best : m <= j
    <3> HIDE DEF Best
    <3> QED
      BY <2>3, LeastOf
  <2>5. m \in Servers /\ Cheapest(m) /\ \A r \in Servers : Cheapest(r) => m <= r
    BY <2>4
  <2>6. Pick(n) = CHOOSE s \in Servers : Cheapest(s) /\ \A r \in Servers : Cheapest(r) => s <= r
    BY <1>3 DEF Pick
  <2> HIDE DEF Best, Low
  <2> QED
    BY <2>5, <2>6
<1> QED
  BY <1>2, <1>3

\* One more login, counted in the width of count_.
LEMMA CountUp ==
  ASSUME NEW k \in Counts
  PROVE  /\ (k + 1) % 2^Width \in Counts
         /\ k + 1 < 2^Width => (k + 1) % 2^Width = k + 1
<1> DEFINE W == 2^Width
<1>1. W \in Nat \ {0} /\ k \in 0 .. W - 1
  BY WidthAssumption DEF Counts
<1> HIDE DEF W
<1>2. (k + 1) % W \in 0 .. W - 1 /\ (k + 1 < W => (k + 1) % W = k + 1)
  BY <1>1
<1> QED
  BY <1>2 DEF W, Counts

LEMMA CountsTypedInit == Init => CountsTyped
<1> SUFFICES ASSUME Init PROVE CountsTyped
  OBVIOUS
<1>1. 0 \in Counts /\ 1 \in Servers
  BY ConstantAssumption, WidthAssumption DEF ConstantAssumption, Counts, Servers
<1> QED
  BY <1>1 DEF Init, CountsTyped

\* What a step of a caller does to counts and choices.
LEMMA CountSteps ==
  ASSUME NEW c \in Callers, StatusStep(c)
  PROVE  \/ /\ pc[c] = "idle" /\ pc' = [pc EXCEPT ![c] = "read"]
            /\ UNCHANGED <<count_, first, chosen, issued>>
         \/ /\ pc[c] = "read" /\ pc' = [pc EXCEPT ![c] = "choose"]
            /\ first' = [first EXCEPT ![c] = count_[1]]
            /\ UNCHANGED <<count_, chosen, issued>>
         \/ /\ pc[c] = "choose" /\ pc' = [pc EXCEPT ![c] = "insert"]
            /\ chosen' = [chosen EXCEPT ![c] = Pick(first[c])]
            /\ issued' = issued + 1
            /\ UNCHANGED <<count_, first>>
         \/ /\ pc[c] = "insert" /\ pc' = [pc EXCEPT ![c] = "connect"]
            /\ UNCHANGED <<count_, first, chosen, issued>>
         \/ /\ pc[c] = "connect" /\ pc' = [pc EXCEPT ![c] = "count"]
            /\ UNCHANGED <<count_, first, chosen, issued>>
         \/ /\ pc[c] = "connect" /\ pc' = [pc EXCEPT ![c] = "idle"]
            /\ UNCHANGED <<count_, first, chosen, issued>>
         \/ /\ pc[c] = "count" /\ pc' = [pc EXCEPT ![c] = "idle"]
            /\ \E s \in Servers :
                 count_' = [count_ EXCEPT ![s] = (count_[s] + 1) % 2^Width] /\ CountLoginAt(c, s)
            /\ UNCHANGED <<first, chosen, issued>>
  BY DEF StatusStep, GetChartServer, ReadFirst, Choose, InsertToken, Login, LoginFails,
     CountLoginAt

LEMMA CountsTypedStep ==
  ASSUME CountsTyped, NEW c \in Callers, StatusStep(c)
  PROVE  CountsTyped'
<1>1. 1 \in Servers /\ count_ \in [Servers -> Counts] /\ first \in [Callers -> Counts]
      /\ chosen \in [Callers -> Servers]
  BY ConstantAssumption DEF ConstantAssumption, Servers, CountsTyped
<1>2. Pick(first[c]) \in Servers
  BY <1>1, PickChooses
<1>3. \A k \in Counts : (k + 1) % 2^Width \in Counts
  BY CountUp
<1>4. /\ first' = first \/ first' = [first EXCEPT ![c] = count_[1]]
      /\ chosen' = chosen \/ chosen' = [chosen EXCEPT ![c] = Pick(first[c])]
      /\ \/ count_' = count_
         \/ \E s \in Servers : count_' = [count_ EXCEPT ![s] = (count_[s] + 1) % 2^Width]
  BY CountSteps
<1>5. first' \in [Callers -> Counts] /\ chosen' \in [Callers -> Servers]
  BY <1>1, <1>2, <1>4
<1>6. count_' \in [Servers -> Counts]
  BY <1>1, <1>3, <1>4
<1> QED
  BY <1>5, <1>6 DEF CountsTyped

\* The state has its types: counts keep to their width, and the server a caller is
\* given exists, whatever the unlocked copy of the first one says.
THEOREM StatusTypes == Spec => []TypeOK
<1>1. Init => Typed /\ CountsTyped
  BY InvInit, CountsTypedInit DEF Inv
<1>2. Typed /\ CountsTyped => TypeOK
  BY DEF Typed, CountsTyped, TypeOK
<1>3. CountsTyped /\ [Next]_vars => CountsTyped'
  <2> SUFFICES ASSUME CountsTyped, [Next]_vars PROVE CountsTyped'
    OBVIOUS
  <2>1. CASE UNCHANGED vars
    BY <2>1 DEF vars, CountsTyped
  <2>2. CASE Next
    <3>1. CountsTyped => chosen \in [Callers -> Servers]
      BY DEF CountsTyped
    <3>2. PICK c \in Callers : StatusStep(c)
      BY <2>2, <3>1, NextIsStatusStep
    <3> QED
      BY <3>2, CountsTypedStep
  <2> QED
    BY <2>1, <2>2
<1>4. Inv => Typed
  BY DEF Inv
<1> QED
  BY <1>1, <1>2, <1>3, <1>4, InvAlways, PTL DEF Spec
-------------------------------------------------------------------------------
(* The balance of the counts.  A login that was given out and not counted  *)
(* yet is a debt of its server.  A server other than the first is chosen   *)
(* only when nobody counts fewer, so that all debts together fit           *)
(* (LaterBounded).  The first may also be chosen by callers that copied    *)
(* its count some time ago: such a copy is a debt to every count it does   *)
(* not exceed (FirstBounded).                                              *)

Given(s) == {c \in Callers : pc[c] \in {"insert", "connect", "count"} /\ chosen[c] = s}
Copied(k) == {c \in Callers : pc[c] = "choose" /\ first[c] <= k}

Uncounted(s) == Cardinality(Given(s))

\* A count never wraps around: every login counted or given out has its token.
Counted == \A s \in Servers : count_[s] + Uncounted(s) <= issued

LaterBounded ==
  \A s \in Servers \ {1}, r \in Servers :
    count_[s] + Uncounted(s) <= count_[r] + Cardinality(Callers)

FirstBounded ==
  \A k \in Counts : (\E r \in Servers : count_[r] <= k) =>
    count_[1] + Cardinality(Given(1) \cup Copied(k)) <= k + Cardinality(Callers)

Balance == Counted /\ LaterBounded /\ FirstBounded

\* The sizes of sets of callers.
LEMMA CallerSets ==
  ASSUME IsFiniteSet(Callers), NEW S \in SUBSET Callers, NEW T \in SUBSET Callers, NEW c \in Callers
  PROVE  /\ Cardinality(S) \in Nat /\ Cardinality(S) <= Cardinality(Callers)
         /\ S \subseteq T => Cardinality(S) <= Cardinality(T)
         /\ S \subseteq T \cup {c} => Cardinality(S) <= Cardinality(T) + 1
         /\ S \subseteq T \ {c} /\ c \in T => Cardinality(S) + 1 <= Cardinality(T)
<1>1. IsFiniteSet(S) /\ IsFiniteSet(T) /\ Cardinality(S) <= Cardinality(Callers)
  BY FS_Subset
<1>2. /\ Cardinality(S) \in Nat /\ Cardinality(T) \in Nat
      /\ IsFiniteSet(T \cup {c}) /\ IsFiniteSet(T \ {c})
      /\ Cardinality(T \cup {c}) <= Cardinality(T) + 1
      /\ c \in T => Cardinality(T \ {c}) = Cardinality(T) - 1
  BY SMTT(30), <1>1, FS_CardinalityType, FS_AddElement, FS_RemoveElement
<1>3. S \subseteq T => Cardinality(S) <= Cardinality(T)
  BY <1>1, FS_Subset
<1>4. S \subseteq T \cup {c} => Cardinality(S) <= Cardinality(T \cup {c})
  BY <1>2, FS_Subset
<1>5. S \subseteq T \ {c} => Cardinality(S) <= Cardinality(T \ {c})
  BY <1>2, FS_Subset
<1>6. Cardinality(T \ {c}) \in Nat /\ Cardinality(T \cup {c}) \in Nat
  BY <1>2, FS_CardinalityType
<1> QED
  BY <1>1, <1>2, <1>3, <1>4, <1>5, <1>6

LEMMA BalanceInit == ASSUME IsFiniteSet(Callers), Init PROVE Balance
<1>1. \A s \in Servers : Given(s) = {} /\ count_[s] = 0
  BY DEF Init, Given
<1>2. \A k \in Counts : Copied(k) = {}
  BY DEF Init, Copied
<1>3. Cardinality({}) = 0 /\ Cardinality(Callers) \in Nat /\ 1 \in Servers /\ issued = 0
      /\ Counts \subseteq Nat
  BY FS_EmptySet, FS_CardinalityType, ConstantAssumption, WidthAssumption
     DEF Init, ConstantAssumption, Servers, Counts
<1>4. Counted /\ LaterBounded
  <2>1. \A s \in Servers : Uncounted(s) = 0 /\ count_[s] = 0
    BY <1>1, <1>3 DEF Uncounted
  <2> QED
    BY <1>3, <2>1 DEF Counted, LaterBounded
<1>5. FirstBounded
  <2> SUFFICES ASSUME NEW k \in Counts
               PROVE  count_[1] + Cardinality(Given(1) \cup Copied(k)) <= k + Cardinality(Callers)
    BY DEF FirstBounded
  <2>1. Given(1) \cup Copied(k) = {}
    BY <1>1, <1>2, <1>3
  <2>2. Cardinality(Given(1) \cup Copied(k)) = 0
    BY <1>3, <2>1
  <2>3. count_[1] = 0 /\ k \in Nat
    BY <1>1, <1>3
  <2> QED
    BY <1>3, <2>2, <2>3
<1> QED
  BY <1>4, <1>5 DEF Balance

\* There are finitely many callers, and no more logins than count_ can count.
Bounded == MaxTokens < 2^Width /\ IsFiniteSet(Callers)

BalInv == Inv /\ CountsTyped /\ Balance

\* What the steps do to the counts, with a caller that counts for its own server.
StepAt(c) ==
  \/ /\ pc[c] \in {"idle", "connect"} /\ pc' = [pc EXCEPT ![c] = IF pc[c] = "idle" THEN "read" ELSE "idle"]
     /\ UNCHANGED <<count_, first, chosen, issued>>
  \/ /\ pc[c] \in {"insert", "connect"}
     /\ pc' = [pc EXCEPT ![c] = IF pc[c] = "insert" THEN "connect" ELSE "count"]
     /\ UNCHANGED <<count_, first, chosen, issued>>
  \/ /\ pc[c] = "read" /\ pc' = [pc EXCEPT ![c] = "choose"]
     /\ first' = [first EXCEPT ![c] = count_[1]]
     /\ UNCHANGED <<count_, chosen, issued>>
  \/ /\ pc[c] = "choose" /\ pc' = [pc EXCEPT ![c] = "insert"]
     /\ chosen' = [chosen EXCEPT ![c] = Pick(first[c])]
     /\ issued' = issued + 1
     /\ UNCHANGED <<count_, first>>
  \/ /\ pc[c] = "count" /\ pc' = [pc EXCEPT ![c] = "idle"]
     /\ count_' = [count_ EXCEPT ![chosen[c]] = (count_[chosen[c]] + 1) % 2^Width]
     /\ UNCHANGED <<first, chosen, issued>>

LEMMA BalanceStep ==
  ASSUME Bounded, BalInv, NEW c \in Callers, StepAt(c)
  PROVE  Balance'
<1> DEFINE N == Cardinality(Callers)
<1>1. /\ 1 \in Servers /\ count_ \in [Servers -> Counts] /\ first \in [Callers -> Counts]
      /\ chosen \in [Callers -> Servers] /\ pc \in [Callers -> PCs] /\ issued \in Nat
      /\ issued <= MaxTokens /\ Counts \subseteq Nat /\ N \in Nat /\ MaxTokens \in Nat
  <2>1. IsFiniteSet(Callers) => N \in Nat
    BY FS_CardinalityType
  <2> QED
    BY <2>1, ConstantAssumption, WidthAssumption
    DEF ConstantAssumption, Servers, CountsTyped, BalInv, Inv, Typed, Bounded, Counts
<1> HIDE DEF N
<1>2. \A s \in Servers : /\ Given(s) \in SUBSET Callers /\ Given(s)' \in SUBSET Callers
                         /\ Uncounted(s) \in Nat /\ Uncounted(s)' \in Nat
                         /\ Uncounted(s) <= N /\ Uncounted(s)' <= N
  <2>1. \A s \in Servers : Given(s) \in SUBSET Callers /\ Given(s)' \in SUBSET Callers
    BY DEF Given
  <2> QED
    BY <2>1, CallerSets DEF Bounded, Uncounted, N
<1>3. \A k \in Counts : /\ Given(1) \cup Copied(k) \in SUBSET Callers
                        /\ Given(1)' \cup Copied(k)' \in SUBSET Callers
                        /\ Cardinality(Given(1) \cup Copied(k)) \in Nat
                        /\ Cardinality(Given(1)' \cup Copied(k)') \in Nat
                        /\ Cardinality(Given(1) \cup Copied(k)) <= N
                        /\ Cardinality(Given(1)' \cup Copied(k)') <= N
  <2>1. \A k \in Counts : /\ Given(1) \cup Copied(k) \in SUBSET Callers
                          /\ Given(1)' \cup Copied(k)' \in SUBSET Callers
    BY DEF Given, Copied
  <2> QED
    BY <2>1, CallerSets DEF Bounded, N
<1>4. /\ \A s \in Servers : count_[s] + Uncounted(s) <= issued
      /\ \A s \in Servers \ {1}, r \in Servers : count_[s] + Uncounted(s) <= count_[r] + N
      /\ \A k \in Counts : (\E r \in Servers : count_[r] <= k) =>
           count_[1] + Cardinality(Given(1) \cup Copied(k)) <= k + N
  BY DEF BalInv, Balance, Counted, LaterBounded, FirstBounded, N
<1> SUFFICES /\ \A s \in Servers : count_'[s] + Uncounted(s)' <= issued'
             /\ \A s \in Servers \ {1}, r \in Servers : count_'[s] + Uncounted(s)' <= count_'[r] + N
             /\ \A k \in Counts : (\E r \in Servers : count_'[r] <= k) =>
                  count_'[1] + Cardinality(Given(1)' \cup Copied(k)') <= k + N
  BY DEF Balance, Counted, LaterBounded, FirstBounded, N
<1>5. CASE /\ pc[c] \in {"idle", "connect", "insert"} /\ pc'[c] \notin {"insert", "choose"}
           /\ pc' = [pc EXCEPT ![c] = pc'[c]]
           /\ pc[c] = "idle" => pc'[c] = "read"
           /\ UNCHANGED <<count_, first, chosen, issued>>
  <2>1. \A s \in Servers : Given(s)' \subseteq Given(s)
    BY <1>1, <1>5 DEF Given
  <2>2. \A s \in Servers : Uncounted(s)' <= Uncounted(s)
    BY <1>2, <2>1, CallerSets DEF Bounded, Uncounted
  <2>3. \A k \in Counts : Given(1)' \cup Copied(k)' \subseteq Given(1) \cup Copied(k)
    BY <1>1, <1>5 DEF Given, Copied
  <2>4. \A k \in Counts : Cardinality(Given(1)' \cup Copied(k)') <= Cardinality(Given(1) \cup Copied(k))
    BY <1>3, <2>3, CallerSets DEF Bounded
  <2>5. \A s \in Servers : count_[s] \in Nat
    BY <1>1
  <2>6. \A s \in Servers : count_'[s] + Uncounted(s)' <= issued'
    BY <1>1, <1>2, <1>4, <1>5, <2>2, <2>5
  <2>7. \A s \in Servers \ {1}, r \in Servers : count_'[s] + Uncounted(s)' <= count_'[r] + N
    BY <1>1, <1>2, <1>4, <1>5, <2>2, <2>5
  <2>8. ASSUME NEW k \in Counts, NEW r \in Servers, count_'[r] <= k
        PROVE  count_'[1] + Cardinality(Given(1)' \cup Copied(k)') <= k + N
    <3>1. count_[1] + Cardinality(Given(1) \cup Copied(k)) <= k + N
      BY <1>4, <1>5, <2>8
    <3>2. k \in Nat /\ count_[1] \in Nat /\ count_'[1] = count_[1]
      BY <1>1, <1>5, <2>5
    <3>3. /\ Cardinality(Given(1) \cup Copied(k)) \in Nat
          /\ Cardinality(Given(1)' \cup Copied(k)') \in Nat
          /\ Cardinality(Given(1)' \cup Copied(k)') <= Cardinality(Given(1) \cup Copied(k))
      BY <1>3, <2>4
    <3> QED
      BY <1>1, <3>1, <3>2, <3>3
  <2> QED
    BY <2>6, <2>7, <2>8
<1>6. CASE /\ pc[c] = "read" /\ pc' = [pc EXCEPT ![c] = "choose"]
           /\ first' = [first EXCEPT ![c] = count_[1]]
           /\ UNCHANGED <<count_, chosen, issued>>
  <2>1. \A s \in Servers : Given(s)' \subseteq Given(s)
    BY <1>1, <1>6 DEF Given
  <2>2. \A s \in Servers : Uncounted(s)' <= Uncounted(s)
    BY <1>2, <2>1, CallerSets DEF Bounded, Uncounted
  <2>3. \A s \in Servers : count_[s] \in Nat
    BY <1>1
  <2>4. ASSUME NEW k \in Counts, \E r \in Servers : count_[r] <= k
        PROVE  count_[1] + Cardinality(Given(1)' \cup Copied(k)') <= k + N
    <3>0. k \in Nat /\ count_[1] \in Nat
      BY <1>1, <2>3
    <3>1. CASE count_[1] <= k
      <4>1. /\ Cardinality(Given(1)' \cup Copied(k)') \in Nat
            /\ Cardinality(Given(1)' \cup Copied(k)') <= N
        BY <1>3
      <4> QED
        BY <1>1, <3>0, <3>1, <4>1
    <3>2. CASE ~(count_[1] <= k)
      <4>1. Given(1)' \cup Copied(k)' \subseteq Given(1) \cup Copied(k)
        BY <1>1, <1>6, <3>2 DEF Given, Copied
      <4>2. Cardinality(Given(1)' \cup Copied(k)') <= Cardinality(Given(1) \cup Copied(k))
        BY <1>3, <4>1, CallerSets DEF Bounded
      <4> QED
        BY <1>1, <1>3, <1>4, <2>4, <3>0, <4>2
    <3> QED
      BY <3>1, <3>2
  <2> QED
    BY <1>1, <1>2, <1>4, <1>6, <2>2, <2>3, <2>4
<1>7. CASE /\ pc[c] = "choose" /\ pc' = [pc EXCEPT ![c] = "insert"]
           /\ chosen' = [chosen EXCEPT ![c] = Pick(first[c])]
           /\ issued' = issued + 1
           /\ UNCHANGED <<count_, first>>
  <2> DEFINE p == Pick(first[c])
  <2>1. /\ p \in Servers
        /\ \/ p = 1 /\ \A s \in Servers : first[c] <= count_[s]
           \/ \A r \in Servers : count_[p] <= count_[r]
    BY <1>1, PickChooses DEF Cheapest
  <2> HIDE DEF p
  <2>2. \A s \in Servers : Given(s)' \subseteq Given(s) \cup {c} /\ (s # p => Given(s)' \subseteq Given(s))
    BY <1>1, <1>7, <2>1 DEF Given, p
  <2>3. \A s \in Servers : /\ Uncounted(s)' <= Uncounted(s) + 1
                           /\ s # p => Uncounted(s)' <= Uncounted(s)
    BY <1>2, <2>2, CallerSets DEF Bounded, Uncounted
  <2>4. \A s \in Servers : count_[s] \in Nat
    BY <1>1
  <2>5. \A s \in Servers : count_'[s] + Uncounted(s)' <= issued'
    BY <1>1, <1>2, <1>4, <1>7, <2>3, <2>4
  <2>6. ASSUME NEW s \in Servers \ {1}, NEW r \in Servers
        PROVE  count_'[s] + Uncounted(s)' <= count_'[r] + N
    <3>1. /\ count_'[s] = count_[s] /\ count_'[r] = count_[r]
          /\ count_[s] \in Nat /\ count_[r] \in Nat
          /\ count_[s] + Uncounted(s) <= count_[r] + N
      BY <1>4, <1>7, <2>4
    <3>2. Uncounted(s) \in Nat /\ Uncounted(s)' \in Nat /\ Uncounted(s)' <= N
      BY <1>2
    <3>3. CASE s = p
      <4>1. count_[s] <= count_[r]
        BY <2>1, <3>3
      <4> QED
        BY <1>1, <3>1, <3>2, <4>1
    <3>4. CASE s # p
      <4>1. Uncounted(s)' <= Uncounted(s)
        BY <2>3, <3>4
      <4> QED
        BY <1>1, <3>1, <3>2, <4>1
    <3> QED
      BY <3>3, <3>4
  <2>7. ASSUME NEW k \in Counts, NEW r \in Servers, count_[r] <= k
        PROVE  count_[1] + Cardinality(Given(1)' \cup Copied(k)') <= k + N
    <3>0. k \in Nat /\ count_[1] \in Nat
      BY <1>1, <2>4
    <3>1. CASE count_[1] <= k
      <4>1. /\ Cardinality(Given(1)' \cup Copied(k)') \in Nat
            /\ Cardinality(Given(1)' \cup Copied(k)') <= N
        BY <1>3
      <4> QED
        BY <1>1, <3>0, <3>1, <4>1
    <3>2. CASE ~(count_[1] <= k)
      <4>1. p = 1 => first[c] <= k
        <5>1. first[c] \in Nat /\ count_[r] \in Nat
          BY <1>1, <2>4
        <5>2. CASE \A s \in Servers : first[c] <= count_[s]
          BY <2>7, <3>0, <5>1, <5>2
        <5>3. CASE p = 1 /\ \A q \in Servers : count_[p] <= count_[q]
          <6>1. count_[1] <= count_[r]
            BY <5>3
          <6> QED
            BY <2>7, <3>0, <3>2, <5>1, <6>1
        <5> QED
          BY <2>1, <5>2, <5>3
      <4>2. Given(1)' \cup Copied(k)' \subseteq Given(1) \cup Copied(k)
        BY <1>1, <1>7, <4>1 DEF Given, Copied, p
      <4>3. Cardinality(Given(1)' \cup Copied(k)') <= Cardinality(Given(1) \cup Copied(k))
        BY <1>3, <4>2, CallerSets DEF Bounded
      <4> QED
        BY <1>1, <1>3, <1>4, <2>7, <3>0, <4>3
    <3> QED
      BY <3>1, <3>2
  <2> QED
    BY <1>7, <2>5, <2>6, <2>7
<1>8. CASE /\ pc[c] = "count" /\ pc' = [pc EXCEPT ![c] = "idle"]
           /\ count_' = [count_ EXCEPT ![chosen[c]] = (count_[chosen[c]] + 1) % 2^Width]
           /\ UNCHANGED <<first, chosen, issued>>
  <2>0. PICK h \in Servers : h = chosen[c]
    BY <1>1
  <2>1. c \in Given(h) /\ \A s \in Servers : Given(s)' \subseteq Given(s)
    BY <1>1, <1>8, <2>0 DEF Given
  <2>2. Given(h)' \subseteq Given(h) \ {c}
    BY <1>1, <1>8, <2>0 DEF Given
  <2>3. \A s \in Servers : Uncounted(s)' <= Uncounted(s)
    BY <1>2, <2>1, CallerSets DEF Bounded, Uncounted
  <2>4. Uncounted(h)' + 1 <= Uncounted(h)
    BY <1>2, <2>1, <2>2, CallerSets DEF Bounded, Uncounted
  <2>5. \A s \in Servers : count_[s] \in Nat
    BY <1>1
  <2>6. count_[h] + 1 <= MaxTokens
    BY <1>1, <1>2, <1>4, <2>4, <2>5
  <2>7. (count_[h] + 1) % 2^Width = count_[h] + 1
    <3> DEFINE W == 2^Width
    <3>1. W \in Nat /\ MaxTokens < W
      BY WidthAssumption DEF Bounded
    <3>2. count_[h] + 1 < W
      <4> HIDE DEF W
      <4> QED
        BY <1>1, <2>5, <2>6, <3>1
    <3> QED
      BY <1>1, <3>2, CountUp
  <2>8. count_'[h] = count_[h] + 1 /\ \A s \in Servers \ {h} : count_'[s] = count_[s]
    BY <1>1, <1>8, <2>0, <2>7
  <2>9. \A s \in Servers : count_'[s] + Uncounted(s)' <= issued'
    BY <1>1, <1>2, <1>4, <1>8, <2>3, <2>4, <2>5, <2>8
  <2>10. ASSUME NEW s \in Servers \ {1}, NEW r \in Servers
         PROVE  count_'[s] + Uncounted(s)' <= count_'[r] + N
    <3>1. count_'[s] + Uncounted(s)' <= count_[s] + Uncounted(s)
      BY <1>2, <2>3, <2>4, <2>5, <2>8
    <3>2. count_[r] <= count_'[r] /\ count_'[r] \in Nat /\ count_'[s] \in Nat
      BY <2>5, <2>8
    <3> QED
      BY <1>1, <1>2, <1>4, <2>5, <3>1, <3>2
  <2>11. ASSUME NEW k \in Counts, NEW r \in Servers, count_'[r] <= k
         PROVE  count_'[1] + Cardinality(Given(1)' \cup Copied(k)') <= k + N
    <3>1. count_[r] <= k
      BY <1>1, <2>5, <2>8, <2>11
    <3>2. count_[1] + Cardinality(Given(1) \cup Copied(k)) <= k + N
      BY <1>4, <3>1
    <3>3. Given(1)' \cup Copied(k)' \subseteq Given(1) \cup Copied(k)
      BY <1>1, <1>8 DEF Given, Copied
    <3>4. h = 1 => /\ c \in Given(1) \cup Copied(k)
                   /\ Given(1)' \cup Copied(k)' \subseteq (Given(1) \cup Copied(k)) \ {c}
      <4>1. c \notin Copied(k)' /\ Copied(k)' \subseteq Copied(k)
        BY <1>1, <1>8 DEF Copied
      <4> QED
        BY <2>1, <2>2, <4>1
    <3>5. Cardinality(Given(1)' \cup Copied(k)') <= Cardinality(Given(1) \cup Copied(k))
      BY <1>3, <3>3, CallerSets DEF Bounded
    <3>6. h = 1 => Cardinality(Given(1)' \cup Copied(k)') + 1 <= Cardinality(Given(1) \cup Copied(k))
      BY <1>3, <3>4, CallerSets DEF Bounded
    <3> QED
      BY <1>1, <1>3, <2>5, <2>8, <3>2, <3>5, <3>6
  <2> QED
    BY <2>9, <2>10, <2>11
<1> QED
  BY <1>1, <1>5, <1>6, <1>7, <1>8 DEF StepAt

\* While there are no more logins than count_ can count, two counts never differ by
\* more than the number of callers, however old the unlocked copies of the first
\* server's count and however late the logins are counted.
THEOREM ImbalanceBounded == ASSUME Bounded PROVE Spec => []BoundedImbalance
<1>1. Init => BalInv
  BY InvInit, CountsTypedInit, BalanceInit DEF BalInv, Bounded
<1>2. BalInv /\ [Next]_vars => BalInv'
  <2> SUFFICES ASSUME BalInv, [Next]_vars PROVE BalInv'
    OBVIOUS
  <2>1. Inv'
    BY InvNext DEF BalInv
  <2>2. CASE UNCHANGED vars
    <3>1. CountsTyped' /\ Counted' /\ LaterBounded' /\ FirstBounded'
      BY <2>2 DEF BalInv, Balance, vars, CountsTyped, Counted, LaterBounded, FirstBounded,
         Uncounted, Given, Copied
    <3> QED
      BY <2>1, <3>1 DEF BalInv, Balance
  <2>3. CASE Next
    <3>1. chosen \in [Callers -> Servers] /\ CountsTyped
      BY DEF BalInv, CountsTyped
    <3>2. PICK c \in Callers :
            \/ \E u \in Users : GetChartServer(c, u)
            \/ ReadFirst(c) \/ Choose(c) \/ InsertToken(c)
            \/ Login(c) \/ LoginFails(c) \/ CountLoginAt(c, chosen[c])
      BY <2>3 DEF Next, CountLogin
    <3>3. CountsTyped'
      BY <2>3, <3>1, NextIsStatusStep, CountsTypedStep
    <3>4. StepAt(c)
      BY <3>2 DEF StepAt, GetChartServer, ReadFirst, Choose, InsertToken, Login, LoginFails,
         CountLoginAt
    <3>5. Balance'
      BY <3>4, BalanceStep
    <3> QED
      BY <2>1, <3>3, <3>5 DEF BalInv
  <2> QED
    BY <2>2, <2>3
<1>3. BalInv => BoundedImbalance
  <2> SUFFICES ASSUME BalInv, NEW s \in Servers, NEW r \in Servers
               PROVE  count_[s] <= count_[r] + Cardinality(Callers)
    BY DEF BoundedImbalance
  <2>1. /\ count_[s] \in Nat /\ count_[r] \in Counts /\ count_[r] \in Nat /\ 1 \in Servers
    BY ConstantAssumption, WidthAssumption
    DEF ConstantAssumption, Servers, BalInv, CountsTyped, Counts
  <2>2. Given(1) \cup Copied(count_[r]) \in SUBSET Callers /\ Given(s) \in SUBSET Callers
    BY DEF Given, Copied
  <2>3. /\ Cardinality(Given(1) \cup Copied(count_[r])) \in Nat
        /\ Uncounted(s) \in Nat /\ Cardinality(Callers) \in Nat
    BY <2>2, FS_Subset, FS_CardinalityType DEF Uncounted, Bounded
  <2>4. CASE s = 1
    <3>1. count_[r] <= count_[r]
      BY <2>1
    <3>2. count_[1] + Cardinality(Given(1) \cup Copied(count_[r])) <= count_[r] + Cardinality(Callers)
      BY <2>1, <3>1 DEF BalInv, Balance, FirstBounded
    <3> QED
      BY <2>1, <2>3, <2>4, <3>2
  <2>5. CASE s # 1
    BY <2>1, <2>3, <2>5 DEF BalInv, Balance, LaterBounded
  <2> QED
    BY <2>4, <2>5
<1> QED
  BY <1>1, <1>2, <1>3, PTL DEF Spec
===============================================================================
