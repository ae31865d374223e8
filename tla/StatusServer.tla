----------------------------- MODULE StatusServer -----------------------------
(***************************************************************************)
(* The StatusServer (src/server/src/StatusServer/StatusServer.cpp): it     *)
(* hands a client the chat server with the fewest logins and a token, and  *)
(* checks the token when the chat server asks.  gRPC runs the calls on its *)
(* own threads, so the critical sections of different calls interleave.    *)
(* A caller is one client program: it logs in at the gateway, which calls  *)
(* GetChartServer, then connects to the chat server, which calls Login.    *)
(***************************************************************************)
EXTENDS Naturals, FiniteSets

CONSTANTS
  Callers,    \* the client programs
  Users,      \* the user ids
  NServers,   \* the number of chat servers; the code has two
  Width,      \* the width in bits of count_; the code has 32
  MaxTokens   \* bound: number of GetChartServer calls

ASSUME ConstantAssumption ==
  /\ Users # {}
  /\ NServers \in Nat \ {0} /\ Width \in Nat /\ MaxTokens \in Nat

\* It follows from the type of Width, but the provers know nothing of powers.
ASSUME WidthAssumption == 2^Width \in Nat \ {0}

Servers == 1..NServers
Tokens  == 1..MaxTokens
NoToken == 0
Counts  == 0 .. 2^Width - 1

VARIABLES
  session_,   \* the map uid -> token, NoToken where there is no entry
  count_,     \* the logins counted per server
  pc, uid,    \* per caller: what its call does next, and for which user
  first,      \* per caller: the copy of servers_[0].count_ taken without lock
  chosen,     \* per caller: the server it was given
  token,      \* per caller: the token it was given
  issued,     \* the number of tokens generated
  owner,      \* history: the user each token was generated for
  returned,   \* history: the tokens whose GetChartServer has returned
  superseded  \* history: returned tokens whose user began a later call

vars == <<session_, count_, pc, uid, first, chosen, token, issued, owner,
          returned, superseded>>

PCs == {"idle", "read", "choose", "insert", "connect", "count"}

TypeOK ==
  /\ session_ \in [Users -> Tokens \cup {NoToken}]
  /\ count_ \in [Servers -> Counts]
  /\ pc \in [Callers -> PCs]
  /\ uid \in [Callers -> Users]
  /\ first \in [Callers -> Counts]
  /\ chosen \in [Callers -> Servers]
  /\ token \in [Callers -> Tokens \cup {NoToken}]
  /\ issued \in Tokens \cup {0}
  /\ owner \in [Tokens -> Users]
  /\ returned \in SUBSET Tokens /\ superseded \in SUBSET Tokens

\* The values of uid, first, chosen and owner mean nothing before they are set.
Init ==
  /\ session_ = [u \in Users |-> NoToken]
  /\ count_ = [s \in Servers |-> 0]
  /\ pc = [c \in Callers |-> "idle"]
  /\ uid = [c \in Callers |-> CHOOSE u \in Users : TRUE]
  /\ first = [c \in Callers |-> 0]
  /\ chosen = [c \in Callers |-> 1]
  /\ token = [c \in Callers |-> NoToken]
  /\ issued = 0
  /\ owner = [t \in Tokens |-> CHOOSE u \in Users : TRUE]
  /\ returned = {} /\ superseded = {}

Goto(c, label) == pc' = [pc EXCEPT ![c] = label]

\* Mutant: the old token is kept.
GetChartServer_Keeps(c, u) ==
  /\ pc[c] = "idle" /\ issued < MaxTokens
  /\ uid' = [uid EXCEPT ![c] = u]
  /\ superseded' = superseded \cup {t \in returned : owner[t] = u}
  /\ Goto(c, "read")
  /\ UNCHANGED <<session_, count_, first, chosen, token, issued, owner, returned>>

\* GetChartServer, first critical section: the user's old token is erased.
GetChartServer(c, u) ==
  /\ pc[c] = "idle" /\ issued < MaxTokens
  /\ uid' = [uid EXCEPT ![c] = u]
  /\ session_' = [session_ EXCEPT ![u] = NoToken]
  /\ superseded' = superseded \cup {t \in returned : owner[t] = u}
  /\ Goto(c, "read")
  /\ UNCHANGED <<count_, first, chosen, token, issued, owner, returned>>

\* The copy of servers_[0], which takes no lock.
ReadFirst(c) ==
  /\ pc[c] = "read"
  /\ first' = [first EXCEPT ![c] = count_[1]]
  /\ Goto(c, "choose")
  /\ UNCHANGED <<session_, count_, uid, chosen, token, issued, owner, returned, superseded>>

Cheapest(s) == \A r \in Servers : count_[s] <= count_[r]

\* Mutant: the loop compares the wrong way round.
Pick_Most(n) ==
  IF \A s \in Servers : n >= count_[s] THEN 1
  ELSE CHOOSE s \in Servers : \A r \in Servers : count_[s] >= count_[r]

\* Mutant: the servers are numbered from 0.
Pick_FromZero(n) ==
  IF \A s \in Servers : n <= count_[s] THEN 0
  ELSE CHOOSE s \in Servers : Cheapest(s) /\ \A r \in Servers : Cheapest(r) => s <= r

\* What the loop over servers_ ends with: the copy of the first server, unless a
\* server counts fewer logins than that copy; then the first with the fewest.
Pick(n) ==
  IF \A s \in Servers : n <= count_[s] THEN 1
  ELSE CHOOSE s \in Servers : Cheapest(s) /\ \A r \in Servers : Cheapest(r) => s <= r

\* The loop under servers_mutex_, then generate_unique_string.
Choose(c) ==
  /\ pc[c] = "choose" /\ issued < MaxTokens
  /\ chosen' = [chosen EXCEPT ![c] = Pick(first[c])]
  /\ issued' = issued + 1
  /\ token' = [token EXCEPT ![c] = issued']
  /\ owner' = [owner EXCEPT ![issued'] = uid[c]]
  /\ Goto(c, "insert")
  /\ UNCHANGED <<session_, count_, uid, first, returned, superseded>>

\* insertToken, which leaves an entry that is there, and the return.
InsertToken(c) ==
  /\ pc[c] = "insert"
  /\ session_' = [session_ EXCEPT ![uid[c]] = IF @ = NoToken THEN token[c] ELSE @]
  /\ returned' = returned \cup {token[c]}
  /\ Goto(c, "connect")
  /\ UNCHANGED <<count_, uid, first, chosen, token, issued, owner, superseded>>

\* Mutant: the login consumes the token.
Login_Consumes(c) ==
  /\ pc[c] = "connect"
  /\ session_[uid[c]] = token[c]
  /\ session_' = [session_ EXCEPT ![uid[c]] = NoToken]
  /\ Goto(c, "count")
  /\ UNCHANGED <<count_, uid, first, chosen, token, issued, owner, returned, superseded>>

\* Login, first critical section: the token must be the user's.
Login(c) ==
  /\ pc[c] = "connect"
  /\ session_[uid[c]] = token[c]
  /\ Goto(c, "count")
  /\ UNCHANGED <<session_, count_, uid, first, chosen, token, issued, owner, returned, superseded>>

\* It is not: the call is CANCELLED.  Or the client never gets to connect.
LoginFails(c) ==
  /\ pc[c] = "connect"
  /\ Goto(c, "idle")
  /\ UNCHANGED <<session_, count_, uid, first, chosen, token, issued, owner, returned, superseded>>

\* Login, second critical section: the login is counted for the server that asks;
\* nothing uncounts it.
CountLoginAt(c, s) ==
  /\ pc[c] = "count"
  /\ count_' = [count_ EXCEPT ![s] = (@ + 1) % 2^Width]
  /\ Goto(c, "idle")
  /\ UNCHANGED <<session_, uid, first, chosen, token, issued, owner, returned, superseded>>

CountLogin(c) == CountLoginAt(c, chosen[c])

Next ==
  \E c \in Callers :
    \/ \E u \in Users : GetChartServer(c, u)
    \/ ReadFirst(c) \/ Choose(c) \/ InsertToken(c)
    \/ Login(c) \/ LoginFails(c) \/ CountLogin(c)

Spec == Init /\ [][Next]_vars

-------------------------------------------------------------------------------
\* A call of GetChartServer for user u is between its erase and its insert.
InFlight(u) == \E c \in Callers : uid[c] = u /\ pc[c] \in {"read", "choose", "insert"}

\* Once no call for a user is in flight, the token the StatusServer accepts is one
\* that was given out for that user and that no later call superseded: concurrent
\* logins of a user never leave it with no valid token or with a dead one, although
\* the erase and the insert are two critical sections and insert keeps an entry.
FreshTokenValid ==
  \A u \in Users :
    (\E t \in returned : owner[t] = u) /\ ~InFlight(u) =>
      session_[u] \in {t \in returned \ superseded : owner[t] = u}

\* A login is only counted for a caller whose token was given out for its user, and
\* at the time it was accepted no later call had begun: a superseded token is
\* never accepted, however the calls of two clients of the user interleave.
SupersededRefused ==
  [][\A c \in Callers :
       pc[c] = "connect" /\ pc'[c] = "count" =>
         token[c] \notin superseded /\ owner[token[c]] = uid[c]]_vars

\* The unlocked copy of servers_[0] and the logins not yet counted upset the balance
\* by no more than the callers there are: two counts never differ by more.
BoundedImbalance ==
  \A s, r \in Servers : count_[s] <= count_[r] + Cardinality(Callers)
===============================================================================
