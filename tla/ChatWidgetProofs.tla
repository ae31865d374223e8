--------------------------- MODULE ChatWidgetProofs ---------------------------
(***************************************************************************)
(* Proofs about ChatWidget, for any number of users, messages, requests in *)
(* flight and apply items: the state has its types, every answer finds the *)
(* label or closure that waits for it, no item that is waited for has been *)
(* deleted, the chat page shows the messages with its user, and a friend   *)
(* request goes to the user who was shown.                                 *)
(*                                                                         *)
(* AnswersMatch compares the queues with the requests of the kinds that    *)
(* wait in them (Only).  Its invariant (Matching) says moreover that a     *)
(* closure for a nick waits with a request for a nick, so that the answer  *)
(* to a decision deletes its own item.  That nothing else is asked about   *)
(* that item any more is because the requests about an item come before    *)
(* the decision about it (OrderedOf), the answers in the order of the      *)
(* requests, and items that are new have numbers of their own (Fresh).     *)
(***************************************************************************)
EXTENDS ChatWidget, SequenceTheorems, WellFoundedInduction, TLAPS

-------------------------------------------------------------------------------
(* Sequences.  What the library proves about sequences by induction takes an   *)
(* operator; here the property is a set of sequences.                          *)

\* A set of numbers with 0 and with the successor of each of its members below L.
LEMMA Induction ==
  ASSUME NEW L \in Nat, NEW T, 0 \in T, \A n \in 1 .. L : n - 1 \in T => n \in T
  PROVE  \A n \in 0 .. L : n \in T
<1> SUFFICES ASSUME NEW k \in 0 .. L, k \notin T PROVE FALSE
  OBVIOUS
<1> DEFINE Less == {ss \in Nat \X Nat : ss[1] < ss[2]}
           Bad  == {n \in 0 .. L : n \notin T}
<1>1. IsWellFoundedOn(Less, Nat)
  <2>1. OpToRel(<, Nat) = Less
    BY DEF OpToRel
  <2> QED
    BY <2>1, NatLessThanWellFounded
<1>2. Bad \subseteq Nat /\ Bad # {}
  OBVIOUS
<1>3. PICK m \in Bad : \A n \in Bad : ~(<<n, m>> \in Less)
  <2> HIDE DEF Less, Bad
  <2>1. \E m \in Bad : \A n \in Bad : ~(<<n, m>> \in Less)
    BY <1>1, <1>2, WFMin
  <2> QED
    BY <2>1
<1>4. m \in 1 .. L /\ m - 1 \in 0 .. L /\ m - 1 < m
  BY <1>3
<1>5. m - 1 \in T
  <2>1. <<m - 1, m>> \in Less
    BY <1>4
  <2>2. m - 1 \notin Bad
    BY <1>3, <2>1
  <2> QED
    BY <1>4, <2>2
<1> QED
  BY <1>3, <1>4, <1>5

\* A set of sequences with the empty one and with every one that is longer by an
\* element than one of its members.
LEMMA SeqInduction ==
  ASSUME NEW S, NEW T, <<>> \in T,
         \A s \in Seq(S), e \in S : s \in T => Append(s, e) \in T
  PROVE  \A s \in Seq(S) : s \in T
<1> SUFFICES ASSUME NEW s \in Seq(S) PROVE s \in T
  OBVIOUS
<1> DEFINE N == {n \in 0 .. Len(s) : SubSeq(s, 1, n) \in T}
<1>1. Len(s) \in Nat
  OBVIOUS
<1>2. 0 \in N
  <2>1. SubSeq(s, 1, 0) = <<>>
    BY SubSeqEmpty
  <2>2. SubSeq(s, 1, 0) \in T
    BY <2>1, Zenon
  <2> QED
    BY <1>1, <2>2
<1>3. ASSUME NEW n \in 1 .. Len(s), n - 1 \in N PROVE n \in N
  <2>1. SubSeq(s, 1, n) = Append(SubSeq(s, 1, n - 1), s[n])
    OBVIOUS
  <2>2. SubSeq(s, 1, n - 1) \in Seq(S) /\ s[n] \in S
    OBVIOUS
  <2>3. Append(SubSeq(s, 1, n - 1), s[n]) \in T
    BY <1>3, <2>2
  <2>4. SubSeq(s, 1, n) \in T
    BY <2>1, <2>3, Zenon
  <2> QED
    BY <2>4
<1>4. Len(s) \in N
  <2> HIDE DEF N
  <2>1. \A n \in 0 .. Len(s) : n \in N
    BY <1>1, <1>2, <1>3, Induction
  <2> QED
    BY <1>1, <2>1
<1> QED
  BY ZenonT(30), <1>4, SubSeqFull

\* Only is a recursive function; this is one step of it.
OnlyStep(s, V, f, i) ==
  IF i = 0 THEN <<>>
  ELSE IF s[i] \in V THEN Append(f[i - 1], s[i]) ELSE f[i - 1]

IsOnly(s, V, f, N) == f = [i \in 0 .. N |-> OnlyStep(s, V, f, i)]
OnlyUpTo(s, V) == CHOOSE f : IsOnly(s, V, f, Len(s))

LEMMA OnlyExists ==
  ASSUME NEW s, NEW V, NEW L \in Nat PROVE \E f : IsOnly(s, V, f, L)
<1> DEFINE T == {N \in Nat : \E f : IsOnly(s, V, f, N)}
<1>1. 0 \in T
  <2> DEFINE f == [n \in 0 .. 0 |-> <<>>]
  <2>1. f = [n \in 0 .. 0 |-> OnlyStep(s, V, f, n)]
    BY DEF OnlyStep
  <2> HIDE DEF f
  <2> QED
    BY <2>1 DEF IsOnly
<1>2. ASSUME NEW N \in 1 .. L, N - 1 \in T PROVE N \in T
  <2>1. PICK f : f = [n \in 0 .. N - 1 |-> OnlyStep(s, V, f, n)]
    BY <1>2 DEF IsOnly
  <2> DEFINE g == [n \in 0 .. N |-> IF n = N THEN OnlyStep(s, V, f, N) ELSE f[n]]
  <2>2. N \in Nat /\ N - 1 \in 0 .. N - 1 /\ N # 0
    OBVIOUS
  <2>3. \A n \in 0 .. N - 1 : g[n] = f[n]
    BY <2>2
  <2>4. \A n \in 0 .. N : g[n] = IF n = N THEN OnlyStep(s, V, f, N) ELSE f[n]
    OBVIOUS
  <2>5. DOMAIN g = 0 .. N /\ g = [n \in DOMAIN g |-> g[n]]
    OBVIOUS
  <2> HIDE DEF g
  <2>6. ASSUME NEW n \in 0 .. N PROVE g[n] = OnlyStep(s, V, g, n)
    <3>1. n \in Nat /\ (n # 0 => n - 1 \in 0 .. N - 1)
      BY <2>2
    <3>2. n # 0 => f[n - 1] = g[n - 1]
      BY <2>3, <3>1
    <3>3. OnlyStep(s, V, f, n) = OnlyStep(s, V, g, n)
      BY <3>1, <3>2 DEF OnlyStep
    <3>4. n # N => n \in 0 .. N - 1
      BY <2>2
    <3>5. n # N => f[n] = OnlyStep(s, V, f, n)
      BY <2>1, <3>4
    <3> QED
      BY <2>4, <3>3, <3>5
  <2>7. g = [n \in 0 .. N |-> OnlyStep(s, V, g, n)]
    BY <2>5, <2>6
  <2> QED
    BY <2>2, <2>7 DEF IsOnly
<1>3. \A n \in 0 .. L : n \in T
  <2> HIDE DEF T
  <2> QED
    BY <1>1, <1>2, Induction
<1> QED
  BY <1>3

LEMMA OnlyIs ==
  ASSUME NEW S, NEW s \in Seq(S), NEW V
  PROVE  /\ Only(s, V) = OnlyUpTo(s, V)[Len(s)]
         /\ \A i \in 0 .. Len(s) : OnlyUpTo(s, V)[i] = OnlyStep(s, V, OnlyUpTo(s, V), i)
<1>1. Only(s, V) = (CHOOSE f : f = [i \in 0 .. Len(s) |-> OnlyStep(s, V, f, i)])[Len(s)]
  BY DEF Only, OnlyStep
<1>2. Only(s, V) = OnlyUpTo(s, V)[Len(s)]
  BY <1>1 DEF OnlyUpTo, IsOnly
<1>3. IsOnly(s, V, OnlyUpTo(s, V), Len(s))
  BY OnlyExists DEF OnlyUpTo
<1> DEFINE F == OnlyUpTo(s, V)
<1>4. F = [n \in 0 .. Len(s) |-> OnlyStep(s, V, F, n)]
  BY <1>3 DEF IsOnly
<1> HIDE DEF F
<1>5. \A n \in 0 .. Len(s) : F[n] = OnlyStep(s, V, F, n)
  BY <1>4
<1> QED
  BY <1>2, <1>5 DEF F

LEMMA OnlyEmpty == ASSUME NEW V PROVE Only(<<>>, V) = <<>>
<1> DEFINE s == <<>>
           F == OnlyUpTo(s, V)
<1>1. s \in Seq({}) /\ Len(s) = 0
  OBVIOUS
<1> HIDE DEF s, F
<1>2. Only(s, V) = F[0] /\ \A i \in 0 .. 0 : F[i] = OnlyStep(s, V, F, i)
  BY <1>1, OnlyIs DEF F
<1> QED
  BY <1>2 DEF OnlyStep, s

\* What is left of a longer sequence.
LEMMA OnlyAppend ==
  ASSUME NEW S, NEW s \in Seq(S), NEW e \in S, NEW V
  PROVE  Only(Append(s, e), V) = IF e \in V THEN Append(Only(s, V), e) ELSE Only(s, V)
<1> DEFINE t == Append(s, e)
           F == OnlyUpTo(s, V)
           G == OnlyUpTo(t, V)
           N == {n \in 0 .. Len(s) : F[n] = G[n]}
<1>1. t \in Seq(S) /\ Len(t) = Len(s) + 1 /\ Len(s) \in Nat /\ t[Len(t)] = e
  OBVIOUS
<1>2. \A i \in 1 .. Len(s) : t[i] = s[i]
  OBVIOUS
<1>3. /\ Only(s, V) = F[Len(s)]
      /\ \A i \in 0 .. Len(s) : F[i] = OnlyStep(s, V, F, i)
  BY OnlyIs
<1>4. /\ Only(t, V) = G[Len(t)]
      /\ \A i \in 0 .. Len(t) : G[i] = OnlyStep(t, V, G, i)
  BY <1>1, OnlyIs
<1> HIDE DEF t, F, G
<1>5. 0 \in N
  BY <1>1, <1>3, <1>4 DEF OnlyStep
<1>6. ASSUME NEW n \in 1 .. Len(s), n - 1 \in N PROVE n \in N
  BY <1>1, <1>2, <1>3, <1>4, <1>6 DEF OnlyStep
<1>7. F[Len(s)] = G[Len(s)]
  <2> HIDE DEF N
  <2>1. \A n \in 0 .. Len(s) : n \in N
    BY <1>1, <1>5, <1>6, Induction
  <2> QED
    BY <1>1, <2>1 DEF N
<1>8. G[Len(t)] = OnlyStep(t, V, G, Len(t)) /\ Len(t) - 1 = Len(s) /\ Len(t) # 0
  BY <1>1, <1>4
<1> QED
  BY <1>1, <1>3, <1>4, <1>7, <1>8 DEF OnlyStep, t

\* What is left are elements of s in V.
LEMMA OnlyIsSeq ==
  ASSUME NEW S, NEW s \in Seq(S), NEW V
  PROVE  Only(s, V) \in Seq(S \cap V)
<1> DEFINE T == {t \in Seq(S) : Only(t, V) \in Seq(S \cap V)}
<1>1. <<>> \in T
  <2>1. Only(<<>>, V) \in Seq(S \cap V) /\ <<>> \in Seq(S)
    BY OnlyEmpty, EmptySeq, Zenon
  <2> QED
    BY <2>1, Zenon
<1>2. ASSUME NEW t \in Seq(S), NEW e \in S, t \in T PROVE Append(t, e) \in T
  <2>1. Only(Append(t, e), V) = IF e \in V THEN Append(Only(t, V), e) ELSE Only(t, V)
    BY OnlyAppend
  <2>2. e \in V => Append(Only(t, V), e) \in Seq(S \cap V)
    BY <1>2
  <2>3. Only(Append(t, e), V) \in Seq(S \cap V)
    BY <1>2, <2>1, <2>2
  <2> QED
    BY <2>3
<1> HIDE DEF T
<1>3. s \in T
  BY <1>1, <1>2, SeqInduction
<1> QED
  BY <1>3 DEF T

LEMMA OnlyConcat ==
  ASSUME NEW S, NEW s \in Seq(S), NEW t \in Seq(S), NEW V
  PROVE  Only(s \o t, V) = Only(s, V) \o Only(t, V)
<1> DEFINE T == {u \in Seq(S) : Only(s \o u, V) = Only(s, V) \o Only(u, V)}
<1>1. <<>> \in T
  <2>1. Only(s, V) \in Seq(S \cap V)
    BY OnlyIsSeq
  <2> QED
    BY <2>1, OnlyEmpty, ConcatEmptySeq
<1>2. ASSUME NEW u \in Seq(S), NEW e \in S, u \in T PROVE Append(u, e) \in T
  <2>1. s \o Append(u, e) = Append(s \o u, e) /\ s \o u \in Seq(S)
    OBVIOUS
  <2>2. Only(s, V) \in Seq(S \cap V) /\ Only(u, V) \in Seq(S \cap V)
    BY OnlyIsSeq
  <2>3. e \in V => Only(s, V) \o Append(Only(u, V), e)
                     = Append(Only(s, V) \o Only(u, V), e)
    BY <2>2
  <2>4. Only(Append(s \o u, e), V)
          = IF e \in V THEN Append(Only(s \o u, V), e) ELSE Only(s \o u, V)
    BY <2>1, OnlyAppend
  <2>5. Only(Append(u, e), V) = IF e \in V THEN Append(Only(u, V), e) ELSE Only(u, V)
    BY OnlyAppend
  <2>6. Only(s \o u, V) = Only(s, V) \o Only(u, V)
    BY <1>2
  <2>7. Only(s \o Append(u, e), V) = Only(s, V) \o Only(Append(u, e), V)
    BY <2>1, <2>3, <2>4, <2>5, <2>6, Zenon
  <2> QED
    BY <2>7
<1> HIDE DEF T
<1>3. t \in T
  BY <1>1, <1>2, SeqInduction
<1> QED
  BY <1>3 DEF T

\* Nothing goes when every element is in V, and all goes when none is.
LEMMA OnlyAll ==
  ASSUME NEW S, NEW s \in Seq(S), NEW V, \A i \in 1 .. Len(s) : s[i] \in V
  PROVE  Only(s, V) = s
<1> DEFINE T == {t \in Seq(S) : Only(t, V) = t}
<1>0. s \in Seq(S \cap V)
  OBVIOUS
<1>1. <<>> \in T
  BY OnlyEmpty
<1>2. ASSUME NEW t \in Seq(S \cap V), NEW e \in S \cap V, t \in T PROVE Append(t, e) \in T
  BY <1>2, OnlyAppend
<1> HIDE DEF T
<1>3. s \in T
  BY <1>0, <1>1, <1>2, SeqInduction
<1> QED
  BY <1>3 DEF T

LEMMA OnlyNone ==
  ASSUME NEW S, NEW s \in Seq(S), NEW V, \A i \in 1 .. Len(s) : s[i] \notin V
  PROVE  Only(s, V) = <<>>
<1> DEFINE T == {t \in Seq(S) : Only(t, V) = <<>>}
<1>0. s \in Seq(S \ V)
  OBVIOUS
<1>1. <<>> \in T
  BY OnlyEmpty
<1>2. ASSUME NEW t \in Seq(S \ V), NEW e \in S \ V, t \in T PROVE Append(t, e) \in T
  BY <1>2, OnlyAppend
<1> HIDE DEF T
<1>3. s \in T
  BY <1>0, <1>1, <1>2, SeqInduction
<1> QED
  BY <1>3 DEF T

\* Elements of s and t in turn.
LEMMA AlternateIsSeq ==
  ASSUME NEW S, NEW s \in Seq(S), NEW t \in Seq(S), Len(t) = Len(s)
  PROVE  /\ Alternate(s, t) \in Seq(S) /\ Len(Alternate(s, t)) = 2 * Len(s)
         /\ \A j \in 1 .. 2 * Len(s) :
              \E i \in 1 .. Len(s) : Alternate(s, t)[j] \in {s[i], t[i]}
<1> DEFINE A == Alternate(s, t)
<1>1. Len(s) \in Nat /\ 2 * Len(s) \in Nat
  OBVIOUS
<1>2. A = [j \in 1 .. 2 * Len(s) |-> IF j % 2 = 1 THEN s[(j + 1) \div 2] ELSE t[j \div 2]]
  BY DEF Alternate
<1>3. ASSUME NEW j \in 1 .. 2 * Len(s)
      PROVE  \E i \in 1 .. Len(s) : A[j] \in {s[i], t[i]}
  <2>1. CASE j % 2 = 1
    <3>1. (j + 1) \div 2 \in 1 .. Len(s)
      BY <1>1, <2>1
    <3> QED
      BY <1>2, <2>1, <3>1
  <2>2. CASE j % 2 # 1
    <3>1. j \div 2 \in 1 .. Len(s)
      BY <1>1, <2>2
    <3> QED
      BY <1>2, <2>2, <3>1
  <2> QED
    BY <2>1, <2>2
<1>4. \A i \in 1 .. Len(s) : s[i] \in S /\ t[i] \in S
  OBVIOUS
<1>5. A \in Seq(S) /\ Len(A) = 2 * Len(s)
  <2>1. \A j \in 1 .. 2 * Len(s) : A[j] \in S
    BY <1>3, <1>4
  <2>2. DOMAIN A = 1 .. 2 * Len(s) /\ A = [j \in DOMAIN A |-> A[j]]
    BY <1>2
  <2> HIDE DEF A
  <2>3. A \in [1 .. 2 * Len(s) -> S]
    BY <2>1, <2>2
  <2> QED
    BY <1>1, <2>3
<1> QED
  BY <1>3, <1>5

LEMMA AlternateAppend ==
  ASSUME NEW S, NEW s \in Seq(S), NEW t \in Seq(S), Len(t) = Len(s),
         NEW d \in S, NEW e \in S
  PROVE  Alternate(Append(s, d), Append(t, e)) = Append(Append(Alternate(s, t), d), e)
<1> DEFINE u == Append(s, d)
           v == Append(t, e)
           A == Alternate(s, t)
           B == Alternate(u, v)
           C == Append(Append(A, d), e)
           n == Len(s)
<1>1. n \in Nat /\ u \in Seq(S) /\ v \in Seq(S) /\ Len(u) = n + 1 /\ Len(v) = n + 1
  OBVIOUS
<1>2. /\ \A i \in 1 .. n : u[i] = s[i] /\ v[i] = t[i]
      /\ u[n + 1] = d /\ v[n + 1] = e
  OBVIOUS
<1>3. A \in Seq(S) /\ Len(A) = 2 * n
  BY AlternateIsSeq
<1>4. C \in Seq(S) /\ Len(C) = 2 * n + 2 /\ C[2 * n + 1] = d /\ C[2 * n + 2] = e
      /\ \A j \in 1 .. 2 * n : C[j] = A[j]
  <2> HIDE DEF A, n
  <2> QED
    BY <1>1, <1>3
<1>5. B \in Seq(S) /\ Len(B) = 2 * (n + 1)
  <2> HIDE DEF u, v, n
  <2>1. Len(v) = Len(u)
    BY <1>1
  <2> QED
    BY <1>1, <2>1, AlternateIsSeq
<1>6. \A j \in 1 .. 2 * n : A[j] = IF j % 2 = 1 THEN s[(j + 1) \div 2] ELSE t[j \div 2]
  BY DEF Alternate
<1>7. \A j \in 1 .. 2 * (n + 1) : B[j] = IF j % 2 = 1 THEN u[(j + 1) \div 2] ELSE v[j \div 2]
  BY <1>1 DEF Alternate
<1> HIDE DEF u, v, A, B, C, n
<1>8. ASSUME NEW j \in 1 .. 2 * n + 2 PROVE B[j] = C[j]
  <2>1. CASE j = 2 * n + 1
    <3>1. j % 2 = 1 /\ (j + 1) \div 2 = n + 1 /\ j \in 1 .. 2 * (n + 1)
      BY <1>1, <2>1
    <3>2. B[j] = u[n + 1]
      BY <1>7, <3>1
    <3> QED
      BY <1>2, <1>4, <2>1, <3>2
  <2>2. CASE j = 2 * n + 2
    <3>1. j % 2 = 0 /\ j \div 2 = n + 1 /\ j \in 1 .. 2 * (n + 1)
      BY <1>1, <2>2
    <3>2. B[j] = v[n + 1]
      BY <1>7, <3>1
    <3> QED
      BY <1>2, <1>4, <2>2, <3>2
  <2>3. CASE j \in 1 .. 2 * n
    <3>1. j \in 1 .. 2 * (n + 1) /\ (j % 2 = 1 => (j + 1) \div 2 \in 1 .. n)
          /\ (j % 2 # 1 => j \div 2 \in 1 .. n)
      BY <1>1, <2>3
    <3>2. B[j] = IF j % 2 = 1 THEN s[(j + 1) \div 2] ELSE t[j \div 2]
      BY <1>2, <1>7, <3>1
    <3> QED
      BY <1>4, <1>6, <2>3, <3>2
  <2> QED
    BY <1>1, <2>1, <2>2, <2>3
<1>9. B = C
  BY <1>1, <1>4, <1>5, <1>8
<1> QED
  BY <1>9 DEF B, C, A, u, v

\* Of two sequences in turn, one is in V and the other is not.
LEMMA OnlyAlternate ==
  ASSUME NEW S, NEW V, NEW s \in Seq(S), NEW t \in Seq(S), Len(t) = Len(s)
  PROVE  /\ (\A i \in 1 .. Len(s) : s[i] \in V /\ t[i] \notin V) => Only(Alternate(s, t), V) = s
         /\ (\A i \in 1 .. Len(s) : s[i] \notin V /\ t[i] \in V) => Only(Alternate(s, t), V) = t
<1> DEFINE Fine(a, b) ==
             /\ (\A i \in 1 .. Len(a) : a[i] \in V /\ b[i] \notin V)
                  => Only(Alternate(a, b), V) = a
             /\ (\A i \in 1 .. Len(a) : a[i] \notin V /\ b[i] \in V)
                  => Only(Alternate(a, b), V) = b
           T == {a \in Seq(S) : \A b \in Seq(S) : Len(b) = Len(a) => Fine(a, b)}
<1>1. <<>> \in T
  <2>1. Alternate(<<>>, <<>>) = <<>>
    BY DEF Alternate
  <2>2. Only(Alternate(<<>>, <<>>), V) = <<>>
    BY <2>1, OnlyEmpty, Zenon
  <2>3. Fine(<<>>, <<>>)
    BY <2>2, Zenon
  <2> HIDE DEF Fine
  <2>4. \A b \in Seq(S) : Len(b) = Len(<<>>) => b = <<>>
    OBVIOUS
  <2>5. <<>> \in Seq(S)
    OBVIOUS
  <2>6. \A b \in Seq(S) : Len(b) = Len(<<>>) => Fine(<<>>, b)
    BY <2>3, <2>4, Zenon
  <2> QED
    BY <2>5, <2>6, Zenon
<1>2. ASSUME NEW a \in Seq(S), NEW d \in S, a \in T PROVE Append(a, d) \in T
  <2> SUFFICES ASSUME NEW c \in Seq(S), Len(c) = Len(Append(a, d)) PROVE Fine(Append(a, d), c)
    <3> HIDE DEF Fine
    <3>1. Append(a, d) \in Seq(S)
      OBVIOUS
    <3> QED
      BY <3>1, Zenon
  <2>1. c # <<>>
    OBVIOUS
  <2>2. PICK b \in Seq(S), e \in S : c = Append(b, e)
    BY <2>1, SequenceEmptyOrAppend
  <2>3. Len(b) = Len(a) /\ Len(a) \in Nat /\ Len(Append(a, d)) = Len(a) + 1
    BY <2>2
  <2>4. Fine(a, b)
    BY <1>2, <2>3
  <2>5. Alternate(Append(a, d), c) = Append(Append(Alternate(a, b), d), e)
    BY SMTT(30), <2>2, <2>3, AlternateAppend
  <2>6. Alternate(a, b) \in Seq(S) /\ Append(Alternate(a, b), d) \in Seq(S)
    BY <2>3, AlternateIsSeq
  <2> DEFINE A == Alternate(a, b)
             O == Only(A, V)
  <2>7. Only(Append(A, d), V) = IF d \in V THEN Append(O, d) ELSE O
    BY <2>6, OnlyAppend
  <2>8. Only(Append(Append(A, d), e), V)
          = IF e \in V THEN Append(Only(Append(A, d), V), e) ELSE Only(Append(A, d), V)
    BY <2>6, OnlyAppend
  <2>9. /\ Append(a, d)[Len(a) + 1] = d /\ c[Len(a) + 1] = e
        /\ \A i \in 1 .. Len(a) : Append(a, d)[i] = a[i] /\ c[i] = b[i]
        /\ Len(a) + 1 \in 1 .. Len(a) + 1 /\ \A i \in 1 .. Len(a) : i \in 1 .. Len(a) + 1
    BY <2>2, <2>3
  <2>10. ASSUME \A i \in 1 .. Len(Append(a, d)) : Append(a, d)[i] \in V /\ c[i] \notin V
         PROVE  Only(Alternate(Append(a, d), c), V) = Append(a, d)
    <3>1. d \in V /\ e \notin V /\ \A i \in 1 .. Len(a) : a[i] \in V /\ b[i] \notin V
      BY <2>3, <2>9, <2>10
    <3>2. O = a
      BY <2>4, <3>1
    <3> QED
      BY <2>5, <2>7, <2>8, <3>1, <3>2, Zenon
  <2>11. ASSUME \A i \in 1 .. Len(Append(a, d)) : Append(a, d)[i] \notin V /\ c[i] \in V
         PROVE  Only(Alternate(Append(a, d), c), V) = c
    <3>1. d \notin V /\ e \in V /\ \A i \in 1 .. Len(a) : a[i] \notin V /\ b[i] \in V
      BY <2>3, <2>9, <2>11
    <3>2. O = b
      BY <2>4, <3>1
    <3> QED
      BY <2>2, <2>5, <2>7, <2>8, <3>1, <3>2, Zenon
  <2> QED
    BY <2>10, <2>11
<1> HIDE DEF T
<1>3. s \in T
  BY <1>1, <1>2, SeqInduction
<1> QED
  BY <1>3 DEF T

LEMMA OnlyFirsts ==
  ASSUME NEW S, NEW V, NEW s \in Seq(S), NEW t \in Seq(S), Len(t) = Len(s),
         \A i \in 1 .. Len(s) : s[i] \in V /\ t[i] \notin V
  PROVE  Only(Alternate(s, t), V) = s
  BY OnlyAlternate

LEMMA OnlySeconds ==
  ASSUME NEW S, NEW V, NEW s \in Seq(S), NEW t \in Seq(S), Len(t) = Len(s),
         \A i \in 1 .. Len(s) : s[i] \notin V /\ t[i] \in V
  PROVE  Only(Alternate(s, t), V) = t
  BY OnlyAlternate

-------------------------------------------------------------------------------
(* Types.                                                                      *)

\* The requests sent when n apply items have been created.
Known(n) == {r \in Requests :
  /\ r.kind = "GET_FRIEND_MSG" => r.item \in {FriendItem(p) : p \in Users}
  /\ r.kind = "WHETHER_ACCEPT_ADD_FRIEND" => r.item[1] = "apply"
  /\ r.item[1] = "apply" => r.item[2] \in 1 .. n}

Made == {ApplyItem(n) : n \in 1 .. applies}

Dialogs ==
  {NoDialog} \cup [kind : {"add"}, id : Ids, searching : BOOLEAN]
             \cup [kind : {"accept"}, item : Made]

Typed ==
  /\ TypeOK
  /\ net \in Seq(Known(applies))
  /\ friendApplyList_ \in [Users -> 0 .. applies]
  /\ alive \subseteq 1 .. applies
  /\ dialog \in Dialogs

LEMMA ItemsAreWidgets ==
  /\ \A p \in Users : FriendItem(p) \in Widgets /\ FriendItem(p)[1] = "friend"
                      /\ FriendItem(p)[2] = p
  /\ \A p \in Ids : MsgItem(p) \in Widgets /\ MsgItem(p)[1] = "msg"
  /\ \A n \in 1 .. MaxApplies : ApplyItem(n) \in Widgets
  /\ \A n : ApplyItem(n)[1] = "apply" /\ ApplyItem(n)[2] = n
  /\ MyHead \in Widgets /\ MyHead[1] = "me"
  /\ InfoHead \in Widgets /\ InfoHead[1] = "info"
  /\ \A w \in Widgets : w[1] = "apply" => w[2] \in 1 .. MaxApplies /\ w = ApplyItem(w[2])
  BY DEF Widgets, FriendItem, MsgItem, ApplyItem, MyHead, InfoHead

\* What the window asks for is known.
LEMMA AskedIsKnown ==
  ASSUME NEW n \in Nat, n <= MaxApplies
  PROVE  /\ \A p \in Users : /\ HeadReq(FriendItem(p)) \in Known(n)
                             /\ Req("GET_FRIEND_MSG", FriendItem(p)) \in Known(n)
         /\ \A p \in Ids : /\ HeadReq(MsgItem(p)) \in Known(n)
                           /\ NickReq(MsgItem(p)) \in Known(n)
         /\ \A m \in 1 .. n :
              /\ HeadReq(ApplyItem(m)) \in Known(n) /\ NickReq(ApplyItem(m)) \in Known(n)
              /\ Req("WHETHER_ACCEPT_ADD_FRIEND", ApplyItem(m)) \in Known(n)
         /\ HeadReq(MyHead) \in Known(n) /\ HeadReq(InfoHead) \in Known(n)
         /\ Req("GET_FRIEND_LIST", MyHead) \in Known(n)
         /\ Req("GET_APPLY_FRIEND_LIST", MyHead) \in Known(n)
         /\ Req("GET_USERINFO_BY_ACCOUNT", InfoHead) \in Known(n)
<1>1. MaxApplies \in Nat /\ 1 .. n \subseteq 1 .. MaxApplies
  BY WindowAssumption DEF WindowAssumption
<1>2. \A k, w : Req(k, w).kind = k /\ Req(k, w).item = w
  BY DEF Req
<1>3. \A k \in Kinds, w \in Widgets : Req(k, w) \in Requests
  BY DEF Req, Requests
<1>4. ASSUME NEW k \in Kinds, NEW w \in Widgets,
             k = "GET_FRIEND_MSG" => w \in {FriendItem(p) : p \in Users},
             k = "WHETHER_ACCEPT_ADD_FRIEND" => w[1] = "apply",
             w[1] = "apply" => w[2] \in 1 .. n
      PROVE  Req(k, w) \in Known(n)
  BY <1>2, <1>3, <1>4 DEF Known
<1>5. /\ "GET_USER_HEAD" \in Kinds /\ "GET_USERINFO_BY_ID" \in Kinds
      /\ "GET_USERINFO_BY_ACCOUNT" \in Kinds /\ "WHETHER_ACCEPT_ADD_FRIEND" \in Kinds
      /\ "GET_FRIEND_LIST" \in Kinds /\ "GET_APPLY_FRIEND_LIST" \in Kinds
      /\ "GET_FRIEND_MSG" \in Kinds
  BY DEF Kinds
<1> HIDE DEF Kinds
<1>6. \A p \in Users : /\ HeadReq(FriendItem(p)) \in Known(n)
                       /\ Req("GET_FRIEND_MSG", FriendItem(p)) \in Known(n)
  BY <1>4, <1>5, ItemsAreWidgets DEF HeadReq
<1>7. \A p \in Ids : /\ HeadReq(MsgItem(p)) \in Known(n)
                     /\ NickReq(MsgItem(p)) \in Known(n)
  BY <1>4, <1>5, ItemsAreWidgets DEF HeadReq, NickReq
<1>8. \A m \in 1 .. n :
         /\ HeadReq(ApplyItem(m)) \in Known(n) /\ NickReq(ApplyItem(m)) \in Known(n)
         /\ Req("WHETHER_ACCEPT_ADD_FRIEND", ApplyItem(m)) \in Known(n)
  BY <1>1, <1>4, <1>5, ItemsAreWidgets DEF HeadReq, NickReq
<1>9. /\ HeadReq(MyHead) \in Known(n) /\ HeadReq(InfoHead) \in Known(n)
      /\ Req("GET_FRIEND_LIST", MyHead) \in Known(n)
      /\ Req("GET_APPLY_FRIEND_LIST", MyHead) \in Known(n)
      /\ Req("GET_USERINFO_BY_ACCOUNT", InfoHead) \in Known(n)
  BY <1>4, <1>5, ItemsAreWidgets DEF HeadReq
<1> QED
  BY <1>6, <1>7, <1>8, <1>9

LEMMA KnownGrows ==
  ASSUME NEW n \in Nat, NEW m \in Nat, n <= m PROVE Seq(Known(n)) \subseteq Seq(Known(m))
<1>1. Known(n) \subseteq Known(m)
  BY DEF Known
<1> QED
  BY <1>1, SeqMonotonic

LEMMA KnownAreRequests == ASSUME NEW n PROVE Seq(Known(n)) \subseteq Seq(Requests)
<1>1. Known(n) \subseteq Requests
  BY DEF Known
<1> QED
  BY <1>1, SeqMonotonic

\* The messages of a page, and what is left of a sequence of messages.
LEMMA MessagesAreSeq ==
  ASSUME NEW S, NEW all \in [Ids -> Seq(S)], NEW id \in Ids \cup {Nobody}
  PROVE  MessagesOf(id, all) \in Seq(S)
  BY DEF MessagesOf

LEMMA WithoutIsSeq ==
  ASSUME NEW S, NEW s \in Seq(S), NEW V PROVE Without(s, V) \in Seq(S)
<1>1. Without(s, V) \in Seq(S \cap (Range(s) \ V))
  BY OnlyIsSeq DEF Without
<1> QED
  BY <1>1, SeqMonotonic

LEMMA FlushIsSeq ==
  ASSUME NEW S, NEW all \in [Ids -> Seq(S)], bubbles \in Seq(S),
         NEW old \in Ids \cup {Nobody}, NEW id \in Ids \cup {Nobody}
  PROVE  flushMsgInterface(old, id, all) \in Seq(S)
<1> DEFINE gone == IF old # id THEN Range(MessagesOf(old, all)) ELSE {}
           kept == Without(bubbles, gone)
<1>1. kept \in Seq(S)
  <2> HIDE DEF gone
  <2> QED
    BY WithoutIsSeq
<1>2. Without(MessagesOf(id, all), Range(kept)) \in Seq(S)
  <2> HIDE DEF kept
  <2> QED
    BY MessagesAreSeq, WithoutIsSeq
<1>3. flushMsgInterface(old, id, all) = kept \o Without(MessagesOf(id, all), Range(kept))
  BY DEF flushMsgInterface
<1> HIDE DEF kept
<1> QED
  BY <1>1, <1>2, <1>3

LEMMA TypedInit == Init => Typed
<1> SUFFICES ASSUME Init PROVE Typed
  OBVIOUS
<1>1. /\ {MaxAsked, MaxHeads, MaxMsg, MaxApplies} \subseteq Nat /\ applies = 0
  BY WindowAssumption DEF WindowAssumption, Init
<1>2. /\ HeadReq(MyHead) \in Known(0) /\ Req("GET_FRIEND_LIST", MyHead) \in Known(0)
      /\ Req("GET_APPLY_FRIEND_LIST", MyHead) \in Known(0)
  BY <1>1, AskedIsKnown
<1>3. net \in Seq(Known(0))
  BY <1>2 DEF Init
<1>4. headWidgets_ \in Seq(Widgets) /\ callbacks_ \in Seq(Closures)
  BY ItemsAreWidgets DEF Init
<1>5. TypeOK
  <2>1. net \in Seq(Requests)
    BY <1>3, KnownAreRequests
  <2>2. NoId \in Ids
    BY DEF Ids
  <2>3. dialog.kind = "none"
    BY DEF Init, NoDialog
  <2>4. messages_ \in [Ids -> Seq(0 .. MaxMsg)] /\ bubbles \in Seq(0 .. MaxMsg)
    BY DEF Init
  <2>5. friendApplyList_ \in [Users -> 0 .. MaxApplies] /\ msgId \in 0 .. MaxMsg
    BY <1>1 DEF Init
  <2>6. /\ friendlsit_ \subseteq Users /\ msgListWid_ \subseteq Ids
        /\ applies \in 0 .. MaxApplies /\ alive \subseteq 1 .. MaxApplies
    BY <1>1 DEF Init
  <2>7. /\ id_ \in Ids \cup {Nobody} /\ page \in {"list", "search"}
        /\ infoId \in Ids /\ infoShown \in BOOLEAN
        /\ headFailed \in BOOLEAN /\ stolen \in BOOLEAN
    BY <2>2 DEF Init
  <2> QED
    BY <1>4, <2>1, <2>3, <2>4, <2>5, <2>6, <2>7 DEF TypeOK
<1> QED
  BY <1>1, <1>3, <1>5 DEF Init, Typed, Dialogs

\* What is known of every state.
LEMMA Bounds ==
  ASSUME Typed
  PROVE  /\ applies \in Nat /\ applies <= MaxApplies /\ MaxApplies \in Nat
         /\ msgId \in Nat /\ MaxMsg \in Nat
         /\ Nobody \in Ids \cup {Nobody} /\ id_ \in Ids \cup {Nobody}
  BY WindowAssumption DEF WindowAssumption, Typed, TypeOK

\* A message with p, when what is on the net already is known.
LEMMA AppendTyped ==
  ASSUME Typed, NEW p \in Ids, NEW sent \in Seq(Known(applies)), msgId < MaxMsg,
         appendMsg(p, sent)
  PROVE  Typed'
<1> DEFINE all == [messages_ EXCEPT ![p] = Append(@, msgId)]
<1>1. /\ msgId \in 0 .. MaxMsg /\ msgId' \in 0 .. MaxMsg
      /\ messages_ \in [Ids -> Seq(0 .. MaxMsg)]
  <2>1. msgId' = msgId + 1
    BY DEF appendMsg
  <2>2. msgId \in 0 .. MaxMsg /\ messages_ \in [Ids -> Seq(0 .. MaxMsg)]
    BY DEF Typed, TypeOK
  <2> QED
    BY <2>1, <2>2, Bounds
<1>2. messages_' = all /\ all \in [Ids -> Seq(0 .. MaxMsg)]
  <2>1. \A s \in Seq(0 .. MaxMsg) : Append(s, msgId) \in Seq(0 .. MaxMsg)
    BY <1>1
  <2> QED
    BY <1>1, <2>1 DEF appendMsg
<1>3. bubbles' \in Seq(0 .. MaxMsg)
  <2>1. flushMsgInterface(id_, id_, all) \in Seq(0 .. MaxMsg)
    <3> HIDE DEF all
    <3> QED
      BY <1>2, FlushIsSeq DEF Typed, TypeOK
  <2> QED
    BY <2>1 DEF Typed, TypeOK, appendMsg
<1>4. net' \in Seq(Known(applies))
  <2>1. HeadReq(MsgItem(p)) \in Known(applies) /\ NickReq(MsgItem(p)) \in Known(applies)
    BY Bounds, AskedIsKnown
  <2> QED
    BY <2>1 DEF appendMsg
<1>5. headWidgets_' \in Seq(Widgets) /\ callbacks_' \in Seq(Closures)
  <2>1. MsgItem(p) \in Widgets /\ Nick(MsgItem(p)) \in Closures
    BY ItemsAreWidgets DEF Nick, Closures
  <2> QED
    BY <2>1 DEF Typed, TypeOK, appendMsg
<1>6. net' \in Seq(Requests) /\ applies' = applies
  BY <1>4, KnownAreRequests DEF appendMsg
<1>7. msgListWid_' \subseteq Ids
  BY DEF Typed, TypeOK, appendMsg
<1>8. UNCHANGED <<friendlsit_, friendApplyList_, applies, alive, id_, page, infoId,
                  infoShown, dialog, headFailed, stolen>>
  BY DEF appendMsg, info, hist
<1>9. TypeOK'
  BY <1>1, <1>2, <1>3, <1>5, <1>6, <1>7, <1>8 DEF Typed, TypeOK
<1> QED
  BY <1>4, <1>8, <1>9 DEF Typed, Dialogs, Made

\* The sequences of widgets that a list makes, and what is asked for them.
LEMMA ListIsSeq ==
  ASSUME NEW list \in Orders
  PROVE  /\ list \in Seq(Users) /\ Len(list) \in Nat /\ Range(list) \subseteq Users
         /\ DOMAIN list = 1 .. Len(list)
<1>1. PICK n \in 0 .. Cardinality(Users) : list \in [1 .. n -> Users]
  BY DEF Orders
<1>2. n \in Nat
  OBVIOUS
<1> QED
  BY <1>1, <1>2 DEF Range

LEMMA FriendsTyped ==
  ASSUME Typed, NEW list \in Seq(Users), NEW sent \in Seq(Known(applies)),
         NewFriends(list, sent)
  PROVE  Typed'
<1> DEFINE new   == Without(list, friendlsit_)
           items == [i \in DOMAIN new |-> FriendItem(new[i])]
           heads == [i \in DOMAIN items |-> HeadReq(items[i])]
           msgs  == [i \in DOMAIN items |-> Req("GET_FRIEND_MSG", items[i])]
<1>1. new \in Seq(Users)
  BY WithoutIsSeq
<1>2. items \in Seq({FriendItem(p) : p \in Users}) /\ Len(items) = Len(new)
  <2> HIDE DEF new
  <2> QED
    BY <1>1
<1>3. /\ heads \in Seq(Known(applies)) /\ Len(heads) = Len(items)
      /\ msgs \in Seq(Known(applies)) /\ Len(msgs) = Len(items)
  <2> HIDE DEF items
  <2>1. \A i \in DOMAIN items : \E p \in Users : items[i] = FriendItem(p)
    BY <1>2
  <2>2. \A i \in DOMAIN items : /\ HeadReq(items[i]) \in Known(applies)
                                /\ Req("GET_FRIEND_MSG", items[i]) \in Known(applies)
    BY <2>1, Bounds, AskedIsKnown
  <2> DEFINE K == Known(applies)
  <2>3. \A i \in DOMAIN items : HeadReq(items[i]) \in K
                               /\ Req("GET_FRIEND_MSG", items[i]) \in K
    BY <2>2
  <2>4. DOMAIN items = 1 .. Len(items) /\ Len(items) \in Nat
    BY <1>2
  <2> HIDE DEF K
  <2>5. heads \in Seq(K) /\ Len(heads) = Len(items)
    BY <2>3, <2>4
  <2>6. msgs \in Seq(K) /\ Len(msgs) = Len(items)
    BY <2>3, <2>4
  <2> QED
    BY <2>5, <2>6 DEF K
<1>4. net' = sent \o Alternate(heads, msgs) /\ headWidgets_' = headWidgets_ \o items
      /\ friendlsit_' = friendlsit_ \cup Range(list)
      /\ UNCHANGED <<callbacks_, msgListWid_, friendApplyList_, applies, alive,
                     messages_, msgId, bubbles, id_, page, infoId, infoShown, dialog,
                     headFailed, stolen>>
  BY DEF NewFriends, chat, info, hist
<1> HIDE DEF new, items, heads, msgs
<1>5. net' \in Seq(Known(applies))
  <2>1. Alternate(heads, msgs) \in Seq(Known(applies))
    BY <1>3, AlternateIsSeq
  <2> QED
    BY <1>4, <2>1
<1>6. headWidgets_' \in Seq(Widgets)
  <2>1. items \in Seq(Widgets)
    BY <1>2, ItemsAreWidgets, SeqMonotonic
  <2> QED
    BY <1>4, <2>1 DEF Typed, TypeOK
<1>7. friendlsit_' \subseteq Users
  <2>1. Range(list) \subseteq Users
    BY DEF Range
  <2> QED
    BY <1>4, <2>1 DEF Typed, TypeOK
<1>8. net' \in Seq(Requests)
  BY <1>5, KnownAreRequests
<1>9. TypeOK'
  BY <1>4, <1>6, <1>7, <1>8 DEF Typed, TypeOK
<1> QED
  BY <1>4, <1>5, <1>9 DEF Typed, Dialogs, Made

LEMMA AppliesTyped ==
  ASSUME Typed, NEW list \in Seq(Users), NEW sent \in Seq(Known(applies)),
         NewApplies(list, sent)
  PROVE  Typed'
<1> DEFINE items == [i \in DOMAIN list |-> ApplyItem(applies + i)]
           nicks == [i \in DOMAIN items |-> NickReq(items[i])]
           heads == [i \in DOMAIN items |-> HeadReq(items[i])]
           calls == [i \in DOMAIN items |-> Nick(items[i])]
<1>0. Len(list) \in Nat /\ DOMAIN list = 1 .. Len(list)
  OBVIOUS
<1>1. /\ applies' = applies + Len(list) /\ applies' <= MaxApplies
      /\ applies' \in Nat /\ applies <= applies' /\ applies \in Nat
  BY <1>0, Bounds DEF NewApplies
<1>2. /\ items \in Seq({ApplyItem(n) : n \in 1 .. applies'}) /\ Len(items) = Len(list)
  <2>1. \A i \in 1 .. Len(list) : applies + i \in 1 .. applies'
    BY <1>0, <1>1
  <2>2. items \in [1 .. Len(list) -> {ApplyItem(n) : n \in 1 .. applies'}]
    BY <1>0, <2>1
  <2> QED
    BY <1>0, <2>2
<1>3. /\ heads \in Seq(Known(applies')) /\ Len(heads) = Len(items)
      /\ nicks \in Seq(Known(applies')) /\ Len(nicks) = Len(items)
      /\ calls \in Seq(Closures) /\ Len(calls) = Len(items)
      /\ items \in Seq(Widgets)
  <2> HIDE DEF items
  <2>1. \A i \in DOMAIN items : \E n \in 1 .. applies' : items[i] = ApplyItem(n)
    BY <1>2
  <2>2. \A i \in DOMAIN items : /\ HeadReq(items[i]) \in Known(applies')
                                /\ NickReq(items[i]) \in Known(applies')
    <3>1. \A n \in 1 .. applies' : /\ HeadReq(ApplyItem(n)) \in Known(applies')
                                   /\ NickReq(ApplyItem(n)) \in Known(applies')
      BY <1>1, AskedIsKnown
    <3> QED
      BY <2>1, <3>1
  <2>3. \A i \in DOMAIN items : items[i] \in Widgets
    BY <1>1, <2>1, Bounds, ItemsAreWidgets
  <2>4. \A w \in Widgets : Nick(w) \in Closures
    BY DEF Nick, Closures
  <2>5. DOMAIN items = 1 .. Len(items) /\ Len(items) \in Nat
    BY <1>2
  <2>6. heads \in Seq(Known(applies')) /\ Len(heads) = Len(items)
    BY <2>2, <2>5
  <2>7. nicks \in Seq(Known(applies')) /\ Len(nicks) = Len(items)
    BY <2>2, <2>5
  <2>8. calls \in Seq(Closures) /\ Len(calls) = Len(items)
    BY <2>3, <2>4, <2>5
  <2>9. items \in Seq(Widgets)
    BY <1>2, <2>3
  <2> QED
    BY <2>6, <2>7, <2>8, <2>9
<1>4. net' = sent \o Alternate(nicks, heads) /\ headWidgets_' = headWidgets_ \o items
      /\ callbacks_' = callbacks_ \o calls
      /\ alive' = alive \cup (applies + 1 .. applies + Len(list))
      /\ friendApplyList_' = [p \in Users |->
              IF friendApplyList_[p] = 0 /\ p \in Range(list)
              THEN applies + (CHOOSE i \in DOMAIN list : list[i] = p)
              ELSE friendApplyList_[p]]
      /\ UNCHANGED <<friendlsit_, msgListWid_, messages_, msgId, bubbles, id_, page,
                     infoId, infoShown, dialog, headFailed, stolen>>
  BY DEF NewApplies, chat, info, hist
<1> HIDE DEF items, heads, nicks, calls
<1>5. net' \in Seq(Known(applies'))
  <2>1. Alternate(nicks, heads) \in Seq(Known(applies'))
    BY <1>3, AlternateIsSeq
  <2>2. sent \in Seq(Known(applies'))
    BY <1>1, KnownGrows
  <2> QED
    BY <1>4, <2>1, <2>2
<1>6. headWidgets_' \in Seq(Widgets) /\ callbacks_' \in Seq(Closures)
  BY <1>3, <1>4 DEF Typed, TypeOK
<1>7. friendApplyList_' \in [Users -> 0 .. applies']
  <2>1. ASSUME NEW p \in Users, p \in Range(list)
        PROVE  applies + (CHOOSE i \in DOMAIN list : list[i] = p) \in 0 .. applies'
    <3>1. \E i \in DOMAIN list : list[i] = p
      BY <2>1 DEF Range
    <3>2. (CHOOSE i \in DOMAIN list : list[i] = p) \in 1 .. Len(list)
      BY <1>0, <3>1
    <3> QED
      BY <1>0, <1>1, <3>2
  <2>2. \A p \in Users : friendApplyList_[p] \in 0 .. applies'
    BY <1>1 DEF Typed
  <2> QED
    BY <1>4, <2>1, <2>2
<1>8. alive' \subseteq 1 .. applies'
  <2>1. alive \subseteq 1 .. applies'
    BY <1>1 DEF Typed
  <2>2. applies + 1 .. applies + Len(list) \subseteq 1 .. applies'
    BY <1>0, <1>1
  <2> QED
    BY <1>4, <2>1, <2>2
<1>9. net' \in Seq(Requests)
  BY <1>5, KnownAreRequests
<1>10. TypeOK'
  <2>1. 0 .. applies' \subseteq 0 .. MaxApplies /\ 1 .. applies' \subseteq 1 .. MaxApplies
        /\ applies' \in 0 .. MaxApplies
    BY <1>1, Bounds
  <2>2. friendApplyList_' \in [Users -> 0 .. MaxApplies] /\ alive' \subseteq 1 .. MaxApplies
    BY <1>7, <1>8, <2>1
  <2> QED
    BY <1>4, <1>6, <1>9, <2>1, <2>2 DEF Typed, TypeOK
<1>11. dialog' \in Dialogs'
  BY <1>1, <1>4 DEF Typed, Dialogs, Made
<1> QED
  BY <1>5, <1>7, <1>8, <1>10, <1>11 DEF Typed

\* A closure is run.
LEMMA RunTyped ==
  ASSUME Typed, NEW success, NEW rest \in Seq(Known(applies)), callbacks_ # <<>>,
         Run(success, rest), stolen' \in BOOLEAN
  PROVE  Typed'
<1>1. callbacks_' \in Seq(Closures)
  BY HeadTailProperties DEF Typed, TypeOK, Run
<1>2. net' \in Seq(Known(applies))
  <2>1. Req("GET_FRIEND_LIST", MyHead) \in Known(applies)
    BY Bounds, AskedIsKnown
  <2> QED
    BY <2>1 DEF Run
<1>3. friendApplyList_' \in [Users -> 0 .. applies] /\ alive' \subseteq alive
  <2>1. CASE UNCHANGED <<friendApplyList_, alive>>
    BY <2>1 DEF Typed
  <2>2. CASE removeWidget(Head(callbacks_).item)
    <3>1. \A p \in Users : friendApplyList_[p] \in 0 .. applies /\ 0 \in 0 .. applies
      BY Bounds DEF Typed
    <3> QED
      BY <2>2, <3>1 DEF removeWidget
  <2> QED
    BY <2>1, <2>2 DEF Run
<1>4. UNCHANGED <<headWidgets_, friendlsit_, msgListWid_, applies, messages_, msgId,
                  bubbles, id_, page, infoId, infoShown, dialog, headFailed>>
  BY DEF Run, chat, info
<1>5. net' \in Seq(Requests)
  BY <1>2, KnownAreRequests
<1>6. friendApplyList_' \in [Users -> 0 .. MaxApplies] /\ alive' \subseteq 1 .. MaxApplies
  <2>1. 0 .. applies \subseteq 0 .. MaxApplies
    BY Bounds
  <2> QED
    BY <1>3, <2>1 DEF Typed, TypeOK
<1>7. TypeOK'
  BY <1>1, <1>4, <1>5, <1>6 DEF Typed, TypeOK
<1> QED
  BY <1>2, <1>3, <1>4, <1>7 DEF Typed, Dialogs, Made

\* What the steps that leave lists, queues of labels and messages alone do.
LEMMA QuietTyped ==
  ASSUME Typed, net' \in Seq(Known(applies)), callbacks_' \in Seq(Closures),
         headWidgets_' \in Seq(Widgets),
         UNCHANGED <<lists, chat>>, page' \in {"list", "search"},
         infoId' \in Ids, infoShown' \in BOOLEAN, dialog' \in Dialogs,
         headFailed' \in BOOLEAN, stolen' \in BOOLEAN
  PROVE  Typed'
<1>1. net' \in Seq(Requests)
  BY KnownAreRequests
<1>2. dialog'.kind \in {"none", "add", "accept"}
  BY DEF Dialogs, NoDialog
<1>3. UNCHANGED <<friendlsit_, msgListWid_, friendApplyList_, applies, alive, messages_,
                  msgId, bubbles, id_>>
  BY DEF lists, chat
<1>4. TypeOK'
  BY <1>1, <1>2, <1>3 DEF Typed, TypeOK
<1> QED
  BY <1>3, <1>4 DEF Typed, Dialogs, Made

\* The answer to the first request.
LEMMA Answering ==
  ASSUME Typed, NEW kind, Answered(kind)
  PROVE  /\ net # <<>> /\ Head(net) \in Known(applies) /\ Head(net).kind = kind
         /\ Tail(net) \in Seq(Known(applies)) /\ net = <<Head(net)>> \o Tail(net)
<1>1. net # <<>> /\ net \in Seq(Known(applies)) /\ Head(net).kind = kind
  BY DEF Answered, Typed
<1>2. Head(net) \in Known(applies) /\ Tail(net) \in Seq(Known(applies))
  BY <1>1, HeadTailProperties
<1>3. net = <<Head(net)>> \o Tail(net)
  <2> DEFINE S == Known(applies)
  <2> HIDE DEF S
  <2>1. net \in Seq(S) /\ net # <<>>
    BY <1>1 DEF S
  <2> QED
    BY <2>1
<1> QED
  BY <1>1, <1>2, <1>3

LEMMA TypedNetwork == Typed /\ Network => Typed'
<1> SUFFICES ASSUME Typed, Network PROVE Typed'
  OBVIOUS
<1>0. /\ headWidgets_ \in Seq(Widgets) /\ callbacks_ \in Seq(Closures)
      /\ net \in Seq(Known(applies)) /\ stolen \in BOOLEAN /\ headFailed \in BOOLEAN
      /\ page \in {"list", "search"} /\ infoId \in Ids /\ infoShown \in BOOLEAN
      /\ dialog \in Dialogs
  BY DEF Typed, TypeOK
<1>a. callbacks_ # <<>> => Tail(callbacks_) \in Seq(Closures)
  BY <1>0, HeadTailProperties
<1>b. headWidgets_ # <<>> => Tail(headWidgets_) \in Seq(Widgets)
  BY <1>0, HeadTailProperties
<1>1. ASSUME NEW success \in BOOLEAN, AnswerUserHead(success) PROVE Typed'
  <2>1. Tail(net) \in Seq(Known(applies))
    BY <1>1, Answering DEF AnswerUserHead
  <2>2. headWidgets_' \in Seq(Widgets) /\ net' = Tail(net) /\ headFailed' \in BOOLEAN
    BY <1>0, <1>1, <1>b DEF AnswerUserHead
  <2>3. UNCHANGED <<callbacks_, lists, chat, page, infoId, infoShown, dialog, stolen>>
    BY <1>1 DEF AnswerUserHead, info
  <2> QED
    BY <1>0, <2>1, <2>2, <2>3, QuietTyped
<1>2. ASSUME NEW success \in BOOLEAN, AnswerById(success) PROVE Typed'
  <2>1. Tail(net) \in Seq(Known(applies))
    BY <1>2, Answering DEF AnswerById
  <2>2. CASE callbacks_ # <<>>
    <3>1. Run(success, Tail(net)) /\ stolen' \in BOOLEAN
      BY <1>0, <1>2, <2>2 DEF AnswerById
    <3> QED
      BY <2>1, <2>2, <3>1, RunTyped
  <2>3. CASE callbacks_ = <<>>
    <3>1. net' = Tail(net) /\ Skip
      BY <1>2, <2>3 DEF AnswerById
    <3> QED
      BY <1>0, <2>1, <3>1, QuietTyped DEF Skip, info, hist
  <2> QED
    BY <2>2, <2>3
<1>3. ASSUME NEW success \in BOOLEAN, AnswerAccept(success) PROVE Typed'
  <2>1. Tail(net) \in Seq(Known(applies))
    BY <1>3, Answering DEF AnswerAccept
  <2>2. CASE callbacks_ # <<>> /\ success
    <3>1. Run(TRUE, Tail(net)) /\ stolen' \in BOOLEAN
      BY <1>0, <1>3, <2>2 DEF AnswerAccept
    <3> QED
      BY <2>1, <2>2, <3>1, RunTyped
  <2>3. CASE ~(callbacks_ # <<>> /\ success)
    <3>1. /\ net' = Tail(net) /\ callbacks_' \in Seq(Closures)
          /\ UNCHANGED <<headWidgets_, lists, chat, page, info, dialog, hist>>
      BY <1>0, <1>3, <1>a, <2>3 DEF AnswerAccept
    <3> QED
      BY <1>0, <2>1, <3>1, QuietTyped DEF info, hist
  <2> QED
    BY <2>2, <2>3
<1>4. ASSUME NEW answer \in SearchAnswers, NEW id \in Ids, AnswerByAccount(answer, id)
      PROVE  Typed'
  <2>1. Tail(net) \in Seq(Known(applies))
    BY <1>4, Answering DEF AnswerByAccount
  <2>2. CASE callbacks_ # <<>>
    <3>1. Run(answer = "found", Tail(net)) /\ stolen' \in BOOLEAN
      BY <1>4, <2>2 DEF AnswerByAccount
    <3> QED
      BY <2>1, <2>2, <3>1, RunTyped
  <2>3. CASE net' = Tail(net) /\ Skip
    BY <1>0, <2>1, <2>3, QuietTyped DEF Skip, info, hist
  <2>4. CASE /\ infoId' = id /\ infoShown' = TRUE
             /\ headWidgets_' = Append(headWidgets_, InfoHead)
             /\ net' = Append(Tail(net), HeadReq(InfoHead))
             /\ UNCHANGED <<callbacks_, lists, chat, page, dialog, hist>>
    <3>1. HeadReq(InfoHead) \in Known(applies) /\ InfoHead \in Widgets
      BY Bounds, AskedIsKnown, ItemsAreWidgets
    <3>2. net' \in Seq(Known(applies)) /\ headWidgets_' \in Seq(Widgets)
      BY <1>0, <2>1, <2>4, <3>1
    <3> QED
      BY <1>0, <2>4, <3>2, QuietTyped DEF hist
  <2> QED
    BY <1>4, <2>2, <2>3, <2>4 DEF AnswerByAccount
<1>5. ASSUME NEW list \in Orders, AnswerFriends(list) PROVE Typed'
  <2>1. Tail(net) \in Seq(Known(applies))
    BY <1>5, Answering DEF AnswerFriends
  <2> QED
    BY <1>5, <2>1, FriendsTyped, ListIsSeq DEF AnswerFriends
<1>6. ASSUME NEW list \in Orders, AnswerApplies(list) PROVE Typed'
  <2>1. Tail(net) \in Seq(Known(applies))
    BY <1>6, Answering DEF AnswerApplies
  <2> QED
    BY <1>6, <2>1, AppliesTyped, ListIsSeq DEF AnswerApplies
<1>7. ASSUME NEW some \in BOOLEAN, AnswerFriendMsg(some) PROVE Typed'
  <2>1. Tail(net) \in Seq(Known(applies)) /\ Head(net) \in Known(applies)
        /\ Head(net).kind = "GET_FRIEND_MSG"
    BY <1>7, Answering DEF AnswerFriendMsg
  <2>2. CASE some
    <3>1. PICK p \in Users : Head(net).item = FriendItem(p)
      BY <2>1 DEF Known
    <3>2. Head(net).item[2] \in Ids
      BY <3>1 DEF FriendItem, Ids
    <3>3. msgId < MaxMsg /\ appendMsg(Head(net).item[2], Tail(net))
      BY <1>7, <2>2 DEF AnswerFriendMsg
    <3> QED
      BY <2>1, <3>2, <3>3, AppendTyped
  <2>3. CASE ~some
    <3>1. net' = Tail(net) /\ Skip
      BY <1>7, <2>3 DEF AnswerFriendMsg
    <3> QED
      BY <1>0, <2>1, <3>1, QuietTyped DEF Skip, info, hist
  <2> QED
    BY <2>2, <2>3
<1>8. ASSUME NEW id \in Ids, PushFriendMsg(id) PROVE Typed'
  BY <1>0, <1>8, AppendTyped DEF PushFriendMsg
<1>9. ASSUME NEW p \in Users, PushApply(p) PROVE Typed'
  <2>1. <<p>> \in Seq(Users)
    OBVIOUS
  <2> QED
    BY <1>0, <1>9, <2>1, AppliesTyped DEF PushApply
<1>10. ASSUME NEW p \in Users, PushFriend(p) PROVE Typed'
  <2>1. <<p>> \in Seq(Users)
    OBVIOUS
  <2> QED
    BY <1>0, <1>10, <2>1, FriendsTyped DEF PushFriend
<1> QED
  BY <1>1, <1>2, <1>3, <1>4, <1>5, <1>6, <1>7, <1>8, <1>9, <1>10 DEF Network

LEMMA TypedUser == Typed /\ User => Typed'
<1> SUFFICES ASSUME Typed, User PROVE Typed'
  OBVIOUS
<1>0. /\ headWidgets_ \in Seq(Widgets) /\ callbacks_ \in Seq(Closures)
      /\ net \in Seq(Known(applies)) /\ stolen \in BOOLEAN /\ headFailed \in BOOLEAN
      /\ page \in {"list", "search"} /\ infoId \in Ids /\ infoShown \in BOOLEAN
      /\ dialog \in Dialogs /\ NoDialog \in Dialogs
  BY DEF Typed, TypeOK, Dialogs
<1>w. ASSUME NEW kind \in {"accept", "reject"}, NEW n \in 1 .. applies,
             Whether(kind, ApplyItem(n))
      PROVE  net' \in Seq(Known(applies)) /\ callbacks_' \in Seq(Closures)
  <2>1. Req("WHETHER_ACCEPT_ADD_FRIEND", ApplyItem(n)) \in Known(applies)
    BY Bounds, AskedIsKnown
  <2>2. [kind |-> kind, item |-> ApplyItem(n)] \in Closures
    BY Bounds, ItemsAreWidgets DEF Closures
  <2> QED
    BY <1>0, <1>w, <2>1, <2>2 DEF Whether
<1>1. ASSUME NEW id \in Ids, SwitchUser(id) PROVE Typed'
  <2>1. id_' \in Ids /\ bubbles' = flushMsgInterface(id_, id, messages_)
        /\ UNCHANGED <<queues, lists, messages_, msgId, page, info, dialog, hist>>
    BY <1>1 DEF SwitchUser
  <2>2. bubbles' \in Seq(0 .. MaxMsg)
    BY <2>1, FlushIsSeq DEF Typed, TypeOK
  <2>3. UNCHANGED <<net, headWidgets_, callbacks_, friendlsit_, msgListWid_,
                    friendApplyList_, applies, alive, infoId, infoShown, dialog,
                    headFailed, stolen>>
    BY <2>1 DEF queues, lists, info, hist
  <2>4. TypeOK'
    BY <2>1, <2>2, <2>3 DEF Typed, TypeOK
  <2> QED
    BY <2>3, <2>4 DEF Typed, Dialogs, Made
<1>2. ASSUME NEW shown \in {"list", "search"}, SwitchListBar(shown) PROVE Typed'
  BY <1>0, <1>2, QuietTyped DEF SwitchListBar, queues, info, hist
<1>3. CASE SendMsg
  <2>1. id_ \in Ids
    BY <1>3 DEF SendMsg, Typed, TypeOK
  <2> QED
    BY <1>0, <1>3, <2>1, AppendTyped DEF SendMsg
<1>4. CASE SearchUser
  <2>1. Req("GET_USERINFO_BY_ACCOUNT", InfoHead) \in Known(applies)
    BY Bounds, AskedIsKnown
  <2>2. net' \in Seq(Known(applies))
    BY <1>0, <1>4, <2>1 DEF SearchUser
  <2> QED
    BY <1>0, <1>4, <2>2, QuietTyped DEF SearchUser, info, hist
<1>5. CASE InfoAdd
  <2>1. dialog' \in Dialogs
    BY <1>0, <1>5 DEF InfoAdd, Dialogs
  <2> QED
    BY <1>0, <1>5, <2>1, QuietTyped DEF InfoAdd, queues, hist
<1>6. CASE InfoExit
  BY <1>0, <1>6, QuietTyped DEF InfoExit, queues, hist
<1>7. CASE AddDone
  BY <1>0, <1>7, QuietTyped DEF AddDone, queues, hist
<1>8. ASSUME NEW p \in Users, RejectFriend(p) PROVE Typed'
  <2>1. friendApplyList_[p] \in 1 .. applies
    BY <1>8, Bounds DEF RejectFriend, Typed
  <2>2. net' \in Seq(Known(applies)) /\ callbacks_' \in Seq(Closures)
    BY <1>8, <1>w, <2>1 DEF RejectFriend
  <2> QED
    BY <1>0, <1>8, <2>2, QuietTyped DEF RejectFriend, info, hist
<1>9. ASSUME NEW p \in Users, AcceptFriend(p) PROVE Typed'
  <2>1. friendApplyList_[p] \in 1 .. applies
    BY <1>9, Bounds DEF AcceptFriend, Typed
  <2>2. dialog' \in Dialogs
    BY <1>9, <2>1 DEF AcceptFriend, Dialogs, Made
  <2> QED
    BY <1>0, <1>9, <2>2, QuietTyped DEF AcceptFriend, queues, info, hist
<1>10. ASSUME NEW accepted \in BOOLEAN, AcceptDone(accepted) PROVE Typed'
  <2>1. PICK n \in 1 .. applies : dialog.item = ApplyItem(n)
    BY <1>0, <1>10 DEF AcceptDone, Dialogs, Made, NoDialog
  <2>2. net' \in Seq(Known(applies)) /\ callbacks_' \in Seq(Closures)
    BY <1>0, <1>10, <1>w, <2>1 DEF AcceptDone
  <2> QED
    BY <1>0, <1>10, <2>2, QuietTyped DEF AcceptDone, info, hist
<1> QED
  BY <1>1, <1>2, <1>3, <1>4, <1>5, <1>6, <1>7, <1>8, <1>9, <1>10 DEF User

LEMMA TypedNext == Typed /\ [Next]_vars => Typed'
<1>1. Typed /\ UNCHANGED vars => Typed'
  BY DEF Typed, TypeOK, Dialogs, Made, vars, queues, lists, chat, info, hist
<1> QED
  BY <1>1, TypedNetwork, TypedUser DEF Next

\* TypeOK: lists, queues, requests and pages of the window hold what they should,
\* whatever comes while a dialog is open.
THEOREM WindowTypes == Spec => []TypeOK
<1>1. Typed => TypeOK
  BY DEF Typed
<1> QED
  BY <1>1, TypedInit, TypedNext, PTL DEF Spec

-------------------------------------------------------------------------------
(* What a step does to the requests on the net: it takes the first or none,    *)
(* and adds requests for new items, a search or a decision.                    *)

Heads(items) == [i \in DOMAIN items |-> HeadReq(items[i])]
Nicks(items) == [i \in DOMAIN items |-> NickReq(items[i])]
Msgs(items)  == [i \in DOMAIN items |-> Req("GET_FRIEND_MSG", items[i])]
Calls(items) == [i \in DOMAIN items |-> Nick(items[i])]

LEMMA MapsAreSeq ==
  ASSUME NEW W, NEW items \in Seq(W)
  PROVE  /\ Heads(items) \in Seq([kind : {"GET_USER_HEAD"}, item : W])
         /\ Nicks(items) \in Seq([kind : {"GET_USERINFO_BY_ID"}, item : W])
         /\ Msgs(items) \in Seq([kind : {"GET_FRIEND_MSG"}, item : W])
         /\ Calls(items) \in Seq([kind : {"nick"}, item : W])
         /\ Len(Heads(items)) = Len(items) /\ Len(Nicks(items)) = Len(items)
         /\ Len(Msgs(items)) = Len(items) /\ Len(Calls(items)) = Len(items)
         /\ \A i \in 1 .. Len(items) :
              /\ Heads(items)[i].item = items[i] /\ Nicks(items)[i].item = items[i]
              /\ Calls(items)[i].item = items[i]
<1>1. DOMAIN items = 1 .. Len(items) /\ Len(items) \in Nat
      /\ \A i \in 1 .. Len(items) : items[i] \in W
  OBVIOUS
<1>2. \A k, w : Req(k, w) = [kind |-> k, item |-> w]
  BY DEF Req
<1>3. Heads(items) \in Seq([kind : {"GET_USER_HEAD"}, item : W])
      /\ Len(Heads(items)) = Len(items)
      /\ \A i \in 1 .. Len(items) : Heads(items)[i].item = items[i]
  BY <1>1, <1>2 DEF Heads, HeadReq
<1>4. Nicks(items) \in Seq([kind : {"GET_USERINFO_BY_ID"}, item : W])
      /\ Len(Nicks(items)) = Len(items)
      /\ \A i \in 1 .. Len(items) : Nicks(items)[i].item = items[i]
  BY <1>1, <1>2 DEF Nicks, NickReq
<1>5. Msgs(items) \in Seq([kind : {"GET_FRIEND_MSG"}, item : W])
      /\ Len(Msgs(items)) = Len(items)
  BY <1>1, <1>2 DEF Msgs
<1>6. Calls(items) \in Seq([kind : {"nick"}, item : W])
      /\ Len(Calls(items)) = Len(items)
      /\ \A i \in 1 .. Len(items) : Calls(items)[i].item = items[i]
  BY <1>1 DEF Calls, Nick
<1> QED
  BY <1>3, <1>4, <1>5, <1>6

FriendItems == {FriendItem(p) : p \in Users}
ApplyItems(m, n) == {ApplyItem(k) : k \in m + 1 .. n}

LEMMA FriendsStep ==
  ASSUME NEW list \in Seq(Users), NEW sent, NewFriends(list, sent)
  PROVE  /\ \E items \in Seq(FriendItems) :
              /\ net' = sent \o Alternate(Heads(items), Msgs(items))
              /\ headWidgets_' = headWidgets_ \o items
         /\ UNCHANGED <<callbacks_, applies, alive, headFailed, stolen, infoId, dialog>>
<1> DEFINE new   == Without(list, friendlsit_)
           items == [i \in DOMAIN new |-> FriendItem(new[i])]
<1>1. new \in Seq(Users)
  BY WithoutIsSeq
<1>2. items \in Seq(FriendItems)
  <2> HIDE DEF new
  <2> QED
    BY <1>1 DEF FriendItems
<1>3. /\ net' = sent \o Alternate(Heads(items), Msgs(items))
      /\ headWidgets_' = headWidgets_ \o items
  BY DEF NewFriends, Heads, Msgs
<1> HIDE DEF items
<1> QED
  BY <1>2, <1>3 DEF NewFriends, info, hist

LEMMA AppliesStep ==
  ASSUME Typed, NEW list \in Seq(Users), NEW sent, NewApplies(list, sent)
  PROVE  /\ \E items \in Seq(ApplyItems(applies, applies')) :
              /\ net' = sent \o Alternate(Nicks(items), Heads(items))
              /\ headWidgets_' = headWidgets_ \o items
              /\ callbacks_' = callbacks_ \o Calls(items)
         /\ alive' = alive \cup (applies + 1 .. applies')
         /\ applies' \in Nat /\ applies <= applies'
         /\ UNCHANGED <<headFailed, stolen, infoId, dialog>>
<1> DEFINE items == [i \in DOMAIN list |-> ApplyItem(applies + i)]
<1>1. Len(list) \in Nat /\ DOMAIN list = 1 .. Len(list) /\ applies \in Nat
      /\ applies' = applies + Len(list)
  BY Bounds DEF NewApplies
<1>2. \A i \in 1 .. Len(list) : applies + i \in applies + 1 .. applies'
  BY <1>1
<1>3. items \in [1 .. Len(list) -> ApplyItems(applies, applies')]
  BY <1>1, <1>2 DEF ApplyItems
<1>4. /\ net' = sent \o Alternate(Nicks(items), Heads(items))
      /\ headWidgets_' = headWidgets_ \o items
      /\ callbacks_' = callbacks_ \o Calls(items)
  BY DEF NewApplies, Heads, Nicks, Calls
<1> HIDE DEF items
<1>5. items \in Seq(ApplyItems(applies, applies'))
  BY <1>1, <1>3
<1>6. /\ alive' = alive \cup (applies + 1 .. applies')
      /\ UNCHANGED <<headFailed, stolen, infoId, dialog>>
  BY DEF NewApplies, info, hist
<1>7. applies' \in Nat /\ applies <= applies'
  BY <1>1
<1> QED
  BY <1>4, <1>5, <1>6, <1>7, Zenon

\* Requests that neither search nor decide, and that are about an apply item only
\* when it is new.
Fresh(m, n) == {r \in Requests :
  /\ r.kind \notin {"GET_USERINFO_BY_ACCOUNT", "WHETHER_ACCEPT_ADD_FRIEND"}
  /\ r.item[1] = "apply" => r.item[2] \in m + 1 .. n}

Bases == {net} \cup (IF net # <<>> THEN {Tail(net)} ELSE {})
Decision(n) == Req("WHETHER_ACCEPT_ADD_FRIEND", ApplyItem(n))

NetStep ==
  \/ \E base \in Bases, new \in Seq(Fresh(applies, applies')) : net' = base \o new
  \/ /\ Idle
     /\ net' = Append(net, Req("GET_USERINFO_BY_ACCOUNT", InfoHead))
     /\ UNCHANGED <<applies, alive, dialog, infoId>>
  \/ /\ \E n \in 1 .. applies : net' = Append(net, Decision(n))
     /\ UNCHANGED <<applies, alive>>

LEMMA FreshNoItem ==
  ASSUME NEW m, NEW n, NEW w \in Widgets, w[1] # "apply",
         NEW k \in Kinds \ {"GET_USERINFO_BY_ACCOUNT", "WHETHER_ACCEPT_ADD_FRIEND"}
  PROVE  Req(k, w) \in Fresh(m, n)
  BY DEF Fresh, Req, Requests

LEMMA FriendsFresh ==
  ASSUME Typed, NEW list \in Seq(Users), NEW base \in Bases, NewFriends(list, base)
  PROVE  NetStep
<1>1. PICK items \in Seq(FriendItems) : net' = base \o Alternate(Heads(items), Msgs(items))
  BY FriendsStep
<1> DEFINE F == Fresh(applies, applies')
<1>2. /\ [kind : {"GET_USER_HEAD"}, item : FriendItems] \subseteq F
      /\ [kind : {"GET_FRIEND_MSG"}, item : FriendItems] \subseteq F
  BY ItemsAreWidgets DEF Fresh, Requests, Kinds, FriendItems
<1> HIDE DEF F
<1>3. Heads(items) \in Seq(F) /\ Msgs(items) \in Seq(F)
      /\ Len(Heads(items)) = Len(Msgs(items))
  BY <1>2, MapsAreSeq, SeqMonotonic
<1>4. Alternate(Heads(items), Msgs(items)) \in Seq(F)
  BY <1>3, AlternateIsSeq
<1> QED
  BY <1>1, <1>4 DEF NetStep, F

LEMMA AppliesFresh ==
  ASSUME Typed, NEW list \in Seq(Users), NEW base \in Bases, NewApplies(list, base)
  PROVE  NetStep
<1> DEFINE I == ApplyItems(applies, applies')
           F == Fresh(applies, applies')
<1>0. Typed' /\ applies' \in Nat /\ applies \in Nat /\ applies' <= MaxApplies
  <2>1. applies' \in Nat /\ applies' <= MaxApplies
    BY Bounds DEF NewApplies
  <2>2. applies \in Nat
    BY Bounds
  <2>3. Typed'
    <3>1. base \in Seq(Known(applies))
      BY HeadTailProperties DEF Typed, Bases
    <3> QED
      BY <3>1, AppliesTyped
  <2> QED
    BY <2>1, <2>2, <2>3
<1>1. PICK items \in Seq(I) : net' = base \o Alternate(Nicks(items), Heads(items))
  BY AppliesStep
<1>2. /\ [kind : {"GET_USER_HEAD"}, item : I] \subseteq F
      /\ [kind : {"GET_USERINFO_BY_ID"}, item : I] \subseteq F
  <2>1. \A w \in I : w \in Widgets /\ w[2] \in applies + 1 .. applies'
    BY <1>0, Bounds, ItemsAreWidgets DEF ApplyItems
  <2> QED
    BY <2>1 DEF Fresh, Requests, Kinds
<1> HIDE DEF F, I
<1>3. Heads(items) \in Seq(F) /\ Nicks(items) \in Seq(F)
      /\ Len(Heads(items)) = Len(Nicks(items))
  BY <1>2, MapsAreSeq, SeqMonotonic
<1>4. Alternate(Nicks(items), Heads(items)) \in Seq(F)
  BY <1>3, AlternateIsSeq
<1> QED
  BY <1>1, <1>4 DEF NetStep, F

LEMMA MessageFresh ==
  ASSUME Typed, NEW p \in Ids, NEW base \in Bases, appendMsg(p, base)
  PROVE  NetStep
<1> DEFINE F == Fresh(applies, applies')
           new == <<HeadReq(MsgItem(p)), NickReq(MsgItem(p))>>
<1>1. base \in Seq(Known(applies))
  BY HeadTailProperties DEF Typed, Bases
<1>2. HeadReq(MsgItem(p)) \in F /\ NickReq(MsgItem(p)) \in F
  BY FreshNoItem, ItemsAreWidgets DEF HeadReq, NickReq, Kinds
<1>3. net' = base \o new \/ net' = base \o <<>>
  BY <1>1, ConcatEmptySeq DEF appendMsg
<1>4. new \in Seq(F) /\ <<>> \in Seq(F)
  <2> HIDE DEF F
  <2> QED
    BY <1>2
<1> HIDE DEF new
<1> QED
  BY <1>3, <1>4 DEF NetStep

LEMMA KeepsNet == ASSUME Typed, net' \in Bases PROVE NetStep
<1>1. net' \in Seq(Known(applies))
  BY HeadTailProperties DEF Typed, Bases
<1>2. net' = net' \o <<>> /\ <<>> \in Seq(Fresh(applies, applies'))
  BY <1>1, ConcatEmptySeq, EmptySeq
<1> QED
  BY <1>2, Zenon DEF NetStep

LEMMA AddsRequest ==
  ASSUME Typed, NEW base \in Bases, NEW r \in Fresh(applies, applies'),
         net' = Append(base, r)
  PROVE  NetStep
<1>1. base \in Seq(Known(applies))
  BY HeadTailProperties DEF Typed, Bases
<1>2. Append(base, r) = base \o <<r>> /\ <<r>> \in Seq(Fresh(applies, applies'))
  <2> DEFINE F == Fresh(applies, applies')
             K == Known(applies)
  <2> HIDE DEF F, K
  <2>1. r \in F /\ base \in Seq(K)
    BY <1>1 DEF F, K
  <2>2. Append(base, r) = base \o <<r>> /\ <<r>> \in Seq(F)
    BY <2>1
  <2> QED
    BY <2>2 DEF F
<1> QED
  BY <1>2, Zenon DEF NetStep

LEMMA RunFresh ==
  ASSUME Typed, NEW base \in Bases, NEW success, Run(success, base)
  PROVE  NetStep
<1>1. Req("GET_FRIEND_LIST", MyHead) \in Fresh(applies, applies')
  BY FreshNoItem, ItemsAreWidgets DEF Kinds
<1>2. net' = base \/ net' = Append(base, Req("GET_FRIEND_LIST", MyHead))
  BY DEF Run
<1> QED
  BY <1>1, <1>2, KeepsNet, AddsRequest

LEMMA NetSteps == Typed /\ [Next]_vars => NetStep
<1> SUFFICES ASSUME Typed, [Next]_vars PROVE NetStep
  OBVIOUS
<1>0. net \in Bases /\ \A kind : Answered(kind) => Tail(net) \in Bases
  BY DEF Bases, Answered
<1>a. \A k : Decision(k) = Req("WHETHER_ACCEPT_ADD_FRIEND", ApplyItem(k))
  BY DEF Decision
<1>1. ASSUME NEW success \in BOOLEAN, AnswerUserHead(success) PROVE NetStep
  BY <1>0, <1>1, KeepsNet DEF AnswerUserHead
<1>2. ASSUME NEW success \in BOOLEAN, AnswerById(success) PROVE NetStep
  BY <1>0, <1>2, KeepsNet, RunFresh DEF AnswerById
<1>3. ASSUME NEW success \in BOOLEAN, AnswerAccept(success) PROVE NetStep
  BY <1>0, <1>3, KeepsNet, RunFresh DEF AnswerAccept
<1>4. ASSUME NEW answer \in SearchAnswers, NEW id \in Ids, AnswerByAccount(answer, id)
      PROVE  NetStep
  <2>1. HeadReq(InfoHead) \in Fresh(applies, applies')
    BY FreshNoItem, ItemsAreWidgets DEF HeadReq, Kinds
  <2> QED
    BY <1>0, <1>4, <2>1, KeepsNet, RunFresh, AddsRequest DEF AnswerByAccount
<1>5. ASSUME NEW list \in Orders, AnswerFriends(list) PROVE NetStep
  BY <1>0, <1>5, ListIsSeq, FriendsFresh DEF AnswerFriends
<1>6. ASSUME NEW list \in Orders, AnswerApplies(list) PROVE NetStep
  BY <1>0, <1>6, ListIsSeq, AppliesFresh DEF AnswerApplies
<1>7. ASSUME NEW some \in BOOLEAN, AnswerFriendMsg(some) PROVE NetStep
  <2>1. Head(net) \in Known(applies) /\ Head(net).kind = "GET_FRIEND_MSG"
    BY <1>7, Answering DEF AnswerFriendMsg
  <2>2. PICK p \in Users : Head(net).item = FriendItem(p)
    BY <2>1 DEF Known
  <2>3. Head(net).item[2] \in Ids
    BY <2>2 DEF FriendItem, Ids
  <2> QED
    BY <1>0, <1>7, <2>3, KeepsNet, MessageFresh DEF AnswerFriendMsg
<1>8. ASSUME NEW id \in Ids, PushFriendMsg(id) PROVE NetStep
  BY <1>0, <1>8, MessageFresh DEF PushFriendMsg
<1>9. ASSUME NEW p \in Users, PushApply(p) PROVE NetStep
  <2>1. <<p>> \in Seq(Users)
    OBVIOUS
  <2> QED
    BY <1>0, <1>9, <2>1, AppliesFresh DEF PushApply
<1>10. ASSUME NEW p \in Users, PushFriend(p) PROVE NetStep
  <2>1. <<p>> \in Seq(Users)
    OBVIOUS
  <2> QED
    BY <1>0, <1>10, <2>1, FriendsFresh DEF PushFriend
<1>11. ASSUME NEW id \in Ids, SwitchUser(id) PROVE NetStep
  BY <1>0, <1>11, KeepsNet DEF SwitchUser, queues
<1>12. ASSUME NEW shown \in {"list", "search"}, SwitchListBar(shown) PROVE NetStep
  BY <1>0, <1>12, KeepsNet DEF SwitchListBar, queues
<1>13. CASE SendMsg
  <2>1. id_ \in Ids
    BY <1>13 DEF SendMsg, Typed, TypeOK
  <2> QED
    BY <1>0, <1>13, <2>1, MessageFresh DEF SendMsg
<1>14. CASE SearchUser
  BY <1>14 DEF SearchUser, NetStep, lists, info
<1>15. CASE InfoAdd \/ InfoExit \/ AddDone
  BY <1>0, <1>15, KeepsNet DEF InfoAdd, InfoExit, AddDone, queues
<1>16. ASSUME NEW p \in Users, RejectFriend(p) PROVE NetStep
  <2>1. friendApplyList_[p] \in 1 .. applies
    BY <1>16, Bounds DEF RejectFriend, Typed
  <2> QED
    BY <1>16, <1>a, <2>1 DEF RejectFriend, Whether, NetStep, lists
<1>17. ASSUME NEW p \in Users, AcceptFriend(p) PROVE NetStep
  BY <1>0, <1>17, KeepsNet DEF AcceptFriend, queues
<1>18. ASSUME NEW accepted \in BOOLEAN, AcceptDone(accepted) PROVE NetStep
  <2>1. PICK n \in 1 .. applies : dialog.item = ApplyItem(n)
    BY <1>18 DEF AcceptDone, Typed, Dialogs, Made, NoDialog
  <2>2. CASE accepted
    BY <1>18, <1>a, <2>1, <2>2 DEF AcceptDone, Whether, NetStep, lists
  <2>3. CASE ~accepted
    BY <1>0, <1>18, <2>3, KeepsNet DEF AcceptDone
  <2> QED
    BY <2>2, <2>3
<1>19. CASE UNCHANGED vars
  BY <1>0, <1>19, KeepsNet DEF vars, queues
<1> QED
  BY <1>1, <1>2, <1>3, <1>4, <1>5, <1>6, <1>7, <1>8, <1>9, <1>10, <1>11, <1>12,
     <1>13, <1>14, <1>15, <1>16, <1>17, <1>18, <1>19 DEF Next, Network, User

-------------------------------------------------------------------------------
(* The user a friend request is made to.                                       *)

\* While the dialog is open and no search was under way, none is.
Plain == {r \in Requests : r.kind # "GET_USERINFO_BY_ACCOUNT"}
Shown ==
  dialog.kind = "add" /\ ~dialog.searching => infoId = dialog.id /\ net \in Seq(Plain)

LEMMA PlainStaysPlain ==
  ASSUME Typed, [Next]_vars, net \in Seq(Plain), dialog.kind = "add"
  PROVE  net' \in Seq(Plain)
<1>1. CASE \E base \in Bases, new \in Seq(Fresh(applies, applies')) : net' = base \o new
  <2>1. PICK base \in Bases, new \in Seq(Fresh(applies, applies')) : net' = base \o new
    BY <1>1
  <2>2. base \in Seq(Plain)
    BY HeadTailProperties DEF Bases
  <2>3. Fresh(applies, applies') \subseteq Plain
    BY DEF Fresh, Plain
  <2>4. new \in Seq(Plain)
    BY <2>3, SeqMonotonic
  <2> QED
    BY <2>1, <2>2, <2>4, ConcatProperties
<1>2. CASE Idle
  BY <1>2 DEF Idle, NoDialog
<1>3. CASE \E n \in 1 .. applies : net' = Append(net, Decision(n))
  <2>1. \A n \in 1 .. applies : Decision(n) \in Plain
    BY Bounds, AskedIsKnown, ItemsAreWidgets DEF Decision, Plain, Requests, Req, Kinds
  <2> QED
    BY <1>3, <2>1, AppendProperties
<1> QED
  BY <1>1, <1>2, <1>3, NetSteps DEF NetStep

\* The id under the dialog changes with the answer to a search only, and the dialog
\* is opened on what is shown.
LEMMA ShownSteps ==
  ASSUME Typed, [Next]_vars
  PROVE  \/ dialog' = dialog /\ infoId' = infoId
         \/ dialog' = dialog /\ \E i \in DOMAIN net : net[i].kind = "GET_USERINFO_BY_ACCOUNT"
         \/ dialog'.kind # "add"
         \/ /\ dialog' = [kind |-> "add", id |-> infoId,
                          searching |-> \E i \in DOMAIN net :
                                          net[i].kind = "GET_USERINFO_BY_ACCOUNT"]
            /\ infoId' = infoId /\ net' = net
<1> DEFINE Same == dialog' = dialog /\ infoId' = infoId
<1>0. Skip => Same
  BY DEF Skip, info
<1>r. ASSUME NEW success, NEW rest, Run(success, rest) PROVE Same
  BY <1>r DEF Run, info
<1>m. ASSUME NEW p, NEW sent, appendMsg(p, sent) PROVE Same
  BY <1>m DEF appendMsg, info
<1>f. ASSUME NEW list, NEW sent, NewFriends(list, sent) PROVE Same
  BY <1>f DEF NewFriends, info
<1>a. ASSUME NEW list, NEW sent, NewApplies(list, sent) PROVE Same
  BY <1>a DEF NewApplies, info
<1> HIDE DEF Same
<1>1. ASSUME NEW answer, NEW id, AnswerByAccount(answer, id)
      PROVE  dialog' = dialog /\ \E i \in DOMAIN net : net[i].kind = "GET_USERINFO_BY_ACCOUNT"
  <2>1. net # <<>> /\ Head(net).kind = "GET_USERINFO_BY_ACCOUNT" /\ net \in Seq(Requests)
    BY <1>1 DEF AnswerByAccount, Answered, Typed, TypeOK
  <2>2. 1 \in DOMAIN net /\ net[1].kind = "GET_USERINFO_BY_ACCOUNT"
    BY <2>1
  <2>3. dialog' = dialog
    BY <1>0, <1>1, <1>r DEF AnswerByAccount, Same
  <2> QED
    BY <2>2, <2>3
<1>2. ASSUME Network PROVE Same \/ \E answer, id : AnswerByAccount(answer, id)
  <2>1. ASSUME NEW success, AnswerUserHead(success) PROVE Same
    BY <2>1 DEF AnswerUserHead, info, Same
  <2>2. ASSUME NEW success, AnswerAccept(success) PROVE Same
    BY <2>2, <1>r DEF AnswerAccept, info, Same
  <2> QED
    BY <1>0, <1>2, <1>r, <1>m, <1>f, <1>a, <2>1, <2>2
    DEF Network, AnswerById, AnswerFriends, AnswerApplies, AnswerFriendMsg,
        PushFriendMsg, PushApply, PushFriend
<1>3. ASSUME User
      PROVE  \/ Same \/ dialog'.kind # "add"
             \/ /\ dialog' = [kind |-> "add", id |-> infoId,
                              searching |-> \E i \in DOMAIN net :
                                              net[i].kind = "GET_USERINFO_BY_ACCOUNT"]
                /\ infoId' = infoId /\ net' = net
  <2>1. ASSUME NEW id, SwitchUser(id) PROVE Same
    BY <2>1 DEF SwitchUser, info, Same
  <2>2. ASSUME NEW shown, SwitchListBar(shown) PROVE Same
    BY <2>2 DEF SwitchListBar, info, Same
  <2>3. CASE SendMsg \/ SearchUser \/ InfoExit
    BY <2>3, <1>m DEF SendMsg, SearchUser, InfoExit, info, Same
  <2>4. ASSUME NEW p, RejectFriend(p) PROVE Same
    BY <2>4 DEF RejectFriend, info, Same
  <2>5. ASSUME NEW p, AcceptFriend(p) PROVE dialog'.kind # "add"
    BY <2>5 DEF AcceptFriend
  <2>6. ASSUME NEW accepted, AcceptDone(accepted) PROVE dialog'.kind # "add"
    BY <2>6 DEF AcceptDone, NoDialog
  <2>7. CASE AddDone
    BY <2>7 DEF AddDone, NoDialog
  <2>8. CASE InfoAdd
    BY <2>8 DEF InfoAdd, queues
  <2> QED
    BY <1>3, <2>1, <2>2, <2>3, <2>4, <2>5, <2>6, <2>7, <2>8 DEF User
<1>4. CASE UNCHANGED vars
  BY <1>4 DEF vars, info, Same
<1> QED
  BY <1>1, <1>2, <1>3, <1>4 DEF Next, Same

LEMMA ShownInit == Init => Shown
  BY DEF Init, Shown, NoDialog

LEMMA ShownNext == Typed /\ Shown /\ [Next]_vars => Shown'
<1> SUFFICES ASSUME Typed, Shown, [Next]_vars, dialog'.kind = "add", ~dialog'.searching
             PROVE  infoId' = dialog'.id /\ net' \in Seq(Plain)
  BY DEF Shown
<1>1. ASSUME dialog' = dialog PROVE net \in Seq(Plain) /\ infoId = dialog.id
                                    /\ net' \in Seq(Plain)
  BY <1>1, PlainStaysPlain DEF Shown
<1>2. ASSUME dialog' = dialog, NEW i \in DOMAIN net, net[i].kind = "GET_USERINFO_BY_ACCOUNT"
      PROVE  FALSE
  <2>1. net[i] \in Plain
    BY <1>1, <1>2
  <2> QED
    BY <1>2, <2>1 DEF Plain
<1>3. CASE /\ dialog' = [kind |-> "add", id |-> infoId,
                         searching |-> \E i \in DOMAIN net :
                                         net[i].kind = "GET_USERINFO_BY_ACCOUNT"]
           /\ infoId' = infoId /\ net' = net
  <2>1. \A i \in DOMAIN net : net[i].kind # "GET_USERINFO_BY_ACCOUNT"
    BY <1>3
  <2>2. net \in Seq(Requests)
    BY DEF Typed, TypeOK
  <2>3. \A i \in 1 .. Len(net) : net[i] \in Plain
    BY <2>1, <2>2 DEF Plain
  <2>4. net \in Seq(Plain)
    BY <2>2, <2>3
  <2> QED
    BY <1>3, <2>4
<1> QED
  BY <1>1, <1>2, <1>3, ShownSteps

\* AddsShownUser: a friend request goes to the user whose dialog was confirmed, unless
\* a search was under way then, whose answer replaces the id under the dialog.
THEOREM RequestsGoToShownUser == Spec => []AddsShownUser
<1>1. Shown => AddsShownUser
  BY DEF Shown, AddsShownUser
<1>2. Typed /\ Shown /\ [Next]_vars => (Typed /\ Shown)'
  BY TypedNext, ShownNext
<1> QED
  BY <1>1, <1>2, TypedInit, ShownInit, PTL DEF Spec

-------------------------------------------------------------------------------
(* The chat page.                                                              *)

\* Messages are numbered, so that a new one is in no page yet.
Numbered == \A p \in Ids : \A i \in DOMAIN messages_[p] : messages_[p][i] < msgId

Pages == PageShowsPeer /\ Numbered

LEMMA WithoutNothing ==
  ASSUME NEW S, NEW s \in Seq(S)
  PROVE  Without(s, {}) = s /\ Without(s, Range(s)) = <<>>
<1>1. \A i \in 1 .. Len(s) : s[i] \in Range(s) \ {} /\ s[i] \notin Range(s) \ Range(s)
  BY DEF Range
<1> QED
  BY <1>1, OnlyAll, OnlyNone DEF Without

\* A page that shows its peer shows the new one after a switch.
LEMMA FlushSwitches ==
  ASSUME NEW S, NEW all \in [Ids -> Seq(S)],
         NEW old \in Ids \cup {Nobody}, NEW id \in Ids \cup {Nobody},
         bubbles = MessagesOf(old, all)
  PROVE  flushMsgInterface(old, id, all) = MessagesOf(id, all)
<1> DEFINE B == MessagesOf(old, all)
           M == MessagesOf(id, all)
<1>1. B \in Seq(S) /\ M \in Seq(S)
  BY MessagesAreSeq
<1> HIDE DEF B, M
<1>2. bubbles = B
  BY DEF B
<1>3. CASE old = id
  <2>1. flushMsgInterface(old, id, all) = Without(B, {}) \o Without(M, Range(Without(B, {})))
    BY <1>2, <1>3 DEF flushMsgInterface, M
  <2>2. Without(B, {}) = B /\ M = B
    BY <1>1, <1>3, WithoutNothing DEF B, M
  <2>3. Without(M, Range(Without(B, {}))) = <<>>
    BY <1>1, <2>2, WithoutNothing, Zenon
  <2>4. B \o <<>> = B
    BY <1>1, ConcatEmptySeq
  <2> QED
    BY <2>1, <2>2, <2>3, <2>4, Zenon DEF M
<1>4. CASE old # id
  <2>1. flushMsgInterface(old, id, all)
          = Without(B, Range(B)) \o Without(M, Range(Without(B, Range(B))))
    BY <1>2, <1>4 DEF flushMsgInterface, B, M
  <2>2. Without(B, Range(B)) = <<>>
    BY <1>1, WithoutNothing
  <2>3. Range(<<>>) = {}
    BY DEF Range
  <2>4. Without(M, {}) = M /\ <<>> \o M = M
    BY <1>1, WithoutNothing, ConcatEmptySeq
  <2> QED
    BY <2>1, <2>2, <2>3, <2>4, Zenon DEF M
<1> QED
  BY <1>3, <1>4

\* A page that shows its peer shows a new message of the peer, too.
LEMMA FlushAppends ==
  ASSUME NEW S, bubbles \in Seq(S), NEW m \in S, m \notin Range(bubbles),
         NEW all, NEW id, MessagesOf(id, all) = Append(bubbles, m)
  PROVE  flushMsgInterface(id, id, all) = Append(bubbles, m)
<1> DEFINE b == bubbles
           a == Append(b, m)
           V == Range(a) \ Range(b)
<1>1. flushMsgInterface(id, id, all) = Without(b, {}) \o Without(a, Range(Without(b, {})))
  BY DEF flushMsgInterface
<1>2. Without(b, {}) = b
  BY WithoutNothing
<1>3. m \in V
  BY DEF Range
<1>4. \A i \in 1 .. Len(b) : b[i] \notin V
  BY DEF Range
<1> HIDE DEF V
<1>5. Only(b, V) = <<>>
  BY <1>4, OnlyNone
<1>6. Only(a, V) = Append(<<>>, m)
  BY <1>3, <1>5, OnlyAppend
<1>7. Without(a, Range(b)) = Append(<<>>, m)
  BY <1>6 DEF Without, V
<1>8. b \o Append(<<>>, m) = Append(b, m)
  OBVIOUS
<1> QED
  BY <1>1, <1>2, <1>7, <1>8, Zenon

LEMMA PagesAppend ==
  ASSUME Typed, Pages, NEW p \in Ids, NEW sent, msgId < MaxMsg, appendMsg(p, sent)
  PROVE  Pages'
<1> DEFINE all == [messages_ EXCEPT ![p] = Append(@, msgId)]
           S   == 0 .. MaxMsg
<1>1. /\ messages_ \in [Ids -> Seq(S)] /\ msgId \in S /\ msgId \in Nat
      /\ id_ \in Ids \cup {Nobody} /\ MaxMsg \in Nat
  BY Bounds DEF Typed, TypeOK
<1>2. /\ messages_' = all /\ msgId' = msgId + 1 /\ id_' = id_
      /\ bubbles' = IF p = id_ THEN flushMsgInterface(id_, id_, all) ELSE bubbles
  BY DEF appendMsg
<1>3. /\ all \in [Ids -> Seq(S)] /\ all[p] = Append(messages_[p], msgId)
      /\ \A q \in Ids : q # p => all[q] = messages_[q]
  <2> HIDE DEF S
  <2> QED
    BY <1>1
<1>4. bubbles = MessagesOf(id_, messages_)
  BY DEF Pages, PageShowsPeer
<1> HIDE DEF all
<1>5. bubbles' = MessagesOf(id_, all)
  <2>1. CASE id_ = Nobody
    <3>1. MessagesOf(id_, all) = <<>> /\ bubbles = MessagesOf(id_, all)
      BY <1>4, <2>1 DEF MessagesOf
    <3>2. flushMsgInterface(id_, id_, all) = MessagesOf(id_, all)
      BY <1>1, <1>3, <3>1, FlushSwitches
    <3> QED
      BY <1>2, <3>1, <3>2
  <2>2. CASE id_ # Nobody /\ p # id_
    BY <1>1, <1>2, <1>3, <1>4, <2>2 DEF MessagesOf
  <2>3. CASE id_ # Nobody /\ p = id_
    <3>1. bubbles = messages_[p] /\ MessagesOf(id_, all) = Append(messages_[p], msgId)
      BY <1>3, <1>4, <2>3 DEF MessagesOf
    <3>2. messages_[p] \in Seq(S)
      BY <1>1
    <3>3. msgId \notin Range(messages_[p])
      <4>1. \A i \in DOMAIN messages_[p] : messages_[p][i] # msgId
        <5>1. \A i \in DOMAIN messages_[p] : messages_[p][i] < msgId
          BY DEF Pages, Numbered
        <5> QED
          BY <1>1, <5>1
      <4> QED
        BY <4>1 DEF Range
    <3>4. flushMsgInterface(id_, id_, all) = Append(messages_[p], msgId)
      <4>1. /\ bubbles \in Seq(S) /\ msgId \notin Range(bubbles)
            /\ MessagesOf(id_, all) = Append(bubbles, msgId)
        BY <3>1, <3>2, <3>3
      <4> HIDE DEF S
      <4>2. flushMsgInterface(id_, id_, all) = Append(bubbles, msgId)
        BY <1>1, <4>1, FlushAppends
      <4> QED
        BY <3>1, <4>2
    <3> QED
      BY <1>2, <2>3, <3>1, <3>4
  <2> QED
    BY <2>1, <2>2, <2>3
<1>6. Numbered'
  <2> SUFFICES ASSUME NEW q \in Ids, NEW i \in DOMAIN all[q] PROVE all[q][i] < msgId + 1
    BY <1>2 DEF Numbered
  <2>1. messages_[q] \in Seq(S)
    BY <1>1
  <2>2. \A j \in DOMAIN messages_[q] : messages_[q][j] < msgId
    BY DEF Pages, Numbered
  <2>3. \A j \in DOMAIN messages_[q] : messages_[q][j] \in Int
    <3>1. \A x \in S : x \in Int
      OBVIOUS
    <3> DEFINE b == messages_[q]
    <3> HIDE DEF S, b
    <3>2. b \in Seq(S)
      BY <2>1 DEF b
    <3>3. \A j \in DOMAIN b : b[j] \in S
      BY <3>2
    <3> QED
      BY <3>1, <3>3 DEF b
  <2>4. CASE q # p
    <3>1. all[q] = messages_[q]
      BY <1>3, <2>4
    <3>2. all[q][i] \in Int /\ all[q][i] < msgId
      BY <2>2, <2>3, <3>1
    <3> QED
      BY <1>1, <3>2
  <2>5. CASE q = p
    <3> DEFINE b == messages_[q]
    <3>1. all[q] = Append(b, msgId)
      BY <1>3, <2>5
    <3>2. b \in Seq(S)
      BY <2>1
    <3> HIDE DEF b, S
    <3>3. i \in DOMAIN b \/ all[q][i] = msgId
      BY <3>1, <3>2
    <3>4. i \in DOMAIN b => all[q][i] = b[i]
      BY <3>1, <3>2
    <3> QED
      BY <1>1, <2>2, <2>3, <3>3, <3>4 DEF b
  <2> QED
    BY <2>4, <2>5
<1> QED
  BY <1>2, <1>5, <1>6 DEF Pages, PageShowsPeer

LEMMA PagesInit == Init => Pages
  BY DEF Init, Pages, PageShowsPeer, Numbered, MessagesOf

LEMMA PagesNext == Typed /\ Pages /\ [Next]_vars => Pages'
<1> SUFFICES ASSUME Typed, Pages, [Next]_vars PROVE Pages'
  OBVIOUS
<1>s. ASSUME UNCHANGED chat PROVE Pages'
  BY <1>s DEF Pages, PageShowsPeer, Numbered, chat
<1>r. ASSUME NEW success, NEW rest, Run(success, rest) PROVE Pages'
  BY <1>r, <1>s DEF Run
<1>f. ASSUME NEW list, NEW sent, NewFriends(list, sent) PROVE Pages'
  BY <1>f, <1>s DEF NewFriends
<1>a. ASSUME NEW list, NEW sent, NewApplies(list, sent) PROVE Pages'
  BY <1>a, <1>s DEF NewApplies
<1>k. Skip => Pages'
  BY <1>s DEF Skip
<1>1. ASSUME NEW success \in BOOLEAN, AnswerUserHead(success) PROVE Pages'
  BY <1>1, <1>s DEF AnswerUserHead
<1>2. ASSUME NEW success \in BOOLEAN, AnswerAccept(success) PROVE Pages'
  BY <1>2, <1>r, <1>s DEF AnswerAccept
<1>3. ASSUME NEW answer \in SearchAnswers, NEW id \in Ids, AnswerByAccount(answer, id)
      PROVE  Pages'
  BY <1>3, <1>r, <1>k, <1>s DEF AnswerByAccount
<1>4. ASSUME NEW some \in BOOLEAN, AnswerFriendMsg(some) PROVE Pages'
  <2>1. Head(net) \in Known(applies) /\ Head(net).kind = "GET_FRIEND_MSG"
    BY <1>4, Answering DEF AnswerFriendMsg
  <2>2. PICK p \in Users : Head(net).item = FriendItem(p)
    BY <2>1 DEF Known
  <2>3. Head(net).item[2] \in Ids
    BY <2>2 DEF FriendItem, Ids
  <2> QED
    BY <1>4, <1>k, <2>3, PagesAppend DEF AnswerFriendMsg
<1>5. ASSUME Network PROVE Pages'
  BY <1>5, <1>1, <1>2, <1>3, <1>4, <1>r, <1>f, <1>a, <1>k, PagesAppend
  DEF Network, AnswerById, AnswerFriends, AnswerApplies, PushFriendMsg, PushApply,
      PushFriend
<1>6. ASSUME NEW id \in Ids, SwitchUser(id) PROVE Pages'
  <2>1. messages_ \in [Ids -> Seq(0 .. MaxMsg)] /\ id_ \in Ids \cup {Nobody}
    BY DEF Typed, TypeOK
  <2>2. flushMsgInterface(id_, id, messages_) = MessagesOf(id, messages_)
    BY <2>1, FlushSwitches DEF Pages, PageShowsPeer
  <2> QED
    BY <1>6, <2>2 DEF SwitchUser, Pages, PageShowsPeer, Numbered
<1>7. CASE SendMsg
  <2>1. id_ \in Ids
    BY <1>7 DEF SendMsg, Typed, TypeOK
  <2> QED
    BY <1>7, <2>1, PagesAppend DEF SendMsg
<1>8. ASSUME User PROVE Pages'
  BY <1>8, <1>6, <1>7, <1>s
  DEF User, SwitchListBar, SearchUser, InfoAdd, InfoExit, AddDone, RejectFriend,
      AcceptFriend, AcceptDone
<1>9. CASE UNCHANGED vars
  BY <1>9, <1>s DEF vars
<1> QED
  BY <1>5, <1>8, <1>9 DEF Next

\* PageShowsPeer: the page shows the messages with its user, in order and once,
\* however history, pushes, sending and switching between users mix.
THEOREM PagesShowTheirPeer == Spec => []PageShowsPeer
<1>1. Pages => PageShowsPeer
  BY DEF Pages
<1>2. Typed /\ Pages /\ [Next]_vars => (Typed /\ Pages)'
  BY TypedNext, PagesNext
<1> QED
  BY <1>1, <1>2, TypedInit, PagesInit, PTL DEF Spec

-------------------------------------------------------------------------------
(* Which answer goes to whom.                                                  *)

Heading == [kind : {"GET_USER_HEAD"}, item : Widgets]
Asking  == [kind : {"GET_USERINFO_BY_ID", "WHETHER_ACCEPT_ADD_FRIEND"}, item : Widgets]

\* The labels h are those of the requests n for a head, and the closures c those of
\* the requests n that have one: those for a nick have a closure for a nick.
HeadsMatch(n, h) ==
  /\ Len(h) = Len(Only(n, Heading))
  /\ \A i \in 1 .. Len(h) : h[i] = Only(n, Heading)[i].item
CallsMatch(n, c) ==
  /\ Len(c) = Len(Only(n, Asking))
  /\ \A i \in 1 .. Len(c) :
       /\ c[i].item = Only(n, Asking)[i].item
       /\ c[i].kind = "nick" <=> Only(n, Asking)[i].kind = "GET_USERINFO_BY_ID"

MatchOf(n, h, c) ==
  /\ ~headFailed => HeadsMatch(n, h)
  /\ ~stolen => CallsMatch(n, c)

Matching == MatchOf(net, headWidgets_, callbacks_)

LEMMA HeadsConcat ==
  ASSUME NEW n \in Seq(Requests), NEW m \in Seq(Requests),
         NEW h \in Seq(Widgets), NEW k \in Seq(Widgets),
         HeadsMatch(n, h), HeadsMatch(m, k)
  PROVE  HeadsMatch(n \o m, h \o k)
<1> DEFINE N == Only(n, Heading)
           M == Only(m, Heading)
<1>1. Only(n \o m, Heading) = N \o M
  BY OnlyConcat
<1>2. N \in Seq(Requests \cap Heading) /\ M \in Seq(Requests \cap Heading)
  BY OnlyIsSeq
<1>3. /\ Len(h) = Len(N) /\ \A i \in 1 .. Len(h) : h[i] = N[i].item
      /\ Len(k) = Len(M) /\ \A i \in 1 .. Len(k) : k[i] = M[i].item
  BY DEF HeadsMatch
<1> DEFINE S == Requests \cap Heading
<1> HIDE DEF N, M, S
<1>4. /\ Len(N \o M) = Len(N) + Len(M) /\ Len(N) \in Nat /\ Len(M) \in Nat
      /\ \A i \in 1 .. Len(N) + Len(M) :
           (N \o M)[i] = IF i <= Len(N) THEN N[i] ELSE M[i - Len(N)]
  <2>1. N \in Seq(S) /\ M \in Seq(S)
    BY <1>2 DEF S
  <2> QED
    BY <2>1
<1>5. /\ Len(h \o k) = Len(h) + Len(k)
      /\ \A i \in 1 .. Len(h) + Len(k) :
           (h \o k)[i] = IF i <= Len(h) THEN h[i] ELSE k[i - Len(h)]
  OBVIOUS
<1>6. \A i \in 1 .. Len(h) + Len(k) : (h \o k)[i] = (N \o M)[i].item
  <2> TAKE i \in 1 .. Len(h) + Len(k)
  <2>1. CASE i <= Len(h)
    BY <1>3, <1>4, <1>5, <2>1
  <2>2. CASE ~(i <= Len(h))
    <3>1. i - Len(h) \in 1 .. Len(k)
      BY <1>3, <1>4, <2>2
    <3> QED
      BY <1>3, <1>4, <1>5, <2>2, <3>1
  <2> QED
    BY <2>1, <2>2
<1> QED
  BY <1>1, <1>3, <1>4, <1>5, <1>6 DEF HeadsMatch

LEMMA CallsConcat ==
  ASSUME NEW n \in Seq(Requests), NEW m \in Seq(Requests),
         NEW h \in Seq(Closures), NEW k \in Seq(Closures),
         CallsMatch(n, h), CallsMatch(m, k)
  PROVE  CallsMatch(n \o m, h \o k)
<1> DEFINE N == Only(n, Asking)
           M == Only(m, Asking)
           Fits(c, r) == c.item = r.item /\ (c.kind = "nick" <=> r.kind = "GET_USERINFO_BY_ID")
<1>1. Only(n \o m, Asking) = N \o M
  BY OnlyConcat
<1>2. N \in Seq(Requests \cap Asking) /\ M \in Seq(Requests \cap Asking)
  BY OnlyIsSeq
<1>3. /\ Len(h) = Len(N) /\ \A i \in 1 .. Len(h) : Fits(h[i], N[i])
      /\ Len(k) = Len(M) /\ \A i \in 1 .. Len(k) : Fits(k[i], M[i])
  BY DEF CallsMatch
<1> DEFINE S == Requests \cap Asking
<1> HIDE DEF N, M, S, Fits
<1>4. /\ Len(N \o M) = Len(N) + Len(M) /\ Len(N) \in Nat /\ Len(M) \in Nat
      /\ \A i \in 1 .. Len(N) + Len(M) :
           (N \o M)[i] = IF i <= Len(N) THEN N[i] ELSE M[i - Len(N)]
  <2>1. N \in Seq(S) /\ M \in Seq(S)
    BY <1>2 DEF S
  <2> QED
    BY <2>1
<1>5. /\ Len(h \o k) = Len(h) + Len(k)
      /\ \A i \in 1 .. Len(h) + Len(k) :
           (h \o k)[i] = IF i <= Len(h) THEN h[i] ELSE k[i - Len(h)]
  OBVIOUS
<1>6. \A i \in 1 .. Len(h) + Len(k) : Fits((h \o k)[i], (N \o M)[i])
  <2> TAKE i \in 1 .. Len(h) + Len(k)
  <2>1. CASE i <= Len(h)
    BY <1>3, <1>4, <1>5, <2>1
  <2>2. CASE ~(i <= Len(h))
    <3>1. i - Len(h) \in 1 .. Len(k)
      BY <1>3, <1>4, <2>2
    <3> QED
      BY <1>3, <1>4, <1>5, <2>2, <3>1
  <2> QED
    BY <2>1, <2>2
<1> QED
  BY <1>1, <1>3, <1>4, <1>5, <1>6 DEF CallsMatch, Fits

\* One request.
LEMMA OnlyOne ==
  ASSUME NEW r, NEW V PROVE Only(<<r>>, V) = IF r \in V THEN <<r>> ELSE <<>>
<1>1. <<>> \in Seq({r}) /\ r \in {r} /\ <<r>> = Append(<<>>, r)
  OBVIOUS
<1>2. Only(Append(<<>>, r), V) = IF r \in V THEN Append(Only(<<>>, V), r) ELSE Only(<<>>, V)
  BY <1>1, OnlyAppend
<1> QED
  BY <1>1, <1>2, OnlyEmpty, Zenon

LEMMA MatchOne ==
  ASSUME NEW r
  PROVE  /\ r \in Heading => HeadsMatch(<<r>>, <<r.item>>)
         /\ r \notin Heading => HeadsMatch(<<r>>, <<>>)
         /\ r \notin Asking => CallsMatch(<<r>>, <<>>)
         /\ \A c : r \in Asking /\ c.item = r.item
                   /\ (c.kind = "nick" <=> r.kind = "GET_USERINFO_BY_ID")
                     => CallsMatch(<<r>>, <<c>>)
<1>1. r \in Heading => HeadsMatch(<<r>>, <<r.item>>)
  <2> SUFFICES ASSUME r \in Heading PROVE HeadsMatch(<<r>>, <<r.item>>)
    OBVIOUS
  <2>1. Only(<<r>>, Heading) = <<r>>
    BY OnlyOne
  <2> QED
    BY <2>1 DEF HeadsMatch
<1>2. r \notin Heading => HeadsMatch(<<r>>, <<>>)
  <2> SUFFICES ASSUME r \notin Heading PROVE HeadsMatch(<<r>>, <<>>)
    OBVIOUS
  <2>1. Only(<<r>>, Heading) = <<>>
    BY OnlyOne
  <2> QED
    BY <2>1 DEF HeadsMatch
<1>3. r \notin Asking => CallsMatch(<<r>>, <<>>)
  <2> SUFFICES ASSUME r \notin Asking PROVE CallsMatch(<<r>>, <<>>)
    OBVIOUS
  <2>1. Only(<<r>>, Asking) = <<>>
    BY OnlyOne
  <2> QED
    BY <2>1 DEF CallsMatch
<1>4. ASSUME NEW c, r \in Asking, c.item = r.item,
             c.kind = "nick" <=> r.kind = "GET_USERINFO_BY_ID"
      PROVE  CallsMatch(<<r>>, <<c>>)
  <2>1. Only(<<r>>, Asking) = <<r>>
    BY <1>4, OnlyOne
  <2> QED
    BY <1>4, <2>1 DEF CallsMatch
<1> QED
  BY <1>1, <1>2, <1>3, <1>4

\* Nothing waits for requests of other kinds.
LEMMA MatchNone ==
  ASSUME NEW n \in Seq(Requests)
  PROVE  /\ (\A i \in 1 .. Len(n) : n[i] \notin Heading) => HeadsMatch(n, <<>>)
         /\ (\A i \in 1 .. Len(n) : n[i] \notin Asking) => CallsMatch(n, <<>>)
<1>1. (\A i \in 1 .. Len(n) : n[i] \notin Heading) => Only(n, Heading) = <<>>
  BY OnlyNone
<1>2. (\A i \in 1 .. Len(n) : n[i] \notin Asking) => Only(n, Asking) = <<>>
  BY OnlyNone
<1> QED
  BY <1>1, <1>2 DEF HeadsMatch, CallsMatch

\* The first request leaves.
LEMMA HeadsFirst ==
  ASSUME NEW r \in Requests, NEW m \in Seq(Requests), NEW h \in Seq(Widgets),
         HeadsMatch(<<r>> \o m, h)
  PROVE  /\ r \in Heading => h # <<>> /\ HeadsMatch(m, Tail(h))
         /\ r \notin Heading => HeadsMatch(m, h)
<1> DEFINE M == Only(m, Heading)
           O == Only(<<r>> \o m, Heading)
<1>1. O = Only(<<r>>, Heading) \o M /\ M \in Seq(Requests \cap Heading)
  <2> DEFINE q == <<r>>
  <2>1. q \in Seq(Requests)
    OBVIOUS
  <2> HIDE DEF q
  <2>2. Only(q \o m, Heading) = Only(q, Heading) \o Only(m, Heading)
    BY <2>1, OnlyConcat
  <2>3. M \in Seq(Requests \cap Heading)
    BY OnlyIsSeq
  <2> QED
    BY <2>2, <2>3, Zenon DEF q
<1>2. Len(h) = Len(O) /\ \A i \in 1 .. Len(h) : h[i] = O[i].item
  BY DEF HeadsMatch
<1> DEFINE S == Requests \cap Heading
<1>3. r \in Heading => r \in S
  OBVIOUS
<1>m. M \in Seq(S)
  BY <1>1
<1> HIDE DEF M, O, S
<1>4. ASSUME r \in Heading PROVE h # <<>> /\ HeadsMatch(m, Tail(h))
  <2>1. O = <<r>> \o M
    BY <1>1, <1>4, OnlyOne
  <2>2. /\ Len(O) = Len(M) + 1 /\ Len(M) \in Nat
        /\ \A i \in 1 .. Len(M) : O[i + 1] = M[i]
    BY <1>3, <1>4, <1>m, <2>1
  <2>3. h # <<>> /\ Len(Tail(h)) = Len(M) /\ \A i \in 1 .. Len(M) : Tail(h)[i] = h[i + 1]
    BY <1>2, <2>2
  <2>4. \A i \in 1 .. Len(M) : Tail(h)[i] = M[i].item
    BY <1>2, <2>2, <2>3
  <2> QED
    BY <2>3, <2>4 DEF HeadsMatch, M
<1>5. ASSUME r \notin Heading PROVE HeadsMatch(m, h)
  <2>1. O = <<>> \o M
    BY <1>1, <1>5, OnlyOne
  <2>2. O = M
    BY <1>m, <2>1, ConcatEmptySeq
  <2> QED
    BY <1>2, <2>2 DEF HeadsMatch, M
<1> QED
  BY <1>4, <1>5

LEMMA CallsFirst ==
  ASSUME NEW r \in Requests, NEW m \in Seq(Requests), NEW c \in Seq(Closures),
         CallsMatch(<<r>> \o m, c)
  PROVE  /\ r \in Asking => /\ c # <<>> /\ CallsMatch(m, Tail(c))
                            /\ Head(c).item = r.item
                            /\ Head(c).kind = "nick" <=> r.kind = "GET_USERINFO_BY_ID"
         /\ r \notin Asking => CallsMatch(m, c)
<1> DEFINE M == Only(m, Asking)
           O == Only(<<r>> \o m, Asking)
           Fits(d, q) == d.item = q.item /\ (d.kind = "nick" <=> q.kind = "GET_USERINFO_BY_ID")
<1>1. O = Only(<<r>>, Asking) \o M /\ M \in Seq(Requests \cap Asking)
  <2> DEFINE q == <<r>>
  <2>1. q \in Seq(Requests)
    OBVIOUS
  <2> HIDE DEF q
  <2>2. Only(q \o m, Asking) = Only(q, Asking) \o Only(m, Asking)
    BY <2>1, OnlyConcat
  <2>3. M \in Seq(Requests \cap Asking)
    BY OnlyIsSeq
  <2> QED
    BY <2>2, <2>3, Zenon DEF q
<1>2. Len(c) = Len(O) /\ \A i \in 1 .. Len(c) : Fits(c[i], O[i])
  BY DEF CallsMatch
<1> DEFINE S == Requests \cap Asking
<1>3. r \in Asking => r \in S
  OBVIOUS
<1>m. M \in Seq(S)
  BY <1>1
<1> HIDE DEF M, O, S, Fits
<1>4. ASSUME r \in Asking
      PROVE  /\ c # <<>> /\ CallsMatch(m, Tail(c)) /\ Fits(Head(c), r)
  <2>1. O = <<r>> \o M
    BY <1>1, <1>4, OnlyOne
  <2>2. /\ Len(O) = Len(M) + 1 /\ Len(M) \in Nat /\ O[1] = r
        /\ \A i \in 1 .. Len(M) : O[i + 1] = M[i]
    BY <1>3, <1>4, <1>m, <2>1
  <2>3. /\ c # <<>> /\ Len(Tail(c)) = Len(M) /\ Head(c) = c[1]
        /\ \A i \in 1 .. Len(M) : Tail(c)[i] = c[i + 1]
    BY <1>2, <2>2
  <2>4. \A i \in 1 .. Len(M) : Fits(Tail(c)[i], M[i])
    BY <1>2, <2>2, <2>3
  <2>5. Fits(Head(c), r)
    BY <1>2, <2>2, <2>3
  <2> QED
    BY <2>3, <2>4, <2>5 DEF CallsMatch, M, Fits
<1>5. ASSUME r \notin Asking PROVE CallsMatch(m, c)
  <2>1. O = <<>> \o M
    BY <1>1, <1>5, OnlyOne
  <2>2. O = M
    BY <1>m, <2>1, ConcatEmptySeq
  <2> QED
    BY <1>2, <2>2 DEF CallsMatch, M, Fits
<1> QED
  BY <1>4, <1>5 DEF Fits

\* What new items ask for has their labels and closures.
LEMMA ItemsMatch ==
  ASSUME NEW items \in Seq(Widgets)
  PROVE  /\ Alternate(Heads(items), Msgs(items)) \in Seq(Requests)
         /\ Alternate(Nicks(items), Heads(items)) \in Seq(Requests)
         /\ HeadsMatch(Alternate(Heads(items), Msgs(items)), items)
         /\ CallsMatch(Alternate(Heads(items), Msgs(items)), <<>>)
         /\ HeadsMatch(Alternate(Nicks(items), Heads(items)), items)
         /\ CallsMatch(Alternate(Nicks(items), Heads(items)), Calls(items))
<1> DEFINE H == Heads(items)
           N == Nicks(items)
           M == Msgs(items)
           C == Calls(items)
           n == Len(items)
<1>a. /\ Heads(items) \in Seq([kind : {"GET_USER_HEAD"}, item : Widgets])
      /\ Nicks(items) \in Seq([kind : {"GET_USERINFO_BY_ID"}, item : Widgets])
      /\ Msgs(items) \in Seq([kind : {"GET_FRIEND_MSG"}, item : Widgets])
      /\ Calls(items) \in Seq([kind : {"nick"}, item : Widgets])
  <2> HIDE DEF H, N, M, C, n
  <2> QED
    BY MapsAreSeq
<1>b. /\ Len(H) = n /\ Len(N) = n /\ Len(M) = n /\ Len(C) = n /\ n \in Nat
      /\ \A i \in 1 .. n : H[i].item = items[i] /\ N[i].item = items[i]
                         /\ C[i].item = items[i]
  <2>1. /\ Len(Heads(items)) = Len(items) /\ Len(Nicks(items)) = Len(items)
        /\ Len(Msgs(items)) = Len(items) /\ Len(Calls(items)) = Len(items)
        /\ \A i \in 1 .. Len(items) :
              /\ Heads(items)[i].item = items[i] /\ Nicks(items)[i].item = items[i]
              /\ Calls(items)[i].item = items[i]
    <3> HIDE DEF H, N, M, C, n
    <3> QED
      BY MapsAreSeq
  <2>2. Len(items) \in Nat
    OBVIOUS
  <2> QED
    BY <2>1, <2>2
<1>k. /\ [kind : {"GET_USER_HEAD"}, item : Widgets] \subseteq Requests
      /\ [kind : {"GET_USERINFO_BY_ID"}, item : Widgets] \subseteq Requests
      /\ [kind : {"GET_FRIEND_MSG"}, item : Widgets] \subseteq Requests
  BY DEF Requests, Kinds
<1> DEFINE HS == [kind : {"GET_USER_HEAD"}, item : Widgets]
           NS == [kind : {"GET_USERINFO_BY_ID"}, item : Widgets]
           MS == [kind : {"GET_FRIEND_MSG"}, item : Widgets]
           CS == [kind : {"nick"}, item : Widgets]
<1>1. H \in Seq(HS) /\ N \in Seq(NS) /\ M \in Seq(MS) /\ C \in Seq(CS)
  BY <1>a
<1> HIDE DEF H, N, M, C, n, HS, NS, MS, CS
<1>2. H \in Seq(Requests) /\ N \in Seq(Requests) /\ M \in Seq(Requests)
  BY <1>1, <1>k, SeqMonotonic DEF HS, NS, MS
<1>3. \A i \in 1 .. n : H[i] \in HS /\ N[i] \in NS /\ M[i] \in MS /\ C[i] \in CS
  BY <1>1, <1>b
<1>4. \A i \in 1 .. n : /\ H[i] \in Heading /\ H[i] \notin Asking
                        /\ N[i] \notin Heading /\ N[i] \in Asking
                        /\ M[i] \notin Heading /\ M[i] \notin Asking
                        /\ N[i].kind = "GET_USERINFO_BY_ID" /\ C[i].kind = "nick"
  BY <1>3 DEF Heading, Asking, HS, NS, MS, CS
<1>h. Len(M) = Len(H) /\ Len(H) = Len(N) /\ Len(H) = n
  BY <1>b
<1>5. /\ Alternate(H, M) \in Seq(Requests) /\ Len(Alternate(H, M)) = 2 * n
      /\ \A j \in 1 .. 2 * n : \E i \in 1 .. n : Alternate(H, M)[j] \in {H[i], M[i]}
  BY <1>2, <1>h, AlternateIsSeq
<1>n. Alternate(N, H) \in Seq(Requests)
  BY <1>2, <1>h, AlternateIsSeq
<1>6. Only(Alternate(H, M), Heading) = H
  <2>1. \A i \in 1 .. Len(H) : H[i] \in Heading /\ M[i] \notin Heading
    BY <1>4, <1>h
  <2> QED
    BY <1>2, <1>h, <2>1, OnlyFirsts
<1>8. Only(Alternate(N, H), Heading) = H
  <2>1. \A i \in 1 .. Len(N) : N[i] \notin Heading /\ H[i] \in Heading
    BY <1>4, <1>h
  <2> QED
    BY <1>2, <1>h, <2>1, OnlySeconds
<1>9. Only(Alternate(N, H), Asking) = N
  <2>1. \A i \in 1 .. Len(N) : N[i] \in Asking /\ H[i] \notin Asking
    BY <1>4, <1>h
  <2> QED
    BY <1>2, <1>h, <2>1, OnlyFirsts
<1>7. \A j \in 1 .. Len(Alternate(H, M)) : Alternate(H, M)[j] \notin Asking
  BY <1>4, <1>5
<1>10. HeadsMatch(Alternate(H, M), items) /\ HeadsMatch(Alternate(N, H), items)
  BY <1>b, <1>6, <1>8 DEF HeadsMatch, n
<1>11. CallsMatch(Alternate(N, H), C)
  BY <1>b, <1>4, <1>9 DEF CallsMatch
<1>12. CallsMatch(Alternate(H, M), <<>>)
  BY <1>5, <1>7, MatchNone
<1> QED
  BY <1>5, <1>n, <1>10, <1>11, <1>12 DEF H, N, M, C

\* Requests that are answered: what is left matches what is left.
LEMMA FirstMatches ==
  ASSUME Typed, Matching, NEW kind, Answered(kind)
  PROVE  /\ kind = "GET_USER_HEAD" =>
              /\ ~headFailed => headWidgets_ # <<>> /\ HeadsMatch(Tail(net), Tail(headWidgets_))
         /\ kind # "GET_USER_HEAD" /\ ~headFailed => HeadsMatch(Tail(net), headWidgets_)
         /\ kind \in {"GET_USERINFO_BY_ID", "WHETHER_ACCEPT_ADD_FRIEND"} /\ ~stolen =>
              /\ callbacks_ # <<>> /\ CallsMatch(Tail(net), Tail(callbacks_))
              /\ Head(callbacks_).item = Head(net).item
              /\ Head(callbacks_).kind = "nick" <=> kind = "GET_USERINFO_BY_ID"
         /\ kind \notin {"GET_USERINFO_BY_ID", "WHETHER_ACCEPT_ADD_FRIEND"} /\ ~stolen =>
              CallsMatch(Tail(net), callbacks_)
<1> DEFINE r == Head(net)
           m == Tail(net)
<1>1. /\ r \in Requests /\ m \in Seq(Requests) /\ net = <<r>> \o m /\ r.kind = kind
  BY Answering, KnownAreRequests DEF Known
<1>2. headWidgets_ \in Seq(Widgets) /\ callbacks_ \in Seq(Closures)
  BY DEF Typed, TypeOK
<1> HIDE DEF r, m
<1>3. r \in Heading <=> kind = "GET_USER_HEAD"
  BY <1>1 DEF Heading, Requests
<1>4. r \in Asking <=> kind \in {"GET_USERINFO_BY_ID", "WHETHER_ACCEPT_ADD_FRIEND"}
  BY <1>1 DEF Asking, Requests
<1>5. /\ ~headFailed => HeadsMatch(<<r>> \o m, headWidgets_)
      /\ ~stolen => CallsMatch(<<r>> \o m, callbacks_)
  <2>1. /\ ~headFailed => HeadsMatch(net, headWidgets_)
        /\ ~stolen => CallsMatch(net, callbacks_)
    BY DEF Matching, MatchOf
  <2> QED
    BY <1>1, <2>1, Zenon
<1>6. ~headFailed => /\ r \in Heading => headWidgets_ # <<>> /\ HeadsMatch(m, Tail(headWidgets_))
                     /\ r \notin Heading => HeadsMatch(m, headWidgets_)
  BY <1>1, <1>2, <1>5, HeadsFirst
<1>7. ~stolen => /\ r \in Asking => /\ callbacks_ # <<>> /\ CallsMatch(m, Tail(callbacks_))
                                    /\ Head(callbacks_).item = r.item
                                    /\ Head(callbacks_).kind = "nick"
                                         <=> r.kind = "GET_USERINFO_BY_ID"
                 /\ r \notin Asking => CallsMatch(m, callbacks_)
  BY <1>1, <1>2, <1>5, CallsFirst
<1> QED
  BY <1>1, <1>3, <1>4, <1>6, <1>7 DEF r, m

LEMMA OneMore ==
  ASSUME NEW S, NEW s \in Seq(S), NEW e \in S
  PROVE  Append(s, e) = s \o <<e>> /\ <<e>> \in Seq(S)
  OBVIOUS

LEMMA Pair == ASSUME NEW S, NEW a \in S, NEW b \in S PROVE <<a>> \o <<b>> = <<a, b>>
<1> DEFINE s == <<a>> \o <<b>>
           t == <<a, b>>
<1>1. s \in Seq(S) /\ Len(s) = 2 /\ s[1] = a /\ s[2] = b
  OBVIOUS
<1>2. t \in Seq(S) /\ Len(t) = 2 /\ t[1] = a /\ t[2] = b
  OBVIOUS
<1> HIDE DEF s, t
<1>3. \A i \in 1 .. Len(s) : s[i] = t[i]
  BY <1>1, <1>2
<1>4. s = t
  BY <1>1, <1>2, <1>3, SeqEqual
<1> QED
  BY <1>4 DEF s, t

\* A message with p, friends and requests of friends: new items, their requests
\* and what waits for them.
LEMMA MatchAdds ==
  ASSUME Typed, NEW sent \in Seq(Requests), MatchOf(sent, headWidgets_, callbacks_),
         NEW new \in Seq(Requests), NEW h \in Seq(Widgets), NEW c \in Seq(Closures),
         HeadsMatch(new, h), CallsMatch(new, c),
         net' = sent \o new, headWidgets_' = headWidgets_ \o h,
         callbacks_' = callbacks_ \o c, UNCHANGED <<headFailed, stolen>>
  PROVE  Matching'
<1>1. headWidgets_ \in Seq(Widgets) /\ callbacks_ \in Seq(Closures)
  BY DEF Typed, TypeOK
<1>2. ~headFailed => HeadsMatch(sent \o new, headWidgets_ \o h)
  BY <1>1, HeadsConcat DEF MatchOf
<1>3. ~stolen => CallsMatch(sent \o new, callbacks_ \o c)
  BY <1>1, CallsConcat DEF MatchOf
<1> QED
  BY <1>2, <1>3 DEF Matching, MatchOf

LEMMA MatchNothing ==
  ASSUME Typed, NEW sent \in Seq(Requests), MatchOf(sent, headWidgets_, callbacks_),
         net' = sent, UNCHANGED <<headWidgets_, callbacks_, headFailed, stolen>>
  PROVE  Matching'
  BY DEF Matching, MatchOf

LEMMA MatchMessage ==
  ASSUME Typed, NEW p \in Ids, NEW sent \in Seq(Requests),
         MatchOf(sent, headWidgets_, callbacks_), appendMsg(p, sent)
  PROVE  Matching'
<1> DEFINE w == MsgItem(p)
           h == HeadReq(w)
           n == NickReq(w)
<1>1. UNCHANGED <<headFailed, stolen>>
  BY DEF appendMsg, hist
<1>2. CASE p \in msgListWid_
  BY <1>1, <1>2, MatchNothing DEF appendMsg
<1>3. CASE p \notin msgListWid_
  <2>1. w \in Widgets /\ headWidgets_ \in Seq(Widgets) /\ callbacks_ \in Seq(Closures)
    BY ItemsAreWidgets DEF Typed, TypeOK
  <2>2. /\ h \in Requests /\ n \in Requests /\ h \in Heading /\ n \notin Heading
        /\ h \notin Asking /\ n \in Asking /\ h.item = w /\ n.item = w
        /\ n.kind = "GET_USERINFO_BY_ID" /\ Nick(w) \in Closures
        /\ Nick(w).item = w /\ Nick(w).kind = "nick"
    BY <2>1 DEF HeadReq, NickReq, Req, Requests, Kinds, Heading, Asking, Nick, Closures
  <2>3. /\ net' = sent \o <<h, n>> /\ headWidgets_' = Append(headWidgets_, w)
        /\ callbacks_' = Append(callbacks_, Nick(w))
    BY <1>3 DEF appendMsg
  <2> DEFINE k == Nick(w)
  <2> HIDE DEF w, h, n, k
  <2>4. /\ HeadsMatch(<<h>>, <<w>>) /\ CallsMatch(<<h>>, <<>>)
        /\ HeadsMatch(<<n>>, <<>>) /\ CallsMatch(<<n>>, <<k>>)
    BY <2>2, MatchOne DEF k
  <2>5. HeadsMatch(<<h>> \o <<n>>, <<w>> \o <<>>) /\ CallsMatch(<<h>> \o <<n>>, <<>> \o <<k>>)
    <3>1. /\ <<h>> \in Seq(Requests) /\ <<n>> \in Seq(Requests) /\ <<w>> \in Seq(Widgets)
          /\ <<k>> \in Seq(Closures) /\ <<>> \in Seq(Closures) /\ <<>> \in Seq(Widgets)
      BY <2>1, <2>2 DEF k
    <3> QED
      BY <2>4, <3>1, HeadsConcat, CallsConcat
  <2>6. /\ <<h>> \o <<n>> = <<h, n>> /\ <<w>> \o <<>> = <<w>> /\ <<>> \o <<k>> = <<k>>
        /\ Append(headWidgets_, w) = headWidgets_ \o <<w>>
        /\ Append(callbacks_, k) = callbacks_ \o <<k>>
    <3>1. h \in Requests /\ n \in Requests /\ w \in Widgets /\ k \in Closures
      BY <2>1, <2>2 DEF k
    <3>2. <<h>> \o <<n>> = <<h, n>>
      BY <3>1, Pair
    <3>5. <<w>> \o <<>> = <<w>>
      BY <3>1
    <3>6. <<>> \o <<k>> = <<k>>
      BY <3>1
    <3>3. Append(headWidgets_, w) = headWidgets_ \o <<w>>
      BY <2>1, <3>1, OneMore
    <3>4. Append(callbacks_, k) = callbacks_ \o <<k>>
      BY <2>1, <3>1, OneMore
    <3> QED
      BY <3>2, <3>3, <3>4, <3>5, <3>6
  <2>7. HeadsMatch(<<h, n>>, <<w>>) /\ CallsMatch(<<h, n>>, <<k>>)
    BY <2>5, <2>6, Zenon
  <2>8. <<h, n>> \in Seq(Requests) /\ <<w>> \in Seq(Widgets) /\ <<k>> \in Seq(Closures)
    BY <2>1, <2>2 DEF k
  <2> QED
    BY <1>1, <2>3, <2>6, <2>7, <2>8, MatchAdds DEF k
<1> QED
  BY <1>2, <1>3

LEMMA MatchFriends ==
  ASSUME Typed, NEW list \in Seq(Users), NEW sent \in Seq(Requests),
         MatchOf(sent, headWidgets_, callbacks_), NewFriends(list, sent)
  PROVE  Matching'
<1>1. PICK items \in Seq(FriendItems) :
         /\ net' = sent \o Alternate(Heads(items), Msgs(items))
         /\ headWidgets_' = headWidgets_ \o items
  BY FriendsStep
<1>2. items \in Seq(Widgets)
  <2>1. FriendItems \subseteq Widgets
    BY ItemsAreWidgets DEF FriendItems
  <2> QED
    BY <2>1, SeqMonotonic
<1>3. callbacks_' = callbacks_ \o <<>> /\ <<>> \in Seq(Closures)
  <2>1. callbacks_ \in Seq(Closures) /\ callbacks_' = callbacks_
    BY FriendsStep DEF Typed, TypeOK
  <2> QED
    BY <2>1, ConcatEmptySeq, EmptySeq
<1>4. UNCHANGED <<headFailed, stolen>>
  BY FriendsStep
<1> QED
  BY <1>1, <1>2, <1>3, <1>4, ItemsMatch, MatchAdds

LEMMA MatchApplies ==
  ASSUME Typed, NEW list \in Seq(Users), NEW sent \in Seq(Known(applies)),
         MatchOf(sent, headWidgets_, callbacks_), NewApplies(list, sent)
  PROVE  Matching'
<1>1. PICK items \in Seq(ApplyItems(applies, applies')) :
         /\ net' = sent \o Alternate(Nicks(items), Heads(items))
         /\ headWidgets_' = headWidgets_ \o items
         /\ callbacks_' = callbacks_ \o Calls(items)
  BY AppliesStep
<1>2. applies \in Nat /\ applies' \in Nat /\ applies' <= MaxApplies /\ MaxApplies \in Nat
  BY Bounds DEF NewApplies
<1>3. items \in Seq(Widgets)
  <2>1. applies + 1 .. applies' \subseteq 1 .. MaxApplies
    BY <1>2
  <2>2. ApplyItems(applies, applies') \subseteq Widgets
    BY <2>1, ItemsAreWidgets DEF ApplyItems
  <2> QED
    BY <2>2, SeqMonotonic
<1>4. Calls(items) \in Seq(Closures)
  <2>1. [kind : {"nick"}, item : Widgets] \subseteq Closures
    BY DEF Closures
  <2> QED
    BY <1>3, <2>1, MapsAreSeq, SeqMonotonic
<1>5. UNCHANGED <<headFailed, stolen>> /\ sent \in Seq(Requests)
  BY AppliesStep, KnownAreRequests
<1> QED
  BY <1>1, <1>3, <1>4, <1>5, ItemsMatch, MatchAdds

\* A closure is called for the first request, or for one it did not wait for.
LEMMA MatchRun ==
  ASSUME Typed, NEW success, NEW rest \in Seq(Requests), Run(success, rest),
         ~headFailed => HeadsMatch(rest, headWidgets_),
         ~stolen' => CallsMatch(rest, Tail(callbacks_)), callbacks_ # <<>>
  PROVE  Matching'
<1>1. UNCHANGED <<headWidgets_, headFailed>> /\ callbacks_' = Tail(callbacks_)
  BY DEF Run
<1>2. CASE net' = rest
  BY <1>1, <1>2 DEF Matching, MatchOf
<1>3. CASE net' = Append(rest, Req("GET_FRIEND_LIST", MyHead))
  <2> DEFINE r == Req("GET_FRIEND_LIST", MyHead)
  <2>1. r \in Requests /\ r \notin Heading /\ r \notin Asking
    BY ItemsAreWidgets DEF Req, Requests, Kinds, Heading, Asking
  <2>2. /\ headWidgets_ \in Seq(Widgets) /\ Tail(callbacks_) \in Seq(Closures)
        /\ <<>> \in Seq(Widgets) /\ <<>> \in Seq(Closures)
    BY HeadTailProperties, EmptySeq DEF Typed, TypeOK
  <2> HIDE DEF r
  <2>3. HeadsMatch(<<r>>, <<>>) /\ CallsMatch(<<r>>, <<>>) /\ <<r>> \in Seq(Requests)
    <3>1. <<r>> \in Seq(Requests)
      BY <2>1
    <3> QED
      BY <2>1, <3>1, MatchOne
  <2>4. net' = rest \o <<r>>
    BY <1>3, <2>1 DEF r
  <2>5. headWidgets_ \o <<>> = headWidgets_ /\ Tail(callbacks_) \o <<>> = Tail(callbacks_)
    BY <2>2, ConcatEmptySeq
  <2>6. ~headFailed => HeadsMatch(rest \o <<r>>, headWidgets_ \o <<>>)
    BY <2>2, <2>3, HeadsConcat
  <2>7. ~stolen' => CallsMatch(rest \o <<r>>, Tail(callbacks_) \o <<>>)
    BY <2>2, <2>3, CallsConcat
  <2> QED
    BY <1>1, <2>4, <2>5, <2>6, <2>7 DEF Matching, MatchOf
<1> QED
  BY <1>2, <1>3 DEF Run

LEMMA MatchDecision ==
  ASSUME Typed, Matching, NEW kind \in {"accept", "reject"}, NEW w \in Widgets,
         Whether(kind, w), UNCHANGED <<headWidgets_, headFailed, stolen>>
  PROVE  Matching'
<1> DEFINE r == Req("WHETHER_ACCEPT_ADD_FRIEND", w)
           c == [kind |-> kind, item |-> w]
<1>1. /\ r \in Requests /\ r \notin Heading /\ r \in Asking /\ r.item = w
      /\ r.kind = "WHETHER_ACCEPT_ADD_FRIEND"
      /\ c \in Closures /\ c.item = w /\ c.kind # "nick"
  BY DEF Req, Requests, Kinds, Heading, Asking, Closures
<1>2. /\ net \in Seq(Requests) /\ headWidgets_ \in Seq(Widgets)
      /\ callbacks_ \in Seq(Closures)
  BY DEF Typed, TypeOK
<1>3. net' = Append(net, r) /\ callbacks_' = Append(callbacks_, c)
  BY DEF Whether
<1> HIDE DEF r, c
<1>4. net' = net \o <<r>> /\ callbacks_' = callbacks_ \o <<c>>
      /\ headWidgets_' = headWidgets_ \o <<>> /\ <<r>> \in Seq(Requests)
      /\ <<c>> \in Seq(Closures) /\ <<>> \in Seq(Widgets)
  <2>1. net' = net \o <<r>> /\ <<r>> \in Seq(Requests)
    BY <1>1, <1>2, <1>3, OneMore
  <2>2. callbacks_' = callbacks_ \o <<c>> /\ <<c>> \in Seq(Closures)
    BY <1>1, <1>2, <1>3, OneMore
  <2>3. headWidgets_' = headWidgets_ \o <<>> /\ <<>> \in Seq(Widgets)
    BY <1>2, ConcatEmptySeq, EmptySeq
  <2> QED
    BY <2>1, <2>2, <2>3
<1>5. HeadsMatch(<<r>>, <<>>) /\ CallsMatch(<<r>>, <<c>>)
  BY <1>1, MatchOne
<1> QED
  BY <1>2, <1>4, <1>5, MatchAdds DEF Matching

LEMMA MatchingInit == Init => Matching
<1> SUFFICES ASSUME Init PROVE Matching
  OBVIOUS
<1> DEFINE h == HeadReq(MyHead)
           f == Req("GET_FRIEND_LIST", MyHead)
           a == Req("GET_APPLY_FRIEND_LIST", MyHead)
           s == <<h>> \o <<f, a>>
           t == <<h, f, a>>
<1>1. /\ h \in Requests /\ f \in Requests /\ a \in Requests
      /\ h \in Heading /\ f \notin Heading /\ a \notin Heading
      /\ h \notin Asking /\ f \notin Asking /\ a \notin Asking
      /\ h.item = MyHead /\ MyHead \in Widgets
  BY ItemsAreWidgets DEF HeadReq, Req, Requests, Kinds, Heading, Asking
<1>2. net = t /\ headWidgets_ = <<MyHead>> /\ callbacks_ = <<>>
  BY DEF Init
<1> HIDE DEF h, f, a
<1>3. <<h>> \in Seq(Requests) /\ <<f, a>> \in Seq(Requests) /\ <<MyHead>> \in Seq(Widgets)
      /\ <<>> \in Seq(Widgets) /\ <<>> \in Seq(Closures)
  BY <1>1
<1>4. s = t
  <2>1. s \in Seq(Requests) /\ Len(s) = 3 /\ s[1] = h /\ s[2] = f /\ s[3] = a
    BY <1>1
  <2>2. t \in Seq(Requests) /\ Len(t) = 3 /\ t[1] = h /\ t[2] = f /\ t[3] = a
    BY <1>1
  <2> HIDE DEF s, t
  <2>3. \A i \in 1 .. Len(s) : s[i] = t[i]
    BY <2>1, <2>2
  <2> QED
    BY <2>1, <2>2, <2>3, SeqEqual
<1>5. HeadsMatch(<<h>>, <<MyHead>>) /\ CallsMatch(<<h>>, <<>>)
  BY <1>1, MatchOne
<1>6. HeadsMatch(<<f, a>>, <<>>) /\ CallsMatch(<<f, a>>, <<>>)
  <2>1. \A i \in 1 .. Len(<<f, a>>) : <<f, a>>[i] \in {f, a}
    OBVIOUS
  <2>2. \A i \in 1 .. Len(<<f, a>>) : <<f, a>>[i] \notin Heading /\ <<f, a>>[i] \notin Asking
    BY <1>1, <2>1
  <2> QED
    BY <1>3, <2>2, MatchNone
<1>7. HeadsMatch(s, <<MyHead>> \o <<>>) /\ CallsMatch(s, <<>> \o <<>>)
  BY <1>3, <1>5, <1>6, HeadsConcat, CallsConcat
<1>8. <<MyHead>> \o <<>> = <<MyHead>> /\ <<>> \o <<>> = <<>>
  BY <1>3, ConcatEmptySeq
<1>9. HeadsMatch(t, <<MyHead>>) /\ CallsMatch(t, <<>>)
  BY <1>4, <1>7, <1>8, Zenon
<1> QED
  BY <1>2, <1>9 DEF Matching, MatchOf

LEMMA MatchingNetwork == Typed /\ Matching /\ Network => Matching'
<1> SUFFICES ASSUME Typed, Matching, Network PROVE Matching'
  OBVIOUS
<1>0. \A kind : Answered(kind) => Tail(net) \in Seq(Known(applies))
                                  /\ Tail(net) \in Seq(Requests)
  BY Answering, KnownAreRequests
<1>n. net \in Seq(Known(applies)) /\ net \in Seq(Requests)
      /\ MatchOf(net, headWidgets_, callbacks_)
  BY KnownAreRequests DEF Typed, Matching
\* An answer that nothing waits for leaves the queues as they should be.
<1>q. ASSUME NEW kind \in Kinds \ {"GET_USER_HEAD", "GET_USERINFO_BY_ID",
                                   "WHETHER_ACCEPT_ADD_FRIEND"}, Answered(kind)
      PROVE  MatchOf(Tail(net), headWidgets_, callbacks_)
  BY <1>q, FirstMatches DEF MatchOf
<1>1. ASSUME NEW success \in BOOLEAN, AnswerUserHead(success) PROVE Matching'
  <2>1. /\ ~headFailed => headWidgets_ # <<>> /\ HeadsMatch(Tail(net), Tail(headWidgets_))
        /\ ~stolen => CallsMatch(Tail(net), callbacks_)
    BY <1>1, FirstMatches DEF AnswerUserHead
  <2>2. /\ ~headFailed' => headWidgets_' = Tail(headWidgets_) /\ ~headFailed
        /\ net' = Tail(net) /\ UNCHANGED <<callbacks_, stolen>>
    BY <1>1, <2>1 DEF AnswerUserHead
  <2> QED
    BY <2>1, <2>2 DEF Matching, MatchOf
\* An answer that a closure waits for.
<1>r. ASSUME NEW kind \in {"GET_USERINFO_BY_ID", "WHETHER_ACCEPT_ADD_FRIEND"},
             Answered(kind),
             \/ \E success : callbacks_ # <<>> /\ Run(success, Tail(net)) /\ UNCHANGED stolen
             \/ callbacks_ = <<>> /\ net' = Tail(net) /\ Skip
             \/ /\ net' = Tail(net) /\ UNCHANGED <<headWidgets_, headFailed, stolen>>
                /\ callbacks_ # <<>> => callbacks_' = Tail(callbacks_)
      PROVE  Matching'
  <2>1. /\ ~headFailed => HeadsMatch(Tail(net), headWidgets_)
        /\ ~stolen => callbacks_ # <<>> /\ CallsMatch(Tail(net), Tail(callbacks_))
    BY <1>r, FirstMatches
  <2>2. ASSUME NEW success, callbacks_ # <<>>, Run(success, Tail(net)), UNCHANGED stolen
        PROVE  Matching'
    BY <1>0, <1>r, <2>1, <2>2, MatchRun
  <2>3. CASE callbacks_ = <<>> /\ net' = Tail(net) /\ Skip
    BY <2>1, <2>3 DEF Skip, hist, Matching, MatchOf
  <2>4. CASE /\ net' = Tail(net) /\ UNCHANGED <<headWidgets_, headFailed, stolen>>
             /\ callbacks_ # <<>> => callbacks_' = Tail(callbacks_)
    BY <2>1, <2>4 DEF Matching, MatchOf
  <2> QED
    BY <1>r, <2>2, <2>3, <2>4
<1>2. ASSUME NEW success \in BOOLEAN, AnswerById(success) PROVE Matching'
  BY <1>2, <1>r DEF AnswerById
<1>3. ASSUME NEW success \in BOOLEAN, AnswerAccept(success) PROVE Matching'
  BY <1>3, <1>r DEF AnswerAccept, hist
<1>4. ASSUME NEW answer \in SearchAnswers, NEW id \in Ids, AnswerByAccount(answer, id)
      PROVE  Matching'
  <2>0. Answered("GET_USERINFO_BY_ACCOUNT") /\ "GET_USERINFO_BY_ACCOUNT" \in Kinds
    BY <1>4 DEF AnswerByAccount, Kinds
  <2>1. MatchOf(Tail(net), headWidgets_, callbacks_)
    BY <1>q, <2>0
  <2>2. CASE callbacks_ # <<>>
    <3>1. Run(answer = "found", Tail(net)) /\ stolen'
      BY <1>4, <2>2 DEF AnswerByAccount
    <3> QED
      BY <1>0, <2>0, <2>1, <2>2, <3>1, MatchRun DEF MatchOf
  <2>3. CASE net' = Tail(net) /\ Skip
    BY <1>0, <2>0, <2>1, <2>3, MatchNothing DEF Skip, hist
  <2>4. CASE /\ headWidgets_' = Append(headWidgets_, InfoHead)
             /\ net' = Append(Tail(net), HeadReq(InfoHead))
             /\ UNCHANGED <<callbacks_, lists, chat, page, dialog, hist>>
    <3> DEFINE r == HeadReq(InfoHead)
               w == InfoHead
    <3>1. r \in Requests /\ r \in Heading /\ r \notin Asking /\ r.item = w /\ w \in Widgets
      BY ItemsAreWidgets DEF HeadReq, Req, Requests, Kinds, Heading, Asking
    <3>2. headWidgets_ \in Seq(Widgets) /\ callbacks_ \in Seq(Closures)
          /\ Tail(net) \in Seq(Requests)
      BY <1>0, <2>0 DEF Typed, TypeOK
    <3> HIDE DEF r, w
    <3>3. net' = Tail(net) \o <<r>> /\ <<r>> \in Seq(Requests)
      BY <2>4, <3>1, <3>2, OneMore DEF r
    <3>4. headWidgets_' = headWidgets_ \o <<w>> /\ <<w>> \in Seq(Widgets)
      BY <2>4, <3>1, <3>2, OneMore DEF w
    <3>5. callbacks_' = callbacks_ \o <<>> /\ <<>> \in Seq(Closures)
      BY <2>4, <3>2, ConcatEmptySeq, EmptySeq
    <3>6. HeadsMatch(<<r>>, <<w>>) /\ CallsMatch(<<r>>, <<>>)
      BY <3>1, MatchOne
    <3> QED
      BY <2>1, <2>4, <3>2, <3>3, <3>4, <3>5, <3>6, MatchAdds DEF hist
  <2> QED
    BY <1>4, <2>2, <2>3, <2>4 DEF AnswerByAccount
<1>k. /\ "GET_FRIEND_LIST" \in Kinds /\ "GET_APPLY_FRIEND_LIST" \in Kinds
      /\ "GET_FRIEND_MSG" \in Kinds
  BY DEF Kinds
<1>5. ASSUME NEW list \in Orders, AnswerFriends(list) PROVE Matching'
  BY <1>0, <1>5, <1>k, <1>q, ListIsSeq, MatchFriends DEF AnswerFriends
<1>6. ASSUME NEW list \in Orders, AnswerApplies(list) PROVE Matching'
  BY <1>0, <1>6, <1>k, <1>q, ListIsSeq, MatchApplies DEF AnswerApplies
<1>7. ASSUME NEW some \in BOOLEAN, AnswerFriendMsg(some) PROVE Matching'
  <2>1. Head(net) \in Known(applies) /\ Head(net).kind = "GET_FRIEND_MSG"
        /\ Answered("GET_FRIEND_MSG")
    BY <1>7, Answering DEF AnswerFriendMsg
  <2>2. PICK p \in Users : Head(net).item = FriendItem(p)
    BY <2>1 DEF Known
  <2>3. Head(net).item[2] \in Ids
    BY <2>2 DEF FriendItem, Ids
  <2>4. MatchOf(Tail(net), headWidgets_, callbacks_) /\ Tail(net) \in Seq(Requests)
    BY <1>0, <1>k, <1>q, <2>1
  <2>5. CASE some
    BY <1>7, <2>3, <2>4, <2>5, MatchMessage DEF AnswerFriendMsg
  <2>6. CASE ~some
    BY <1>7, <2>4, <2>6, MatchNothing DEF AnswerFriendMsg, Skip, hist
  <2> QED
    BY <2>5, <2>6
<1>8. ASSUME NEW id \in Ids, PushFriendMsg(id) PROVE Matching'
  BY <1>8, <1>n, MatchMessage DEF PushFriendMsg
<1>9. ASSUME NEW p \in Users, PushApply(p) PROVE Matching'
  <2>1. <<p>> \in Seq(Users)
    OBVIOUS
  <2> QED
    BY <1>9, <1>n, <2>1, MatchApplies DEF PushApply
<1>10. ASSUME NEW p \in Users, PushFriend(p) PROVE Matching'
  <2>1. <<p>> \in Seq(Users)
    OBVIOUS
  <2> QED
    BY <1>10, <1>n, <2>1, MatchFriends DEF PushFriend
<1> QED
  BY <1>1, <1>2, <1>3, <1>4, <1>5, <1>6, <1>7, <1>8, <1>9, <1>10 DEF Network

LEMMA MatchingNext == Typed /\ Matching /\ [Next]_vars => Matching'
<1> SUFFICES ASSUME Typed, Matching, [Next]_vars PROVE Matching'
  OBVIOUS
<1>0. net \in Seq(Requests) /\ MatchOf(net, headWidgets_, callbacks_)
  BY KnownAreRequests DEF Typed, Matching
<1>s. UNCHANGED <<queues, hist>> => Matching'
  BY <1>0, MatchNothing DEF queues, hist
<1>w. ASSUME NEW n \in 1 .. applies, NEW kind \in {"accept", "reject"},
             Whether(kind, ApplyItem(n)), UNCHANGED <<headWidgets_, hist>>
      PROVE  Matching'
  <2>1. ApplyItem(n) \in Widgets
    BY Bounds, ItemsAreWidgets
  <2> QED
    BY <1>w, <2>1, MatchDecision DEF hist
<1>1. ASSUME NEW id \in Ids, SwitchUser(id) PROVE Matching'
  BY <1>1, <1>s DEF SwitchUser
<1>2. ASSUME NEW shown, SwitchListBar(shown) PROVE Matching'
  BY <1>2, <1>s DEF SwitchListBar
<1>3. CASE SendMsg
  <2>1. id_ \in Ids
    BY <1>3 DEF SendMsg, Typed, TypeOK
  <2> QED
    BY <1>0, <1>3, <2>1, MatchMessage DEF SendMsg
<1>4. CASE SearchUser
  <2> DEFINE r == Req("GET_USERINFO_BY_ACCOUNT", InfoHead)
  <2>1. r \in Requests /\ r \notin Heading /\ r \notin Asking
    BY ItemsAreWidgets DEF Req, Requests, Kinds, Heading, Asking
  <2>2. net' = Append(net, r) /\ UNCHANGED <<headWidgets_, callbacks_, headFailed, stolen>>
    BY <1>4 DEF SearchUser, hist
  <2>3. headWidgets_ \in Seq(Widgets) /\ callbacks_ \in Seq(Closures)
    BY DEF Typed, TypeOK
  <2> HIDE DEF r
  <2>4. net' = net \o <<r>> /\ <<r>> \in Seq(Requests)
    BY <1>0, <2>1, <2>2, OneMore
  <2>5. /\ headWidgets_' = headWidgets_ \o <<>> /\ callbacks_' = callbacks_ \o <<>>
        /\ <<>> \in Seq(Widgets) /\ <<>> \in Seq(Closures)
    BY <2>2, <2>3, ConcatEmptySeq, EmptySeq
  <2>6. HeadsMatch(<<r>>, <<>>) /\ CallsMatch(<<r>>, <<>>)
    BY <2>1, MatchOne
  <2> QED
    BY <1>0, <2>2, <2>4, <2>5, <2>6, MatchAdds
<1>5. CASE InfoAdd \/ InfoExit \/ AddDone
  BY <1>5, <1>s DEF InfoAdd, InfoExit, AddDone
<1>6. ASSUME NEW p \in Users, RejectFriend(p) PROVE Matching'
  <2>1. friendApplyList_[p] \in 1 .. applies
    BY <1>6, Bounds DEF RejectFriend, Typed
  <2> QED
    BY <1>6, <1>w, <2>1 DEF RejectFriend
<1>7. ASSUME NEW p \in Users, AcceptFriend(p) PROVE Matching'
  BY <1>7, <1>s DEF AcceptFriend
<1>8. ASSUME NEW accepted \in BOOLEAN, AcceptDone(accepted) PROVE Matching'
  <2>1. PICK n \in 1 .. applies : dialog.item = ApplyItem(n)
    BY <1>8 DEF AcceptDone, Typed, Dialogs, Made, NoDialog
  <2>2. CASE accepted
    BY <1>8, <1>w, <2>1, <2>2 DEF AcceptDone
  <2>3. CASE ~accepted
    BY <1>8, <1>s, <2>3 DEF AcceptDone, queues
  <2> QED
    BY <2>2, <2>3
<1>9. CASE UNCHANGED vars
  BY <1>9, <1>s DEF vars
<1> QED
  BY <1>1, <1>2, <1>3, <1>4, <1>5, <1>6, <1>7, <1>8, <1>9, MatchingNetwork DEF Next, User

\* The items of the requests that wait, in a sequence.
LEMMA MatchingWaits == Typed /\ Matching => AnswersMatch
<1> SUFFICES ASSUME Typed, Matching PROVE AnswersMatch
  OBVIOUS
<1>1. /\ net \in Seq(Requests) /\ headWidgets_ \in Seq(Widgets)
      /\ callbacks_ \in Seq(Closures)
  BY DEF Typed, TypeOK
<1> DEFINE H == Only(net, Heading)
           A == Only(net, Asking)
<1>2. /\ Waiting({"GET_USER_HEAD"}) = [i \in DOMAIN H |-> H[i].item]
      /\ Waiting({"GET_USERINFO_BY_ID", "WHETHER_ACCEPT_ADD_FRIEND"})
           = [i \in DOMAIN A |-> A[i].item]
  BY DEF Waiting, Heading, Asking
<1>3. DOMAIN H = 1 .. Len(H) /\ DOMAIN A = 1 .. Len(A)
  <2>1. H \in Seq(Requests \cap Heading) /\ A \in Seq(Requests \cap Asking)
    BY <1>1, OnlyIsSeq
  <2> HIDE DEF H, A
  <2> QED
    BY <2>1, LenProperties
<1>4. /\ ~headFailed => Len(headWidgets_) = Len(H)
                        /\ \A i \in 1 .. Len(headWidgets_) : headWidgets_[i] = H[i].item
      /\ ~stolen => Len(callbacks_) = Len(A)
                    /\ \A i \in 1 .. Len(callbacks_) : callbacks_[i].item = A[i].item
  BY DEF Matching, MatchOf, HeadsMatch, CallsMatch
<1> HIDE DEF H, A
<1>5. ~headFailed => headWidgets_ = [i \in DOMAIN H |-> H[i].item]
  <2> SUFFICES ASSUME ~headFailed PROVE headWidgets_ = [i \in DOMAIN H |-> H[i].item]
    OBVIOUS
  <2>1. headWidgets_ = [i \in 1 .. Len(headWidgets_) |-> headWidgets_[i]]
    BY <1>1
  <2> QED
    BY <1>3, <1>4, <2>1
<1>6. ~stolen => [i \in DOMAIN callbacks_ |-> callbacks_[i].item]
                   = [i \in DOMAIN A |-> A[i].item]
  <2>1. DOMAIN callbacks_ = 1 .. Len(callbacks_)
    BY <1>1
  <2> QED
    BY <1>3, <1>4, <2>1
<1> QED
  BY <1>2, <1>5, <1>6 DEF AnswersMatch

\* AnswersMatch: while no request for a head has failed and no search answer has taken
\* a closure, the labels and the closures that wait are those of the requests in
\* flight, in their order: every head, nick and decision goes to its own item.
THEOREM AnswersFindTheirItems == Spec => []AnswersMatch
<1>1. Typed /\ Matching /\ [Next]_vars => (Typed /\ Matching)'
  BY TypedNext, MatchingNext
<1> QED
  BY <1>1, TypedInit, MatchingInit, MatchingWaits, PTL DEF Spec

-------------------------------------------------------------------------------
(* Items that are deleted.                                                     *)

\* The decision on a request of a friend comes after all that was asked about its item.
OrderedOf(s) == \A i, j \in 1 .. Len(s) :
  s[i].kind = "WHETHER_ACCEPT_ADD_FRIEND" /\ s[j].kind # "WHETHER_ACCEPT_ADD_FRIEND"
    /\ s[i].item = s[j].item => j < i

\* An item about which something else than a decision is asked is there.
AliveAsked == ~stolen =>
  \A i \in 1 .. Len(net) :
    net[i].kind # "WHETHER_ACCEPT_ADD_FRIEND" => Alive(net[i].item)

Keeping == OrderedOf(net) /\ AliveAsked

LEMMA TailAt ==
  ASSUME NEW S, NEW s \in Seq(S), s # <<>>
  PROVE  /\ Tail(s) \in Seq(S) /\ Len(Tail(s)) = Len(s) - 1 /\ Len(s) \in Nat \ {0}
         /\ Head(s) = s[1]
         /\ \A i \in 1 .. Len(s) - 1 : Tail(s)[i] = s[i + 1]
  OBVIOUS

LEMMA ConcatAt ==
  ASSUME NEW S, NEW T, NEW s \in Seq(S), NEW t \in Seq(T)
  PROVE  /\ Len(s \o t) = Len(s) + Len(t) /\ Len(s) \in Nat /\ Len(t) \in Nat
         /\ \A i \in 1 .. Len(s) + Len(t) :
              \/ i \in 1 .. Len(s) /\ (s \o t)[i] = s[i] /\ s[i] \in S
              \/ /\ i - Len(s) \in 1 .. Len(t) /\ (s \o t)[i] = t[i - Len(s)]
                 /\ t[i - Len(s)] \in T
<1>1. /\ Len(s) \in Nat /\ Len(t) \in Nat
      /\ \A i \in 1 .. Len(s) : s[i] \in S
      /\ \A i \in 1 .. Len(t) : t[i] \in T
  OBVIOUS
<1>2. /\ s \in Seq(S \cup T) /\ t \in Seq(S \cup T)
  BY SeqMonotonic
<1>3. /\ Len(s \o t) = Len(s) + Len(t)
      /\ \A i \in 1 .. Len(s) + Len(t) :
           (s \o t)[i] = IF i <= Len(s) THEN s[i] ELSE t[i - Len(s)]
  BY <1>2, ConcatProperties
<1> QED
  BY <1>1, <1>3

LEMMA OrderedBase ==
  ASSUME Typed, OrderedOf(net), NEW base \in Bases
  PROVE  base \in Seq(Known(applies)) /\ OrderedOf(base)
<1>1. net \in Seq(Known(applies))
  BY DEF Typed
<1>2. CASE base = net
  BY <1>1, <1>2
<1>3. CASE net # <<>> /\ base = Tail(net)
  <2>1. /\ base \in Seq(Known(applies)) /\ Len(base) = Len(net) - 1
        /\ Len(net) \in Nat \ {0}
        /\ \A i \in 1 .. Len(net) - 1 : base[i] = net[i + 1]
    BY <1>1, <1>3, TailAt
  <2>2. ASSUME NEW i \in 1 .. Len(base), NEW j \in 1 .. Len(base),
               base[i].kind = "WHETHER_ACCEPT_ADD_FRIEND",
               base[j].kind # "WHETHER_ACCEPT_ADD_FRIEND", base[i].item = base[j].item
        PROVE  j < i
    <3>1. /\ i + 1 \in 1 .. Len(net) /\ base[i] = net[i + 1]
          /\ j + 1 \in 1 .. Len(net) /\ base[j] = net[j + 1]
      BY <2>1
    <3>2. j + 1 < i + 1
      BY <2>2, <3>1 DEF OrderedOf
    <3> QED
      BY <2>1, <3>2
  <2>3. OrderedOf(base)
    BY <2>2 DEF OrderedOf
  <2> QED
    BY <2>1, <2>3
<1> QED
  BY <1>2, <1>3 DEF Bases

LEMMA OrderedConcat ==
  ASSUME NEW m \in Nat, NEW n \in Nat, NEW s \in Seq(Known(m)), OrderedOf(s),
         NEW t \in Seq(Fresh(m, n))
  PROVE  OrderedOf(s \o t)
<1> DEFINE K == Known(m)
           F == Fresh(m, n)
<1>1. /\ Len(s \o t) = Len(s) + Len(t) /\ Len(s) \in Nat /\ Len(t) \in Nat
      /\ \A i \in 1 .. Len(s) + Len(t) :
           \/ i \in 1 .. Len(s) /\ (s \o t)[i] = s[i] /\ s[i] \in K
           \/ /\ i - Len(s) \in 1 .. Len(t) /\ (s \o t)[i] = t[i - Len(s)]
              /\ t[i - Len(s)] \in F
  BY ConcatAt
<1>2. \A r \in F : r.kind # "WHETHER_ACCEPT_ADD_FRIEND"
  BY DEF Fresh
<1>3. \A r \in K, q \in F : r.kind = "WHETHER_ACCEPT_ADD_FRIEND" => r.item # q.item
  BY DEF Known, Fresh
<1> HIDE DEF K, F
<1>4. ASSUME NEW i \in 1 .. Len(s \o t), NEW j \in 1 .. Len(s \o t),
             (s \o t)[i].kind = "WHETHER_ACCEPT_ADD_FRIEND",
             (s \o t)[j].kind # "WHETHER_ACCEPT_ADD_FRIEND",
             (s \o t)[i].item = (s \o t)[j].item
      PROVE  j < i
  <2>1. i \in 1 .. Len(s) /\ (s \o t)[i] = s[i] /\ s[i] \in K
    BY <1>1, <1>2, <1>4
  <2>2. j \in 1 .. Len(s) /\ (s \o t)[j] = s[j]
    BY <1>1, <1>3, <1>4, <2>1
  <2> QED
    BY <1>4, <2>1, <2>2 DEF OrderedOf
<1> QED
  BY <1>4 DEF OrderedOf

LEMMA OrderedAppend ==
  ASSUME NEW m \in Nat, NEW s \in Seq(Known(m)), OrderedOf(s), NEW r,
         \A q \in Known(m) : r.kind # "WHETHER_ACCEPT_ADD_FRIEND"
                             /\ q.kind = "WHETHER_ACCEPT_ADD_FRIEND" => q.item # r.item
  PROVE  OrderedOf(Append(s, r))
<1> DEFINE K == Known(m)
           a == Append(s, r)
<1> HIDE DEF K
<1>1. /\ Len(a) = Len(s) + 1 /\ Len(s) \in Nat
      /\ \A i \in 1 .. Len(s) : a[i] = s[i] /\ s[i] \in K
      /\ a[Len(s) + 1] = r
  BY DEF K
<1> HIDE DEF a
<1>2. \A i \in 1 .. Len(a) : i \in 1 .. Len(s) \/ i = Len(s) + 1
  BY <1>1
<1>3. ASSUME NEW i \in 1 .. Len(a), NEW j \in 1 .. Len(a),
             a[i].kind = "WHETHER_ACCEPT_ADD_FRIEND",
             a[j].kind # "WHETHER_ACCEPT_ADD_FRIEND", a[i].item = a[j].item
      PROVE  j < i
  <2>1. CASE i \in 1 .. Len(s) /\ j \in 1 .. Len(s)
    BY <1>1, <1>3, <2>1 DEF OrderedOf
  <2>2. CASE i = Len(s) + 1 /\ j \in 1 .. Len(s)
    BY <1>1, <2>2
  <2>3. CASE j = Len(s) + 1
    <3>1. i \in 1 .. Len(s)
      BY <1>2, <1>3, <2>3
    <3> QED
      BY <1>1, <1>3, <2>3, <3>1 DEF K
  <2> QED
    BY <1>2, <2>1, <2>2, <2>3
<1> QED
  BY <1>3 DEF OrderedOf, a

LEMMA OrderedNext == Typed /\ OrderedOf(net) /\ [Next]_vars => OrderedOf(net')
<1> SUFFICES ASSUME Typed, OrderedOf(net), [Next]_vars PROVE OrderedOf(net')
  OBVIOUS
<1>0. applies \in Nat /\ applies' \in Nat /\ net \in Seq(Known(applies))
  <2>1. Typed'
    BY TypedNext
  <2> QED
    BY <2>1, Bounds DEF Typed, TypeOK
<1>1. CASE \E base \in Bases, new \in Seq(Fresh(applies, applies')) : net' = base \o new
  BY <1>0, <1>1, OrderedBase, OrderedConcat
<1>2. CASE net' = Append(net, Req("GET_USERINFO_BY_ACCOUNT", InfoHead))
  <2>1. \A q \in Known(applies) : q.kind = "WHETHER_ACCEPT_ADD_FRIEND"
                                    => q.item # Req("GET_USERINFO_BY_ACCOUNT", InfoHead).item
    BY ItemsAreWidgets DEF Known, Req
  <2> QED
    BY <1>0, <1>2, <2>1, OrderedAppend
<1>3. CASE \E n \in 1 .. applies : net' = Append(net, Decision(n))
  <2>1. PICK n \in 1 .. applies : net' = Append(net, Decision(n))
    BY <1>3
  <2>2. Decision(n).kind = "WHETHER_ACCEPT_ADD_FRIEND"
    BY DEF Decision, Req
  <2> QED
    BY <1>0, <2>1, <2>2, OrderedAppend
<1> QED
  BY <1>1, <1>2, <1>3, NetSteps DEF NetStep

\* Items are deleted with the answer to the decision about them, and new ones are there.
LEMMA AliveSteps ==
  ASSUME Typed, Matching, [Next]_vars, ~stolen'
  PROVE  /\ ~stolen /\ applies + 1 .. applies' \subseteq alive'
         /\ \/ alive \subseteq alive'
            \/ /\ Answered("WHETHER_ACCEPT_ADD_FRIEND")
               /\ alive \ {Head(net).item[2]} \subseteq alive'
               /\ \E new \in Seq(Fresh(applies, applies')) : net' = Tail(net) \o new
<1> DEFINE Same == UNCHANGED <<applies, alive, stolen>>
           Gone == /\ Answered("WHETHER_ACCEPT_ADD_FRIEND") /\ UNCHANGED <<applies, stolen>>
                   /\ alive \ {Head(net).item[2]} \subseteq alive'
                   /\ \E new \in Seq(Fresh(applies, applies')) : net' = Tail(net) \o new
           More == /\ applies + 1 .. applies' \subseteq alive' /\ alive \subseteq alive'
                   /\ stolen' = stolen
<1>0. Skip => Same
  BY DEF Skip, lists, hist
<1>m. ASSUME NEW p, NEW sent, appendMsg(p, sent) PROVE Same
  BY <1>m DEF appendMsg, hist
<1>f. ASSUME NEW list, NEW sent, NewFriends(list, sent) PROVE Same
  BY <1>f DEF NewFriends, hist
<1>a. ASSUME NEW list \in Seq(Users), NEW sent, NewApplies(list, sent) PROVE More
  <2>1. alive' = alive \cup (applies + 1 .. applies')
    BY <1>a, AppliesStep
  <2>2. stolen' = stolen
    BY <1>a, AppliesStep
  <2> QED
    BY <2>1, <2>2
<1>l. UNCHANGED <<lists, stolen>> => Same
  BY DEF lists
<1>n. ASSUME NEW success, NEW rest, Run(success, rest), Head(callbacks_).kind = "nick",
             UNCHANGED stolen
      PROVE  Same
  BY <1>n DEF Run
<1>r. ASSUME NEW success, Answered("WHETHER_ACCEPT_ADD_FRIEND"), Run(success, Tail(net)),
             Head(callbacks_).item = Head(net).item, UNCHANGED stolen
      PROVE  Gone
  <2>1. alive \ {Head(net).item[2]} \subseteq alive' /\ applies' = applies
    BY <1>r DEF Run, removeWidget
  <2>2. \E new \in Seq(Fresh(applies, applies')) : net' = Tail(net) \o new
    <3>1. CASE net' = Tail(net)
      <4>1. Tail(net) \in Seq(Known(applies))
        BY <1>r, Answering
      <4>2. net' = Tail(net) \o <<>> /\ <<>> \in Seq(Fresh(applies, applies'))
        BY <3>1, <4>1, ConcatEmptySeq, EmptySeq
      <4> QED
        BY <4>2, Zenon
    <3>2. CASE net' = Append(Tail(net), Req("GET_FRIEND_LIST", MyHead))
      <4> DEFINE q == Req("GET_FRIEND_LIST", MyHead)
                 F == Fresh(applies, applies')
      <4>1. q \in F /\ q \in Known(applies)
        BY FreshNoItem, ItemsAreWidgets, Bounds, AskedIsKnown DEF Kinds
      <4>2. Tail(net) \in Seq(Known(applies)) /\ net' = Append(Tail(net), q)
        BY <1>r, <3>2, Answering
      <4> HIDE DEF q, F
      <4>3. net' = Tail(net) \o <<q>>
        BY <4>1, <4>2, OneMore
      <4>4. <<q>> \in Seq(F)
        BY <4>1
      <4> QED
        BY <4>3, <4>4 DEF F
    <3> QED
      BY <1>r, <3>1, <3>2 DEF Run
  <2> QED
    BY <1>r, <2>1, <2>2
<1>s. Same => More
  <2>1. applies + 1 .. applies = {}
    BY Bounds
  <2> QED
    BY <2>1
<1>g. Gone => applies + 1 .. applies' \subseteq alive' /\ stolen' = stolen
  <2>1. applies + 1 .. applies = {}
    BY Bounds
  <2> QED
    BY <2>1
<1>z. (More \/ Gone) =>
        /\ ~stolen /\ applies + 1 .. applies' \subseteq alive'
        /\ \/ alive \subseteq alive'
           \/ /\ Answered("WHETHER_ACCEPT_ADD_FRIEND")
              /\ alive \ {Head(net).item[2]} \subseteq alive'
              /\ \E new \in Seq(Fresh(applies, applies')) : net' = Tail(net) \o new
  BY <1>g
<1>h. Same \/ More \/ Gone => More \/ Gone
  BY <1>s
<1> HIDE DEF Same, More, Gone
<1>1. ASSUME NEW success \in BOOLEAN, AnswerUserHead(success) PROVE Same
  BY <1>1, <1>l DEF AnswerUserHead
<1>2. ASSUME NEW success \in BOOLEAN, AnswerById(success) PROVE Same
  <2>1. CASE callbacks_ # <<>>
    <3>1. Run(success, Tail(net)) /\ UNCHANGED stolen
          /\ Answered("GET_USERINFO_BY_ID")
      BY <1>2, <2>1 DEF AnswerById
    <3>2. Head(callbacks_).kind = "nick"
      BY <3>1, FirstMatches
    <3> QED
      BY <1>n, <3>1, <3>2
  <2>2. CASE callbacks_ = <<>>
    BY <1>0, <1>2, <2>2 DEF AnswerById
  <2> QED
    BY <2>1, <2>2
<1>3. ASSUME NEW success \in BOOLEAN, AnswerAccept(success) PROVE Same \/ Gone
  <2>1. CASE callbacks_ # <<>> /\ success
    <3>1. Run(TRUE, Tail(net)) /\ UNCHANGED stolen
          /\ Answered("WHETHER_ACCEPT_ADD_FRIEND")
      BY <1>3, <2>1 DEF AnswerAccept
    <3>2. Head(callbacks_).item = Head(net).item
      BY <3>1, FirstMatches
    <3> QED
      BY <1>r, <3>1, <3>2
  <2>2. CASE ~(callbacks_ # <<>> /\ success)
    BY <1>3, <1>l, <2>2 DEF AnswerAccept, hist
  <2> QED
    BY <2>1, <2>2
<1>4. ASSUME NEW answer \in SearchAnswers, NEW id \in Ids, AnswerByAccount(answer, id)
      PROVE  Same
  <2>1. CASE callbacks_ # <<>>
    BY <1>4, <2>1 DEF AnswerByAccount
  <2>2. CASE callbacks_ = <<>>
    BY <1>0, <1>4, <1>l, <2>2 DEF AnswerByAccount, hist
  <2> QED
    BY <2>1, <2>2
<1>5. ASSUME NEW list \in Orders, AnswerFriends(list) PROVE Same
  BY <1>5, <1>f DEF AnswerFriends
<1>6. ASSUME NEW list \in Orders, AnswerApplies(list) PROVE More
  BY <1>6, <1>a, ListIsSeq DEF AnswerApplies
<1>7. ASSUME NEW some \in BOOLEAN, AnswerFriendMsg(some) PROVE Same
  BY <1>0, <1>7, <1>m DEF AnswerFriendMsg
<1>8. ASSUME NEW id \in Ids, PushFriendMsg(id) PROVE Same
  BY <1>8, <1>m DEF PushFriendMsg
<1>9. ASSUME NEW p \in Users, PushApply(p) PROVE More
  <2>1. <<p>> \in Seq(Users)
    OBVIOUS
  <2> QED
    BY <1>9, <1>a, <2>1 DEF PushApply
<1>10. ASSUME NEW p \in Users, PushFriend(p) PROVE Same
  BY <1>10, <1>f DEF PushFriend
<1>11. ASSUME NEW id \in Ids, SwitchUser(id) PROVE Same
  BY <1>11, <1>l DEF SwitchUser, hist
<1>12. ASSUME NEW shown, SwitchListBar(shown) PROVE Same
  BY <1>12, <1>l DEF SwitchListBar, hist
<1>13. ASSUME SendMsg PROVE Same
  BY <1>13, <1>m DEF SendMsg
<1>14. ASSUME SearchUser \/ InfoAdd \/ InfoExit \/ AddDone PROVE Same
  BY <1>14, <1>l DEF SearchUser, InfoAdd, InfoExit, AddDone, hist
<1>15. ASSUME NEW p \in Users, RejectFriend(p) PROVE Same
  BY <1>15, <1>l DEF RejectFriend, hist
<1>16. ASSUME NEW p \in Users, AcceptFriend(p) PROVE Same
  BY <1>16, <1>l DEF AcceptFriend, hist
<1>17. ASSUME NEW accepted \in BOOLEAN, AcceptDone(accepted) PROVE Same
  BY <1>17, <1>l DEF AcceptDone, hist
<1>18. ASSUME UNCHANGED vars PROVE Same
  BY <1>18, <1>l DEF vars, hist
<1>19. More \/ Gone
  BY <1>1, <1>2, <1>3, <1>4, <1>5, <1>6, <1>7, <1>8, <1>9, <1>10, <1>11, <1>12, <1>13,
     <1>14, <1>15, <1>16, <1>17, <1>18, <1>h DEF Next, Network, User
<1> QED
  BY <1>19, <1>z

LEMMA AliveAskedNext ==
  ASSUME Typed, Matching, Keeping, [Next]_vars PROVE AliveAsked'
<1> DEFINE Stays(w) == w[1] # "apply" \/ w[2] \in alive'
<1> SUFFICES ASSUME ~stolen', NEW i \in 1 .. Len(net'),
                    net'[i].kind # "WHETHER_ACCEPT_ADD_FRIEND"
             PROVE  Stays(net'[i].item)
  BY DEF AliveAsked, Alive
<1>0. /\ ~stolen /\ applies + 1 .. applies' \subseteq alive'
      /\ net \in Seq(Known(applies)) /\ applies \in Nat /\ OrderedOf(net)
      /\ \A j \in 1 .. Len(net) : net[j].kind # "WHETHER_ACCEPT_ADD_FRIEND"
                                  => Alive(net[j].item)
  BY AliveSteps, Bounds DEF Keeping, AliveAsked, Typed
<1>2. \A w : Alive(w) <=> (w[1] # "apply" \/ w[2] \in alive)
  BY DEF Alive
<1>f. ASSUME NEW r \in Fresh(applies, applies') PROVE Stays(r.item)
  BY <1>0 DEF Fresh
\* A request that was there and whose item has not been deleted.
<1>o. ASSUME NEW j \in 1 .. Len(net), net'[i] = net[j],
             net[j].item[1] = "apply" /\ net[j].item[2] \in alive
               => net[j].item[2] \in alive'
      PROVE  Stays(net'[i].item)
  BY <1>0, <1>2, <1>o
<1>3. CASE alive \subseteq alive'
  <2>1. CASE \E base \in Bases, new \in Seq(Fresh(applies, applies')) : net' = base \o new
    <3>1. PICK base \in Bases, new \in Seq(Fresh(applies, applies')) : net' = base \o new
      BY <2>1
    <3>2. base \in Seq(Known(applies))
      BY <1>0, OrderedBase
    <3>3. \/ i \in 1 .. Len(base) /\ net'[i] = base[i]
          \/ net'[i] \in Fresh(applies, applies')
      BY <3>1, <3>2, ConcatAt
    <3>4. ASSUME i \in 1 .. Len(base) PROVE \E j \in 1 .. Len(net) : base[i] = net[j]
      <4>1. CASE base = net
        BY <3>4, <4>1
      <4>2. CASE net # <<>> /\ base = Tail(net)
        BY <1>0, <3>4, <4>2, TailAt
      <4> QED
        BY <4>1, <4>2 DEF Bases
    <3> QED
      BY <1>3, <1>f, <1>o, <3>3, <3>4
  <2>2. ASSUME NEW r, net' = Append(net, r), r.item[1] # "apply"
        PROVE  Stays(net'[i].item)
    <3>1. (i \in 1 .. Len(net) /\ net'[i] = net[i]) \/ net'[i] = r
      BY <1>0, <2>2
    <3> QED
      BY <1>3, <1>o, <2>2, <3>1
  <2>3. ASSUME NEW r, net' = Append(net, r), r.kind = "WHETHER_ACCEPT_ADD_FRIEND"
        PROVE  Stays(net'[i].item)
    <3>1. (i \in 1 .. Len(net) /\ net'[i] = net[i]) \/ net'[i] = r
      BY <1>0, <2>3
    <3> QED
      BY <1>3, <1>o, <2>3, <3>1
  <2>4. /\ Req("GET_USERINFO_BY_ACCOUNT", InfoHead).item[1] # "apply"
        /\ \A n : Decision(n).kind = "WHETHER_ACCEPT_ADD_FRIEND"
    BY ItemsAreWidgets DEF Req, Decision
  <2> QED
    BY <2>1, <2>2, <2>3, <2>4, NetSteps DEF NetStep
<1>4. CASE /\ Answered("WHETHER_ACCEPT_ADD_FRIEND")
           /\ alive \ {Head(net).item[2]} \subseteq alive'
           /\ \E new \in Seq(Fresh(applies, applies')) : net' = Tail(net) \o new
  <2>1. PICK new \in Seq(Fresh(applies, applies')) : net' = Tail(net) \o new
    BY <1>4
  <2>2. net # <<>> /\ Head(net).kind = "WHETHER_ACCEPT_ADD_FRIEND"
    BY <1>4 DEF Answered
  <2>3. /\ Tail(net) \in Seq(Known(applies)) /\ Len(Tail(net)) = Len(net) - 1
        /\ Len(net) \in Nat \ {0} /\ Head(net) = net[1]
        /\ \A j \in 1 .. Len(net) - 1 : Tail(net)[j] = net[j + 1]
    BY <1>0, <2>2, TailAt
  <2>4. \/ i \in 1 .. Len(Tail(net)) /\ net'[i] = Tail(net)[i]
        \/ net'[i] \in Fresh(applies, applies')
    BY <2>1, <2>3, ConcatAt
  <2>5. ASSUME i \in 1 .. Len(Tail(net)), net'[i] = Tail(net)[i]
        PROVE  Stays(net'[i].item)
    <3>1. i + 1 \in 1 .. Len(net) /\ net'[i] = net[i + 1] /\ 1 \in 1 .. Len(net)
          /\ ~(i + 1 < 1)
      BY <2>3, <2>5
    <3>2. net[1].item # net[i + 1].item
      BY <1>0, <2>2, <2>3, <3>1 DEF OrderedOf
    <3>3. net[1] \in Known(applies) /\ net[i + 1] \in Known(applies)
      BY <1>0, <3>1
    <3>4. net[i + 1].item[1] = "apply" => net[i + 1].item[2] # net[1].item[2]
      <4>1. /\ net[1].item \in Widgets /\ net[1].item[1] = "apply"
            /\ net[i + 1].item \in Widgets
        BY <2>2, <2>3, <3>3 DEF Known, Requests
      <4> QED
        BY <3>2, <4>1, ItemsAreWidgets
    <3> QED
      BY <1>4, <1>o, <2>3, <3>1, <3>4
  <2> QED
    BY <1>f, <2>4, <2>5
<1> QED
  BY <1>3, <1>4, AliveSteps

LEMMA KeepingInit == Init => Keeping
<1> SUFFICES ASSUME Init PROVE Keeping
  OBVIOUS
<1> DEFINE h == HeadReq(MyHead)
           f == Req("GET_FRIEND_LIST", MyHead)
           a == Req("GET_APPLY_FRIEND_LIST", MyHead)
<1>1. \A r \in {h, f, a} : r.kind # "WHETHER_ACCEPT_ADD_FRIEND" /\ r.item = MyHead
  BY DEF HeadReq, Req
<1>2. net = <<h, f, a>>
  BY DEF Init
<1> HIDE DEF h, f, a
<1>3. \A i \in 1 .. Len(net) : net[i] \in {h, f, a}
  BY <1>2
<1>4. OrderedOf(net)
  BY <1>1, <1>3 DEF OrderedOf
<1>5. AliveAsked
  BY <1>1, <1>3, ItemsAreWidgets DEF AliveAsked, Alive
<1> QED
  BY <1>4, <1>5 DEF Keeping

LEMMA KeepingNext == Typed /\ Matching /\ Keeping /\ [Next]_vars => Keeping'
  BY OrderedNext, AliveAskedNext DEF Keeping

LEMMA KeepingAlive == Typed /\ Matching /\ Keeping => NoDangling
<1> SUFFICES ASSUME Typed, Matching, Keeping, ~headFailed, ~stolen
             PROVE  /\ \A i \in DOMAIN headWidgets_ : Alive(headWidgets_[i])
                    /\ \A i \in DOMAIN callbacks_ :
                          callbacks_[i].kind = "nick" => Alive(callbacks_[i].item)
  BY DEF NoDangling
<1>1. /\ net \in Seq(Requests) /\ headWidgets_ \in Seq(Widgets)
      /\ callbacks_ \in Seq(Closures)
  BY DEF Typed, TypeOK
<1>2. net \in Seq(Range(net))
  BY <1>1 DEF Range
<1> DEFINE H == Only(net, Heading)
           A == Only(net, Asking)
           HR == Range(net) \cap Heading
           AR == Range(net) \cap Asking
<1>3. H \in Seq(HR) /\ A \in Seq(AR)
  BY <1>2, OnlyIsSeq
<1>4. \A r \in Range(net) : r.kind # "WHETHER_ACCEPT_ADD_FRIEND" => Alive(r.item)
  BY <1>1 DEF Keeping, AliveAsked, Range
<1>5. /\ \A r \in HR : Alive(r.item)
      /\ \A r \in AR : r.kind = "GET_USERINFO_BY_ID" => Alive(r.item)
  BY <1>4 DEF Heading
<1>6. /\ Len(headWidgets_) = Len(H)
      /\ \A i \in 1 .. Len(headWidgets_) : headWidgets_[i] = H[i].item
      /\ Len(callbacks_) = Len(A)
      /\ \A i \in 1 .. Len(callbacks_) :
           /\ callbacks_[i].item = A[i].item
           /\ callbacks_[i].kind = "nick" <=> A[i].kind = "GET_USERINFO_BY_ID"
  BY DEF Matching, MatchOf, HeadsMatch, CallsMatch
<1> HIDE DEF H, A, HR, AR
<1>7. (\A i \in 1 .. Len(H) : H[i] \in HR) /\ (\A i \in 1 .. Len(A) : A[i] \in AR)
  BY <1>3
<1>8. DOMAIN headWidgets_ = 1 .. Len(headWidgets_) /\ DOMAIN callbacks_ = 1 .. Len(callbacks_)
  BY <1>1
<1> QED
  BY <1>5, <1>6, <1>7, <1>8

\* NoDangling: an item is deleted only when no label and no nick of it is waited for any
\* more, for the decision on a request is answered after all that was asked about it.
THEOREM NoItemDangles == Spec => []NoDangling
<1>1. Typed /\ Matching /\ Keeping /\ [Next]_vars => (Typed /\ Matching /\ Keeping)'
  BY TypedNext, MatchingNext, KeepingNext
<1> QED
  BY <1>1, TypedInit, MatchingInit, KeepingInit, KeepingAlive, PTL DEF Spec
=============================================================================
